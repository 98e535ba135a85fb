---------------------------- MODULE MCOperators -----------------------------
(***************************************************************************)
(* Small plans for Operators: a plan that works with tables of up to three *)
(* records on up to two pages, and plans with one thing wrong.             *)
(***************************************************************************)
EXTENDS Operators

\* A value is an Integer, or a Char(2) of one character with or without a NUL.
Rec(v, w)   == [kind |-> "record", values |-> <<<<v, 0>>, <<w, 0>>>>]
RecFull(v, w) == [kind |-> "record", values |-> <<<<v, v>>, <<w, 0>>>>]
RecOpen(v, w) == [kind |-> "record", values |-> <<<<v, 0>>, <<w, w>>>>]
Free        == [kind |-> "free", values |-> << >>]
Indirection == [kind |-> "indirection", values |-> << >>]

Segment(id, pages) == [id |-> id, pages |-> pages]

Left == {Segment(1, << <<Rec(1, 1), Free>>, <<Indirection, Rec(2, 1)>> >>),
         Segment(0, << <<>>, <<Rec(1, 2), Rec(1, 2), Rec(3, 1)>> >>),
         Segment(2, << >>)}
Right == {Segment(1, << <<Rec(1, 1)>>, <<Indirection, Rec(2, 1)>> >>),
          Segment(2, << <<Free, Rec(1, 1), Rec(2, 2), Rec(1, 3)>>, <<Free>> >>)}

Ints == <<"Integer", "Integer">>

Good == {[seg1 |-> s, seg2 |-> t, types1 |-> Ints, types2 |-> types,
          id1 |-> 0, id2 |-> id, regID |-> 3, ids |-> <<2, 1>>,
          constant |-> [type |-> "Integer", value |-> <<1>>]] :
            s \in Left, t \in Right, types \in {Ints, <<"Integer", "Char">>}, id \in {0, 1}}
     \cup {[seg1 |-> Segment(1, << <<RecFull(1, 1), Rec(2, 1)>>, <<RecFull(1, 2)>> >>), seg2 |-> t,
            types1 |-> <<"Char", "Integer">>, types2 |-> <<"Char", "Integer">>,
            id1 |-> 0, id2 |-> 0, regID |-> id, ids |-> <<0, 3>>,
            constant |-> [type |-> "String", value |-> v]] :
              t \in Right \cup {Segment(2, << <<RecFull(1, 1), RecFull(1, 2)>> >>)},
              id \in {0, 2}, v \in {<<1, 1, 2>>, <<2>>}}

Bad == {[p EXCEPT !.seg1 = Segment(0, << >>)] : p \in Good}
         \cup {[p EXCEPT !.seg2 = Segment(0, << >>)] : p \in Good}
         \cup {[p EXCEPT !.id1 = 2] : p \in Good}
         \cup {[p EXCEPT !.regID = 4] : p \in Good}
         \cup {[p EXCEPT !.ids = <<2, 4>>] : p \in Good}
         \cup {[p EXCEPT !.types2 = @ \o <<"Integer">>] : p \in Good}
         \cup {[p EXCEPT !.types1 = <<"Integer", "Char">>,
                         !.seg1 = Segment(1, << <<Rec(1, 1), RecOpen(1, 2)>> >>)] : p \in Good}
         \cup {[p EXCEPT !.types1 = <<"Integer", "String">>] : p \in Good}

MCPlans == Good \cup Bad
=============================================================================
