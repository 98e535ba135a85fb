-------------------------- MODULE MCSchemaSegment ---------------------------
(***************************************************************************)
(* Small files and schemas for SchemaSegment.                              *)
(***************************************************************************)
EXTENDS SchemaSegment

MCAtoi(w) == 1

Attr(name, type, len, notNull) == [name |-> name, type |-> type, len |-> len, notNull |-> notNull]

\* Schemas with nullable attributes, two relations, a key of two columns; and
\* one that does not fit.
MCBuilt ==
    {<<[Relation("1") EXCEPT !.attributes = <<Attr("a", "Integer", 8, FALSE)>>, !.size = 2]>>,
     <<[Relation("a") EXCEPT !.segmentID = 3],
       [Relation("1") EXCEPT !.attributes = <<Attr("a", "Char", 1, FALSE), Attr("1", "Integer", 8, TRUE)>>,
                             !.primaryKey = <<1, 0>>]>>,
     [i \in 1..5 |-> Relation("a")]}
=============================================================================
