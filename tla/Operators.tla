----------------------------- MODULE Operators ------------------------------
(***************************************************************************)
(* The query operators, composed as                                        *)
(*     Print(Projection(Selection(HashJoin(TableScan, TableScan))))        *)
(* and driven by a client: open, next until it returns false (or until the *)
(* client has enough), getOutput after each next, close; and open again.   *)
(*                                                                         *)
(* A step is a call of the client, or what one turn of the loops in open   *)
(* and next does.  Operators hand on pointers to registers: heap holds the *)
(* registers, and a tuple is a sequence of places in it.  Segments do not  *)
(* change meanwhile (SlottedSegment has scans beside writers).             *)
(***************************************************************************)
EXTENDS Integers, Sequences, FiniteSets, SequencesExt, TableScan

CONSTANTS Plans,      \* what is joined, selected and projected: see Plan
          MaxOpens,   \* bound on the times the client opens the operators
          Span        \* the pages of a segment are numbered from id * Span (2^48)

Tags == {"Integer", "Char", "String"}

\* A segment is an id and its pages, a page the sequence of its slots. The
\* values of a record are their bytes: <<n, 0>> for the Integer n (its other
\* bytes are 0), what was stored for a Char.
Slots == [kind : {"free", "indirection", "record"}, values : Seq(Seq(Nat))]

Segments == {seg \in [id : 0..3, pages : Seq(Seq(Slots))] : Len(seg.pages) <= Span}

Register == [type : {"Integer", "String"}, value : Seq(Nat)]

\* What the constructors of the operators are given.
Plan == [seg1 : Segments, seg2 : Segments,            \* TableScan
         types1 : Seq(Tags), types2 : Seq(Tags),
         id1 : Nat, id2 : Nat,                        \* HashJoin
         regID : Nat, constant : Register,            \* Selection
         ids : Seq(Nat)]                              \* Projection

ASSUME PlansAssumption == Span \in Nat \ {0} /\ Plans \subseteq Plan

VARIABLES plan, heap,
          scan1, scan2,    \* the positions of the table scans
          map,             \* the hash table: keys and tuples of the first scan
          regs2, range, hasRange, regs,   \* the state of HashJoin::next
          pc,              \* what the client, or the operators, do
          rows,            \* what has been printed since the last open
          opens

vars == <<plan, heap, scan1, scan2, map, regs2, range, hasRange, regs, pc, rows, opens>>

tables    == <<scan1, scan2>>
joinVars  == <<map, regs2, range, hasRange, regs>>

-----------------------------------------------------------------------------
\* load: an Integer; a Char becomes a String, which ends at the first NUL, be
\* it in this value or a later one; a String has no form in a record.
CanLoad(tag) == tag # "String"
From(values, k) == FlattenSeq(SubSeq(values, k, Len(values)))
Ends(values, k) == 0 \in Range(From(values, k))

Load(tag, values, k) ==
    IF tag = "Integer" THEN [type |-> "Integer", value |-> <<values[k][1]>>]
    ELSE LET bytes == From(values, k)
         IN  [type |-> "String",
              value |-> SubSeq(bytes, 1, SelectInSeq(bytes, LAMBDA x : x = 0) - 1)]

\* operator==
Equal(r, s) == r.type = s.type /\ r.value = s.value

\* What loading a record meets: an exception, an assertion, or bytes that are
\* not the record's (a Char without a NUL before the end of the record).
Loading(types, values) ==
    IF \E k \in DOMAIN types : ~CanLoad(types[k]) THEN "thrown"
    ELSE IF Len(types) # Len(values) THEN "aborted"
    ELSE IF \E k \in DOMAIN types : types[k] = "Char" /\ ~Ends(values, k) THEN "undefined"
    ELSE "loaded"

\* The bounds of a table scan; page numbers are modulo 2^64 (Span times 4).
First(seg) == seg.id * Span

\* Faulty variant: the last page is one too far.
LastPage_Over(seg) == First(seg) + Len(seg.pages)

LastPage(seg) == (First(seg) + Len(seg.pages) - 1) % (4 * Span)

PageAt(seg, p) == seg.pages[p - First(seg) + 1]
HasPage(seg, p) == p - First(seg) \in 0..(Len(seg.pages) - 1)

IsRecord(slot) == slot.kind = "record"
Records(page) == {k - 1 : k \in {j \in DOMAIN page : IsRecord(page[j])}}

Init == /\ plan \in Plans
        /\ heap = << >>
        /\ scan1 = NewScan /\ scan2 = NewScan
        /\ map = << >> /\ regs2 = << >> /\ range = {} /\ hasRange = FALSE /\ regs = << >>
        /\ pc = "closed"
        /\ rows = << >>
        /\ opens = 0

-----------------------------------------------------------------------------
\* open, from the top: both scans are opened, then the first is read into the
\* hash table.  (An open scan with a page fixed fails an assertion.)
Open ==
    /\ pc = "closed" /\ opens < MaxOpens
    /\ scan1.bf = NoFrame /\ scan2.bf = NoFrame
    /\ scan1' = Opened(First(plan.seg1), LastPage(plan.seg1))
    /\ scan2' = Opened(First(plan.seg2), LastPage(plan.seg2))
    /\ pc' = "build"
    /\ rows' = << >>
    /\ opens' = opens + 1
    /\ UNCHANGED <<plan, heap, joinVars>>

\* The scan that is read: the first while the hash table is built, the second
\* while next has no matches left.
Reading == CASE pc = "build" -> 1
             [] pc = "next" /\ ~hasRange -> 2
             [] OTHER -> 0

Scan == tables[Reading]
Seg  == IF Reading = 1 THEN plan.seg1 ELSE plan.seg2
Types == IF Reading = 1 THEN plan.types1 ELSE plan.types2

SetScan(s) == IF Reading = 1 THEN scan1' = s /\ UNCHANGED scan2
                             ELSE scan2' = s /\ UNCHANGED scan1

\* TableScan::next, a page without a record left.
PageEnd ==
    /\ Reading # 0 /\ ~AtEnd(Scan)
    /\ HasPage(Seg, PageOf(Scan))
    /\ LET page == PageAt(Seg, PageOf(Scan))
           scan == Loaded(Scan, Len(page))
       IN  /\ NextRecord(scan, Records(page)) = scan.slotCount
           /\ SetScan(Unfixed(scan))
    /\ UNCHANGED <<plan, heap, joinVars, pc, rows, opens>>

\* TableScan::next, past the pages of the segment.
Outside ==
    /\ Reading # 0 /\ ~AtEnd(Scan)
    /\ ~HasPage(Seg, PageOf(Scan))
    /\ pc' = "undefined"
    /\ UNCHANGED <<plan, heap, tables, joinVars, rows, opens>>

\* Faulty variant: the registers of the last record are used again.
Store_Reused(r) ==
    /\ heap' = r \o SubSeq(heap, Len(r) + 1, Len(heap))
    /\ regs2' = [k \in DOMAIN r |-> k]

\* New registers for the values of a record.
Store(r) ==
    /\ heap' = heap \o r
    /\ regs2' = [k \in DOMAIN r |-> Len(heap) + k]

\* TableScan::next, a record; and what HashJoin does with it.
Record ==
    /\ Reading # 0 /\ ~AtEnd(Scan)
    /\ HasPage(Seg, PageOf(Scan))
    /\ LET page == PageAt(Seg, PageOf(Scan))
           scan == Loaded(Scan, Len(page))
           i    == NextRecord(scan, Records(page))
           id   == IF Reading = 1 THEN plan.id1 ELSE plan.id2
       IN  /\ i < scan.slotCount
           /\ SetScan(Past(scan, i))
           /\ IF Loading(Types, page[i + 1].values) # "loaded"
              THEN /\ pc' = Loading(Types, page[i + 1].values)
                   /\ UNCHANGED <<heap, joinVars>>
              ELSE LET r == [k \in DOMAIN Types |-> Load(Types[k], page[i + 1].values, k)] IN
                   /\ Store(r)
                   /\ UNCHANGED regs
                   /\ IF id >= Len(r)
                      THEN /\ pc' = "undefined"
                           /\ UNCHANGED <<map, range, hasRange>>
                      ELSE IF Reading = 1
                      THEN /\ map' = Append(map, [key |-> r[id + 1], regs |-> regs2'])
                           /\ UNCHANGED <<range, hasRange, pc>>
                      ELSE /\ range' = {j \in DOMAIN map : Equal(map[j].key, r[id + 1])}
                           /\ hasRange' = (range' # {})
                           /\ UNCHANGED <<map, pc>>
    /\ UNCHANGED <<plan, rows, opens>>

\* The scan that is read is at its end: the hash table is built, or next
\* returns false.
ScanEnd ==
    /\ Reading # 0 /\ AtEnd(Scan)
    /\ pc' = IF Reading = 1 THEN "open" ELSE "end"
    /\ hasRange' = FALSE
    /\ UNCHANGED <<plan, heap, tables, map, regs2, range, regs, rows, opens>>

-----------------------------------------------------------------------------
\* next, from the top (it may be called again at the end).
CallNext ==
    /\ pc \in {"open", "end"}
    /\ pc' = "next"
    /\ UNCHANGED <<plan, heap, tables, joinVars, rows, opens>>

\* Selection::next: return this row, go on, or fail.
Selected(out) ==
    IF plan.regID >= Len(out) THEN "thrown"
    ELSE IF Equal(heap[out[plan.regID + 1]], plan.constant) THEN "got"
    ELSE "next"

\* HashJoin::next goes on to the next match (equal_range has them in any
\* order), and Selection::next looks at it.
Match(j) ==
    /\ pc = "next" /\ hasRange
    /\ j \in range
    /\ regs' = map[j].regs \o regs2
    /\ pc' = Selected(regs')
    /\ range' = range \ {j}
    /\ UNCHANGED <<plan, heap, tables, map, regs2, hasRange, rows, opens>>

NoMoreMatches ==
    /\ pc = "next" /\ hasRange
    /\ range = {}
    /\ hasRange' = FALSE
    /\ UNCHANGED <<plan, heap, tables, map, regs2, range, regs, pc, rows, opens>>

\* Print::getOutput: what the registers hold now.
Printed(out) == [k \in DOMAIN out |-> heap[out[k]]]

\* getOutput: Projection picks registers, Print prints them.
GetOutput ==
    /\ pc = "got"
    /\ IF \E k \in DOMAIN plan.ids : plan.ids[k] >= Len(regs)
       THEN /\ pc' = "thrown"
            /\ UNCHANGED rows
       ELSE /\ pc' = "open"
            /\ rows' = Append(rows, Printed([k \in DOMAIN plan.ids |-> regs[plan.ids[k] + 1]]))
    /\ UNCHANGED <<plan, heap, tables, joinVars, opens>>

\* Faulty variant: only the first scan is closed.
Closed_First == scan1' = Unfixed(scan1) /\ UNCHANGED scan2

Closed == scan1' = Unfixed(scan1) /\ scan2' = Unfixed(scan2)

\* close, from the top, at any time between two calls.
Close ==
    /\ pc \in {"open", "got", "end", "thrown"}
    /\ Closed
    /\ pc' = "closed"
    /\ UNCHANGED <<plan, heap, joinVars, rows, opens>>

Finished == /\ pc \in {"undefined", "aborted"} \/ (pc = "closed" /\ opens = MaxOpens)
            /\ UNCHANGED vars

Next == \/ Open \/ PageEnd \/ Outside \/ Record \/ ScanEnd
        \/ CallNext \/ NoMoreMatches \/ GetOutput \/ Close
        \/ \E j \in range : Match(j)
        \/ Finished

Spec == Init /\ [][Next]_vars

-----------------------------------------------------------------------------
Places == DOMAIN heap

TypeOK ==
    /\ plan \in Plans
    /\ heap \in Seq(Register)
    /\ scan1 \in Scans /\ scan2 \in Scans
    /\ \A j \in DOMAIN map : map[j].key \in Register /\ map[j].regs \in Seq(Places)
    /\ regs2 \in Seq(Places) /\ regs \in Seq(Places)
    /\ range \subseteq DOMAIN map
    /\ hasRange \in BOOLEAN
    /\ pc \in {"closed", "build", "open", "next", "got", "end", "thrown", "aborted", "undefined"}
    /\ rows \in Seq(Seq(Register))
    /\ opens \in 0..MaxOpens

(***************************************************************************)
(* The rows the query stands for: of the pairs of records whose join       *)
(* columns are equal those with the constant in the selected column,       *)
(* projected.                                                              *)
(***************************************************************************)
RecordsOf(seg, types) ==
    {[at |-> q, regs |-> [k \in DOMAIN types |-> Load(types[k], seg.pages[q[1]][q[2]].values, k)]] :
        q \in {r \in UNION {{p} \X DOMAIN seg.pages[p] : p \in DOMAIN seg.pages} :
                  IsRecord(seg.pages[r[1]][r[2]])}}

Answers ==
    {pair \in RecordsOf(plan.seg1, plan.types1) \X RecordsOf(plan.seg2, plan.types2) :
        /\ Equal(pair[1].regs[plan.id1 + 1], pair[2].regs[plan.id2 + 1])
        /\ Equal((pair[1].regs \o pair[2].regs)[plan.regID + 1], plan.constant)}

RowOf(pair) == [k \in DOMAIN plan.ids |-> (pair[1].regs \o pair[2].regs)[plan.ids[k] + 1]]

(***************************************************************************)
(* A pass that has come to its end has printed each row of the answer as   *)
(* often as it should, times the number of opens so far: the hash table is *)
(* never emptied, so that the operators give the answer once only.         *)
(***************************************************************************)
PassYieldsAnswer ==
    pc = "end" =>
        \A row \in Range(rows) \cup {RowOf(pair) : pair \in Answers} :
            Cardinality({n \in DOMAIN rows : rows[n] = row})
                = opens * Cardinality({pair \in Answers : RowOf(pair) = row})

(***************************************************************************)
(* No page stays fixed when the operators are closed, at whatever time     *)
(* (after an exception, too), nor when next has returned false.            *)
(***************************************************************************)
NothingLeftFixed ==
    pc \in {"closed", "end"} => scan1.bf = NoFrame /\ scan2.bf = NoFrame

(***************************************************************************)
(* Nothing goes wrong but for a cause in the plan: a column that is not    *)
(* there or cannot be loaded; records that are not those of the schema; a  *)
(* Char without a NUL; and a scan leaves its segment only if that is empty *)
(* and has id 0 (0 - 1 wraps round to the greatest page).                  *)
(***************************************************************************)
Empty0(seg) == seg.id = 0 /\ seg.pages = << >>

Meets(seg, types, outcome) ==
    \E p \in DOMAIN seg.pages : \E i \in DOMAIN seg.pages[p] :
        IsRecord(seg.pages[p][i]) /\ Loading(types, seg.pages[p][i].values) = outcome

Loads(outcome) == Meets(plan.seg1, plan.types1, outcome) \/ Meets(plan.seg2, plan.types2, outcome)

GoesWrongOnlyIf ==
    /\ pc = "thrown" => \/ Loads("thrown")
                        \/ \E id \in {plan.regID} \cup Range(plan.ids) :
                               id >= Len(plan.types1) + Len(plan.types2)
    /\ pc = "aborted" => Loads("aborted")
    /\ pc = "undefined" => \/ Empty0(plan.seg1) \/ Empty0(plan.seg2)
                           \/ plan.id1 >= Len(plan.types1) \/ plan.id2 >= Len(plan.types2)
                           \/ Loads("undefined")
=============================================================================
