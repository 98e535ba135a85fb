-------------------------- MODULE MCBufferManager ---------------------------
(***************************************************************************)
(* BufferManager on a small instance: the pages of two segment files, and  *)
(* values of Modes for the ways clients share pages.                       *)
(***************************************************************************)
EXTENDS BufferManager, TLC

CONSTANTS t1, t2, p1, p2, p3, s1, s2, v0, v1

MCSegmentOf == [p \in Pages |-> IF p = p1 THEN s1 ELSE s2]

AnyMode == [t \in Threads |-> AllModes]
OneReader == [t \in Threads |-> IF t = t1 THEN {"shared"} ELSE {"exclusive"}]

\* p2 and p3 play the same part, p1 is alone in its segment.
PageSymmetry == Permutations(Pages \ {p1})
ThreadPageSymmetry == Permutations(Threads) \cup PageSymmetry
=============================================================================
