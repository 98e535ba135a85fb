-------------------------- MODULE MCSlottedSegment --------------------------
(***************************************************************************)
(* Small instances of SlottedSegment for TLC.  In units of 8 bytes the     *)
(* header takes 3 and a slot 2, as in the code.  Two short records fill a  *)
(* page of 9 units exactly, as three empty ones do; a page of 10 has room  *)
(* for two short records or for one long one.                              *)
(***************************************************************************)
EXTENDS SlottedSegment

CONSTANTS a, b, t1, t2

ChangeOps == {"insert", "remove", "update"}
InsertOnly == [t \in Threads |-> {"insert"}]
WriterAndReader == [t \in Threads |-> IF t = t1 THEN ChangeOps ELSE {"lookup", "tablescan"}]

ShortAndLong == {<<a>>, <<b, b, b>>}
EmptyShortAndLong == {<< >>, <<a>>, <<b, b, b>>}
=============================================================================
