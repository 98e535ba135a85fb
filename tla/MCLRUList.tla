----------------------------- MODULE MCLRUList ------------------------------
(***************************************************************************)
(* LRUList with four frames: enough for a frame to be      *)
(* taken from the inside of the list, from either end, and as its only     *)
(* member.                                                                 *)
(***************************************************************************)
EXTENDS LRUList

CONSTANTS p1, p2, p3, p4
=============================================================================
