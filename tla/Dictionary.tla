----------------------------- MODULE Dictionary -----------------------------
(***************************************************************************)
(* What a tree promises the threads that share it: a map from keys to      *)
(* TIDs, on which every call takes effect at one moment between its        *)
(* beginning and its end.                                                  *)
(***************************************************************************)
EXTENDS Integers

CONSTANTS Keys, TIDs, NoTID, Threads

VARIABLES dict,     \* a function from the keys in the map to their TIDs
          request,  \* [Threads -> Requests \cup {NoRequest}]: the call under way
          answer    \* [Threads -> Answers]: what the last call returned

vars == <<dict, request, answer>>

Requests == [op : {"insert", "erase", "lookup"}, key : Keys, tid : TIDs \cup {NoTID}]
NoRequest == [op |-> "none", key |-> 0, tid |-> NoTID]

Answers == [found : BOOLEAN, tid : TIDs \cup {NoTID}]
NotFound == [found |-> FALSE, tid |-> NoTID]

Init == /\ dict = [k \in {} |-> NoTID]
        /\ request = [t \in Threads |-> NoRequest]
        /\ answer = [t \in Threads |-> NotFound]

\* A new call: the answer to the last one is forgotten.
Ask(t) == /\ request[t] = NoRequest
          /\ \E r \in Requests : request' = [request EXCEPT ![t] = r]
          /\ answer' = [answer EXCEPT ![t] = NotFound]
          /\ UNCHANGED dict

\* A call of op takes effect and is over.
Does(t, op) == /\ request[t].op = op
               /\ request' = [request EXCEPT ![t] = NoRequest]

Insert(t) == LET k == request[t].key IN
    /\ Does(t, "insert")
    /\ dict' = [j \in DOMAIN dict \cup {k} |-> IF j = k THEN request[t].tid ELSE dict[j]]
    /\ UNCHANGED answer

Erase(t) == LET k == request[t].key IN
    /\ Does(t, "erase")
    /\ dict' = [j \in DOMAIN dict \ {k} |-> dict[j]]
    /\ answer' = [answer EXCEPT ![t] = [found |-> k \in DOMAIN dict, tid |-> NoTID]]

Lookup(t) == LET k == request[t].key IN
    /\ Does(t, "lookup")
    /\ answer' = [answer EXCEPT ![t] = IF k \in DOMAIN dict
                                       THEN [found |-> TRUE, tid |-> dict[k]]
                                       ELSE NotFound]
    /\ UNCHANGED dict

Next == \E t \in Threads : Ask(t) \/ Insert(t) \/ Erase(t) \/ Lookup(t)

Spec == Init /\ [][Next]_vars
=============================================================================
