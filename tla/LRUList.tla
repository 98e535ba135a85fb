------------------------------ MODULE LRUList -------------------------------
(***************************************************************************)
(* The doubly linked list in which BufferManager keeps the frames nobody   *)
(* has fixed: putLRU, removeLRU and popLRU with the pointers they move.    *)
(* The links are fields of the frames themselves.  Each operation holds    *)
(* lruMutex from beginning to end and is one step.                         *)
(*                                                                         *)
(* The callers are modelled by what lets them call: a frame is constructed *)
(* for its first user (fixPage, after a miss), looked up while it is in    *)
(* the map (fixPage, on a hit), given back by a user (unfixPage), and      *)
(* destructed after popLRU has returned it.                                *)
(***************************************************************************)
EXTENDS Naturals, Sequences, SequencesExt

CONSTANTS Pages,    \* a frame is named by the page it buffers
          NULL,
          MaxUsers  \* bound on the users of one frame at a time

ASSUME PagesAssumption == IsFiniteSet(Pages) /\ NULL \notin Pages
ASSUME MaxUsersAssumption == MaxUsers \in Nat \ {0}

VARIABLES frames,     \* SUBSET Pages: the frames in the map
          lru, mru,   \* the ends of the list
          prev, next, \* [Pages -> Pages \cup {NULL}]: the links of a frame
          users       \* [Pages -> Nat]: currentUsers

vars == <<frames, lru, mru, prev, next, users>>

Pointers == Pages \cup {NULL}

Init == /\ frames = {}
        /\ lru = NULL /\ mru = NULL
        /\ prev = [p \in Pages |-> NULL]
        /\ next = [p \in Pages |-> NULL]
        /\ users = [p \in Pages |-> 0]

-----------------------------------------------------------------------------
\* The constructor of the frame, and its first user.
Adopt(p) == /\ p \notin frames
            /\ frames' = frames \cup {p}
            /\ prev' = [prev EXCEPT ![p] = NULL]
            /\ next' = [next EXCEPT ![p] = NULL]
            /\ users' = [users EXCEPT ![p] = 1]
            /\ UNCHANGED <<lru, mru>>

\* Faulty variant: the count is lowered whatever it is.
PutShared_Any(p) == /\ users' = [users EXCEPT ![p] = @ - 1]
                    /\ UNCHANGED <<frames, lru, mru, prev, next>>

\* putLRU, when other users remain.
PutShared(p) == /\ users[p] > 1
                /\ users' = [users EXCEPT ![p] = @ - 1]
                /\ UNCHANGED <<frames, lru, mru, prev, next>>

\* Faulty variant: the frame is queued at the LRU end.
PutLast_AtLRU(p) ==
    /\ users[p] = 1
    /\ users' = [users EXCEPT ![p] = 0]
    /\ IF lru = NULL
       THEN /\ mru' = p
            /\ UNCHANGED <<prev, next>>
       ELSE /\ next' = [next EXCEPT ![p] = lru]
            /\ prev' = [prev EXCEPT ![lru] = p]
            /\ UNCHANGED mru
    /\ lru' = p
    /\ UNCHANGED frames

\* putLRU by the last user: the frame becomes the MRU end.
PutLast(p) ==
    /\ users[p] = 1
    /\ users' = [users EXCEPT ![p] = 0]
    /\ IF mru = NULL
       THEN /\ lru' = p
            /\ UNCHANGED <<prev, next>>
       ELSE /\ prev' = [prev EXCEPT ![p] = mru]
            /\ next' = [next EXCEPT ![mru] = p]
            /\ UNCHANGED lru
    /\ mru' = p
    /\ UNCHANGED frames

\* removeLRU, when the frame has users already.
TakeShared(p) == /\ users[p] > 0 /\ users[p] < MaxUsers
                 /\ users' = [users EXCEPT ![p] = @ + 1]
                 /\ UNCHANGED <<frames, lru, mru, prev, next>>

\* Faulty variant: the successor keeps its link to the frame.
TakeFirst_BackLink(p) ==
    /\ p \in frames /\ users[p] = 0
    /\ users' = [users EXCEPT ![p] = 1]
    /\ next' = [q \in Pages |-> CASE q = p -> NULL
                                  [] q # p /\ q = prev[p] -> next[p]
                                  [] OTHER -> next[q]]
    /\ prev' = [prev EXCEPT ![p] = NULL]
    /\ lru' = IF lru = p THEN next[p] ELSE lru
    /\ mru' = IF mru = p THEN prev[p] ELSE mru
    /\ UNCHANGED frames

\* removeLRU for a first user: the neighbours are joined, the ends move.
TakeFirst(p) ==
    /\ p \in frames /\ users[p] = 0
    /\ users' = [users EXCEPT ![p] = 1]
    /\ next' = [q \in Pages |-> CASE q = p -> NULL
                                  [] q # p /\ q = prev[p] -> next[p]
                                  [] OTHER -> next[q]]
    /\ prev' = [q \in Pages |-> CASE q = p -> NULL
                                  [] q # p /\ q = next[p] -> prev[p]
                                  [] OTHER -> prev[q]]
    /\ lru' = IF lru = p THEN next[p] ELSE lru
    /\ mru' = IF mru = p THEN prev[p] ELSE mru
    /\ UNCHANGED frames

\* popLRU of a list that is not empty, and the destructor that follows.
Pop ==
    /\ lru # NULL
    /\ LET second == next[lru] IN
          /\ lru' = second
          /\ mru' = IF second = NULL THEN NULL ELSE mru
          /\ next' = [next EXCEPT ![lru] = NULL]
          /\ prev' = IF second = NULL THEN prev ELSE [prev EXCEPT ![second] = NULL]
    /\ frames' = frames \ {lru}
    /\ UNCHANGED users

Next == \/ \E p \in Pages : \/ Adopt(p)
                            \/ PutShared(p) \/ PutLast(p)
                            \/ TakeShared(p) \/ TakeFirst(p)
        \/ Pop

Spec == Init /\ [][Next]_vars

-----------------------------------------------------------------------------
TypeOK == /\ frames \in SUBSET Pages
          /\ lru \in Pointers /\ mru \in Pointers
          /\ prev \in [Pages -> Pointers]
          /\ next \in [Pages -> Pointers]
          /\ users \in [Pages -> 0..MaxUsers]

\* The pointers from lru to mru and back spell out the sequence s.
Represents(s) ==
    /\ s = << >> => lru = NULL /\ mru = NULL
    /\ s # << >> => lru = s[1] /\ mru = s[Len(s)]
    /\ \A i \in 1..Len(s) :
          /\ next[s[i]] = IF i = Len(s) THEN NULL ELSE s[i + 1]
          /\ prev[s[i]] = IF i = 1 THEN NULL ELSE s[i - 1]

Unfixed == {p \in frames : users[p] = 0}

Queues == {s \in Seq(Pages) : IsInjective(s)}

\* Every order of the unfixed frames (for TLC, which cannot go through Queues).
Orders == SetToSeqs(Unfixed)

(***************************************************************************)
(* The list is well linked: it holds each unfixed frame once, forwards and *)
(* backwards in the same order, and a frame in use has no links (putLRU    *)
(* relies on this: it does not reset them).                                *)
(***************************************************************************)
WellLinked ==
    /\ \E s \in Orders : Represents(s)
    /\ \A p \in frames : users[p] > 0 => prev[p] = NULL /\ next[p] = NULL

(***************************************************************************)
(* The list implements the queue: frames come out of popLRU in the order   *)
(* in which their last users gave them back.                               *)
(***************************************************************************)
Queue == CHOOSE s \in Orders : Represents(s)

LRUQueue == INSTANCE LRUQueue WITH lru <- Queue

ImplementsLRUQueue == LRUQueue!LRUSpec
=============================================================================
