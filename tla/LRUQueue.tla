------------------------------ MODULE LRUQueue ------------------------------
(***************************************************************************)
(* What the LRU replacement list of BufferManager promises: a queue of the *)
(* frames nobody has fixed, oldest first, kept consistent with the user    *)
(* count of every frame.  Each operation is one step because the code      *)
(* holds lruMutex around its whole body.  LRUList models the doubly linked *)
(* list the code keeps and is shown to implement this specification;       *)
(* BufferManager uses this one.                                            *)
(*                                                                         *)
(* A frame is named by the page it buffers: the map of BufferManager has   *)
(* at most one frame per page.                                             *)
(***************************************************************************)
EXTENDS Naturals, Sequences, SequencesExt

CONSTANTS Pages,
          MaxUsers  \* bound on the users of one frame at a time

VARIABLES lru,   \* Seq(Pages): the unfixed frames, least recently used first
          users  \* [Pages -> Nat]: currentUsers of the page's frame

Queued == Range(lru)

Position(p) == CHOOSE i \in 1..Len(lru) : lru[i] = p

\* A frame that is fixed or waits in the queue exists; any other page has
\* no frame (or one that is being thrown out).
Exists(p) == users[p] > 0 \/ p \in Queued

-----------------------------------------------------------------------------
LRUInit == lru = << >> /\ users = [p \in Pages |-> 0]

\* Faulty variant: the new frame is not counted as fixed.
Adopt_NotCounted(p) == UNCHANGED <<lru, users>>

\* The first user of a frame that has just been created (fixPage).
Adopt(p) == /\ users' = [users EXCEPT ![p] = @ + 1]
            /\ UNCHANGED lru

\* Faulty variant: the frame is queued while others use it.
Put_Always(p) == /\ users' = [users EXCEPT ![p] = @ - 1]
                 /\ lru' = Append(lru, p)

\* putLRU: one user less; the last one leaves the frame at the MRU end.
Put(p) == /\ users' = [users EXCEPT ![p] = @ - 1]
          /\ lru' = IF users[p] = 1 THEN Append(lru, p) ELSE lru

\* Faulty variants: the user is not counted; the frame stays in the queue.
Take_NotCounted(p) ==
    /\ lru' = IF users[p] = 0 /\ p \in Queued THEN RemoveAt(lru, Position(p)) ELSE lru
    /\ UNCHANGED users
Take_StaysQueued(p) == /\ users' = [users EXCEPT ![p] = @ + 1]
                       /\ UNCHANGED lru

\* removeLRU: one user more; the first one takes the frame out of the queue.
Take(p) == /\ users' = [users EXCEPT ![p] = @ + 1]
           /\ lru' = IF users[p] = 0 THEN RemoveAt(lru, Position(p)) ELSE lru

\* popLRU: hand out the least recently used frame.
Pop == /\ lru # << >>
       /\ lru' = Tail(lru)
       /\ UNCHANGED users

\* The calls the buffer manager makes, when it makes them.
LRUNext ==
    \/ \E p \in Pages : \/ ~Exists(p) /\ Adopt(p)
                        \/ users[p] > 0 /\ Put(p)
                        \/ Exists(p) /\ users[p] < MaxUsers /\ Take(p)
    \/ Pop

LRUSpec == LRUInit /\ [][LRUNext]_<<lru, users>>
=============================================================================
