----------------------------- MODULE PageStore ------------------------------
(***************************************************************************)
(* What the buffer manager promises its clients: a store of pages under    *)
(* read/write locks.  A client holds a page shared or exclusively, and     *)
(* only an exclusive holder changes it.  Frames, the replacement of        *)
(* frames, the files and restarts are not to be seen.                      *)
(***************************************************************************)
CONSTANTS Threads, Pages, Values, InitValue

VARIABLES store,    \* [Pages -> Values]: the page as its next reader sees it
          readers,  \* [Pages -> SUBSET Threads]
          writers   \* [Pages -> SUBSET Threads]

storeVars == <<store, readers, writers>>

StoreInit == /\ store = [p \in Pages |-> InitValue]
             /\ readers = [p \in Pages |-> {}]
             /\ writers = [p \in Pages |-> {}]

AcquireShared(t, p) == /\ writers[p] = {}
                       /\ readers' = [readers EXCEPT ![p] = @ \cup {t}]
                       /\ UNCHANGED <<store, writers>>

AcquireExclusive(t, p) == /\ writers[p] = {} /\ readers[p] = {}
                          /\ writers' = [writers EXCEPT ![p] = {t}]
                          /\ UNCHANGED <<store, readers>>

Write(t, p, v) == /\ t \in writers[p]
                  /\ store' = [store EXCEPT ![p] = v]
                  /\ UNCHANGED <<readers, writers>>

Release(t, p) == /\ t \in readers[p] \cup writers[p]
                 /\ readers' = [readers EXCEPT ![p] = @ \ {t}]
                 /\ writers' = [writers EXCEPT ![p] = @ \ {t}]
                 /\ UNCHANGED store

StoreNext == \E t \in Threads, p \in Pages :
                \/ AcquireShared(t, p)
                \/ AcquireExclusive(t, p)
                \/ \E v \in Values : Write(t, p, v)
                \/ Release(t, p)

StoreSpec == StoreInit /\ [][StoreNext]_storeVars
=============================================================================
