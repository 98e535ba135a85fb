------------------------------- MODULE RWLock -------------------------------
(***************************************************************************)
(* The pthread read/write lock, as the code under src/ uses it: the map's  *)
(* latch in BufferManager and the rwlock of each BufferFrame.  A lock is a *)
(* record of the threads that hold it.                                     *)
(*                                                                         *)
(* The code ignores the return values of pthread_rwlock_rdlock and         *)
(* pthread_rwlock_wrlock.  A thread that already holds the lock for        *)
(* writing gets EDEADLK at once and carries on, so for such a thread the   *)
(* call returns and leaves the lock as it is.  A thread that holds it for  *)
(* reading and asks for writing waits for itself.                          *)
(***************************************************************************)

LockRecords(T) == [writers : SUBSET T, readers : SUBSET T]

Free == [writers |-> {}, readers |-> {}]

\* The call by thread t returns (the lock is granted, or t gets EDEADLK).
CanRdLock(l, t) == l.writers \subseteq {t}
CanWrLock(l, t) == l.writers = {t} \/ l = Free

\* The lock after the call of t has returned.
RdLocked(l, t) == IF l.writers = {t} THEN l
                  ELSE [l EXCEPT !.readers = @ \cup {t}]
WrLocked(l, t) == [l EXCEPT !.writers = {t}]
Unlocked(l, t) == [writers |-> l.writers \ {t}, readers |-> l.readers \ {t}]

\* A writer holds the lock alone.
Exclusive(l) == \A t \in l.writers : l.writers = {t} /\ l.readers = {}

Holds(l, t) == t \in l.writers \cup l.readers
=============================================================================
