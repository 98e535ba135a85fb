---------------------------- MODULE BufferFrame -----------------------------
(***************************************************************************)
(* The frames of the buffer manager: one page in memory, read from its     *)
(* segment file the first time somebody asks for the data and written back *)
(* when it is dirty and flushed.  An operator here is a method of          *)
(* BufferFrame, or the part of one that runs without another thread being  *)
(* able to see a half-done result; who may call it when is the business of *)
(* BufferManager.                                                          *)
(*                                                                         *)
(* getData and loadData read and write `state' and `data' with no          *)
(* synchronisation beyond the frame's lock, and threads that share the     *)
(* lock run them at the same time.  They are therefore split wherever      *)
(* another thread can get in between.                                      *)
(***************************************************************************)
EXTENDS RWLock

CONSTANTS Threads,  \* the threads that use the buffer manager
          Pages,    \* page IDs: segment number and page number
          Values,   \* the contents a page can have
          Garbage,  \* the content of memory nobody has written
          None,     \* NULL
          Faults    \* the system calls that may fail, out of FaultKinds

VARIABLES
    state,   \* [Pages -> State]: state of the page's frame
    data,    \* [Pages -> Buffers \cup {None}]: the frame's data pointer
    buf,     \* [Pages -> [Buffers -> Contents]]: the buffers, see below
    rwlock,  \* [Pages -> LockRecords(Threads)]: the frame's lock
    disk     \* [Pages -> Contents]: the segment files

frameVars == <<state, data, buf, rwlock, disk>>

State == {"New", "Clean", "Dirty"}
FaultKinds == {"open", "pwrite"}
Contents == Values \cup {Garbage}

\* A buffer is named by the thread that allocated it in loadData: a thread
\* loads a frame at most once, as the frame never becomes New again.
Buffers == Threads

FrameTypeOK == /\ state \in [Pages -> State]
               /\ data \in [Pages -> Buffers \cup {None}]
               /\ buf \in [Pages -> [Buffers -> Contents]]
               /\ rwlock \in [Pages -> LockRecords(Threads)]
               /\ disk \in [Pages -> Contents]

\* No frame exists yet; a page that has none is kept in this state.
FrameInit(InitValue) == /\ state = [p \in Pages |-> "New"]
                        /\ data = [p \in Pages |-> None]
                        /\ buf = [p \in Pages |-> [b \in Buffers |-> Garbage]]
                        /\ rwlock = [p \in Pages |-> Free]
                        /\ disk = [p \in Pages |-> InitValue]

-----------------------------------------------------------------------------
(***************************************************************************)
(* writeData: the buffer goes to the file and the state becomes Clean.     *)
(* The result of pwrite is not looked at, so when the call fails the file  *)
(* stays as it was and the state becomes Clean all the same.  W is the set *)
(* of pages whose write fails.                                             *)
(***************************************************************************)
Dirty(p) == state[p] = "Dirty"

WriteFailures(D) == IF "pwrite" \in Faults THEN SUBSET D ELSE {{}}

Written(D, W) == [p \in Pages |-> IF p \in D \ W THEN buf[p][data[p]]
                                                 ELSE disk[p]]

\* flush: only a dirty frame is written.
FlushFrame(p) ==
    /\ \E W \in WriteFailures({q \in {p} : Dirty(q)}) :
          disk' = Written({q \in {p} : Dirty(q)}, W)
    /\ state' = [state EXCEPT ![p] = IF Dirty(p) THEN "Clean" ELSE @]
    /\ UNCHANGED <<data, buf, rwlock>>

\* Faulty variant: the frames are freed without a flush.
DestructFrames_NoFlush(P) ==
    /\ state' = [p \in Pages |-> IF p \in P THEN "New" ELSE state[p]]
    /\ data' = [p \in Pages |-> IF p \in P THEN None ELSE data[p]]
    /\ buf' = [p \in Pages |-> IF p \in P THEN [b \in Buffers |-> Garbage]
                                          ELSE buf[p]]
    /\ rwlock' = [p \in Pages |-> IF p \in P THEN Free ELSE rwlock[p]]
    /\ UNCHANGED disk

\* The destructors of the frames in P: each flushes, then frees its buffer.
DestructFrames(P) ==
    /\ \E W \in WriteFailures({p \in P : Dirty(p)}) :
          disk' = Written({p \in P : Dirty(p)}, W)
    /\ state' = [p \in Pages |-> IF p \in P THEN "New" ELSE state[p]]
    /\ data' = [p \in Pages |-> IF p \in P THEN None ELSE data[p]]
    /\ buf' = [p \in Pages |-> IF p \in P THEN [b \in Buffers |-> Garbage]
                                          ELSE buf[p]]
    /\ rwlock' = [p \in Pages |-> IF p \in P THEN Free ELSE rwlock[p]]

\* The constructor.
ConstructFrame(p) ==
    /\ state' = [state EXCEPT ![p] = "New"]
    /\ data' = [data EXCEPT ![p] = None]
    /\ rwlock' = [rwlock EXCEPT ![p] = Free]
    /\ UNCHANGED <<buf, disk>>

-----------------------------------------------------------------------------
CanLockFrame(p, t, mode) == IF mode = "exclusive" THEN CanWrLock(rwlock[p], t)
                                                  ELSE CanRdLock(rwlock[p], t)

\* Faulty variant: the lock is always taken shared.
LockFrame_Shared(p, t, mode) ==
    /\ CanRdLock(rwlock[p], t)
    /\ rwlock' = [rwlock EXCEPT ![p] = RdLocked(@, t)]
    /\ UNCHANGED <<state, data, buf, disk>>

LockFrame(p, t, mode) ==
    /\ CanLockFrame(p, t, mode)
    /\ rwlock' = [rwlock EXCEPT ![p] = IF mode = "exclusive"
                                       THEN WrLocked(@, t) ELSE RdLocked(@, t)]
    /\ UNCHANGED <<state, data, buf, disk>>

UnlockFrame(p, t) == /\ rwlock' = [rwlock EXCEPT ![p] = Unlocked(@, t)]
                     /\ UNCHANGED <<state, data, buf, disk>>

MarkDirty(p) == /\ state' = [state EXCEPT ![p] = "Dirty"]
                /\ UNCHANGED <<data, buf, rwlock, disk>>

-----------------------------------------------------------------------------
(***************************************************************************)
(* The steps of loadData.  pread is given the pointer `data' holds when    *)
(* the argument is evaluated: the thread's own buffer, or one that another *)
(* thread has stored there meanwhile.                                      *)
(***************************************************************************)
MallocData(p, t) == /\ data' = [data EXCEPT ![p] = t]
                    /\ UNCHANGED <<state, buf, rwlock, disk>>

PReadData(p, t) == /\ \E b \in {t, data[p]} : buf' = [buf EXCEPT ![p][b] = disk[p]]
                   /\ UNCHANGED <<state, data, rwlock, disk>>

MarkClean(p) == /\ state' = [state EXCEPT ![p] = "Clean"]
                /\ UNCHANGED <<data, buf, rwlock, disk>>

\* A client stores into the memory getData gave it.
WriteBuffer(p, b, v) == /\ buf' = [buf EXCEPT ![p][b] = v]
                        /\ UNCHANGED <<state, data, rwlock, disk>>
=============================================================================
