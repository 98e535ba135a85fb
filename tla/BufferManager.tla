--------------------------- MODULE BufferManager ----------------------------
(***************************************************************************)
(* The buffer manager: fixPage, unfixPage, the destructor and the map of   *)
(* frames, run by concurrent threads.  A step ends where another thread    *)
(* can see the difference: at every acquisition and release of the map's   *)
(* latch or of a frame's lock, at every call of the LRU list (atomic under *)
(* its mutex) and at every unprotected access of getData.                  *)
(*                                                                         *)
(* A thread here is one session fixPage ... unfixPage at a time.  What     *)
(* clients that hold several pages do to each other is the matter of the   *)
(* modules that model those clients.                                       *)
(***************************************************************************)
EXTENDS BufferFrame, Naturals, FiniteSets

CONSTANTS MaxSize,    \* pages the manager may keep in memory
          InitValue,  \* what the segment files hold at the start
          Segments,   \* the segments (= files)
          SegmentOf,  \* [Pages -> Segments]: the upper 16 bits of a page ID
          Modes,      \* [Threads -> SUBSET AllModes]: how a thread fixes pages
          Flushes,    \* BOOLEAN: clients call flush on a page they hold
          JoinFirst   \* BOOLEAN: threads are joined before the destructor runs

AllModes == {"shared", "exclusive"}

ASSUME MaxSizeAssumption == MaxSize \in Nat \ {0}
ASSUME ThreadsAssumption == IsFiniteSet(Threads) /\ None \notin Threads
ASSUME PagesAssumption == IsFiniteSet(Pages) /\ None \notin Pages
ASSUME InitValueAssumption == InitValue \in Values
ASSUME SegmentsAssumption == SegmentOf \in [Pages -> Segments]
ASSUME ModesAssumption == Modes \in [Threads -> SUBSET AllModes]
ASSUME FaultsAssumption == Faults \subseteq FaultKinds

VARIABLES
    alive,     \* BOOLEAN: the manager is constructed and not destructed
    latch,     \* LockRecords(Threads): the read/write lock of the map
    frames,    \* SUBSET Pages: the keys of the map
    lru,       \* Seq(Pages): the replacement queue (LRUQueue)
    users,     \* [Pages -> Nat]: currentUsers of the page's frame
    segments,  \* SUBSET Segments: the segments with an open descriptor
    pc,        \* [Threads -> Labels]: where the thread is
    page,      \* [Threads -> Pages \cup {None}]: the page it fixes
    mode,      \* [Threads -> AllModes]: exclusively or shared
    victim,    \* [Threads -> Pages \cup {None}]: the frame it throws out
    ptr        \* [Threads -> Buffers \cup {None}]: what getData returned

\* A thread uses a frame at most once at a time.
INSTANCE LRUQueue WITH MaxUsers <- Cardinality(Threads)

mapVars == <<alive, latch, frames, segments>>
lruVars == <<lru, users>>
callVars == <<page, mode, victim, ptr>>
vars == <<mapVars, lruVars, frameVars, pc, callVars>>

FixLabels == {"rdlock", "find", "wrlock", "refind", "erase", "open", "emplace",
              "unlatch", "lock", "failed"}
HoldLabels == {"fixed", "malloc", "pread", "clean", "return", "ready",
               "modified", "flushed"}
UnfixLabels == {"unlock", "put"}
Labels == {"idle"} \cup FixLabels \cup HoldLabels \cup UnfixLabels

At(t, label) == pc[t] = label
Goto(t, label) == pc' = [pc EXCEPT ![t] = label]

Init == /\ alive = TRUE
        /\ latch = Free
        /\ frames = {}
        /\ LRUInit
        /\ segments = {}
        /\ FrameInit(InitValue)
        /\ pc = [t \in Threads |-> "idle"]
        /\ page = [t \in Threads |-> None]
        /\ mode = [t \in Threads |-> "shared"]
        /\ victim = [t \in Threads |-> None]
        /\ ptr = [t \in Threads |-> None]

-----------------------------------------------------------------------------
(***************************************************************************)
(* fixPage                                                                 *)
(***************************************************************************)
FixPage(t, p, m) ==
    /\ At(t, "idle") /\ alive
    /\ page' = [page EXCEPT ![t] = p]
    /\ mode' = [mode EXCEPT ![t] = m]
    /\ Goto(t, "rdlock")
    /\ UNCHANGED <<mapVars, lruVars, frameVars, victim, ptr>>

RdLatch(t) ==
    /\ At(t, "rdlock")
    /\ CanRdLock(latch, t)
    /\ latch' = RdLocked(latch, t)
    /\ Goto(t, "find")
    /\ UNCHANGED <<alive, frames, segments, lruVars, frameVars, callVars>>

\* The frame is in the map: one user more, and out of the LRU list.
FindHit(t) ==
    /\ At(t, "find")
    /\ page[t] \in frames
    /\ Take(page[t])
    /\ Goto(t, "unlatch")
    /\ UNCHANGED <<mapVars, frameVars, callVars>>

\* It is not: the latch is given up before it is asked for again.
FindMiss(t) ==
    /\ At(t, "find")
    /\ page[t] \notin frames
    /\ latch' = Unlocked(latch, t)
    /\ Goto(t, "wrlock")
    /\ UNCHANGED <<alive, frames, segments, lruVars, frameVars, callVars>>

\* Faulty variant: the read latch is upgraded without waiting for it.
WrLatch_NoWait(t) ==
    /\ At(t, "wrlock")
    /\ latch' = WrLocked(latch, t)
    /\ Goto(t, "refind")
    /\ UNCHANGED <<alive, frames, segments, lruVars, frameVars, callVars>>

WrLatch(t) ==
    /\ At(t, "wrlock")
    /\ CanWrLock(latch, t)
    /\ latch' = WrLocked(latch, t)
    /\ Goto(t, "refind")
    /\ UNCHANGED <<alive, frames, segments, lruVars, frameVars, callVars>>

\* Another thread has buffered the page in the meantime.
RefindHit(t) ==
    /\ At(t, "refind")
    /\ page[t] \in frames
    /\ Take(page[t])
    /\ Goto(t, "unlatch")
    /\ UNCHANGED <<mapVars, frameVars, callVars>>

\* Faulty variants: off by one.
HasRoom_OneMore == Cardinality(frames) <= MaxSize
HasRoom_OneLess == Cardinality(frames) + 1 < MaxSize
HasRoom == Cardinality(frames) < MaxSize

RefindMiss(t) ==
    /\ At(t, "refind")
    /\ page[t] \notin frames
    /\ HasRoom
    /\ Goto(t, "open")
    /\ UNCHANGED <<mapVars, lruVars, frameVars, callVars>>

Evict(t) ==
    /\ At(t, "refind")
    /\ page[t] \notin frames
    /\ ~HasRoom
    /\ Pop
    /\ victim' = [victim EXCEPT ![t] = Head(lru)]
    /\ Goto(t, "erase")
    /\ UNCHANGED <<mapVars, frameVars, page, mode, ptr>>

\* Every frame is fixed: the exception leaves fixPage with the latch held.
NoFreeFrame(t) ==
    /\ At(t, "refind")
    /\ page[t] \notin frames
    /\ ~HasRoom
    /\ lru = << >>
    /\ Goto(t, "failed")
    /\ UNCHANGED <<mapVars, lruVars, frameVars, callVars>>

Erase(t) ==
    /\ At(t, "erase")
    /\ frames' = frames \ {victim[t]}
    /\ DestructFrames({victim[t]})
    /\ victim' = [victim EXCEPT ![t] = None]
    /\ Goto(t, "open")
    /\ UNCHANGED <<alive, latch, segments, lruVars, page, mode, ptr>>

\* getSegmentFd: the descriptor is cached, or the file opened.
OpenSegment(t) ==
    /\ At(t, "open")
    /\ segments' = segments \cup {SegmentOf[page[t]]}
    /\ Goto(t, "emplace")
    /\ UNCHANGED <<alive, latch, frames, lruVars, frameVars, callVars>>

\* open failed: again the exception leaves fixPage with the latch held.
OpenFails(t) ==
    /\ At(t, "open")
    /\ "open" \in Faults
    /\ SegmentOf[page[t]] \notin segments
    /\ Goto(t, "failed")
    /\ UNCHANGED <<mapVars, lruVars, frameVars, callVars>>

Emplace(t) ==
    /\ At(t, "emplace")
    /\ frames' = frames \cup {page[t]}
    /\ ConstructFrame(page[t])
    /\ Adopt(page[t])
    /\ Goto(t, "unlatch")
    /\ UNCHANGED <<alive, latch, segments, callVars>>

\* Faulty variant: the latch is kept.
Unlatch_Kept(t) ==
    /\ At(t, "unlatch")
    /\ Goto(t, "lock")
    /\ UNCHANGED <<mapVars, lruVars, frameVars, callVars>>

Unlatch(t) ==
    /\ At(t, "unlatch")
    /\ latch' = Unlocked(latch, t)
    /\ Goto(t, "lock")
    /\ UNCHANGED <<alive, frames, segments, lruVars, frameVars, callVars>>

Lock(t) ==
    /\ At(t, "lock")
    /\ LockFrame(page[t], t, mode[t])
    /\ Goto(t, "fixed")
    /\ UNCHANGED <<mapVars, lruVars, callVars>>

\* The caller catches the exception of fixPage and goes on.
Catch(t) ==
    /\ At(t, "failed")
    /\ page' = [page EXCEPT ![t] = None]
    /\ mode' = [mode EXCEPT ![t] = "shared"]
    /\ Goto(t, "idle")
    /\ UNCHANGED <<mapVars, lruVars, frameVars, victim, ptr>>

-----------------------------------------------------------------------------
(***************************************************************************)
(* What the holder of a frame does with it: getData, loads and stores, and *)
(* perhaps flush.                                                          *)
(***************************************************************************)
GetData(t) ==
    /\ At(t, "fixed")
    /\ Goto(t, IF state[page[t]] = "New" THEN "malloc" ELSE "return")
    /\ UNCHANGED <<mapVars, lruVars, frameVars, callVars>>

Malloc(t) ==
    /\ At(t, "malloc")
    /\ MallocData(page[t], t)
    /\ Goto(t, "pread")
    /\ UNCHANGED <<mapVars, lruVars, callVars>>

PRead(t) ==
    /\ At(t, "pread")
    /\ PReadData(page[t], t)
    /\ Goto(t, "clean")
    /\ UNCHANGED <<mapVars, lruVars, callVars>>

SetClean(t) ==
    /\ At(t, "clean")
    /\ MarkClean(page[t])
    /\ Goto(t, "return")
    /\ UNCHANGED <<mapVars, lruVars, callVars>>

ReturnData(t) ==
    /\ At(t, "return")
    /\ ptr' = [ptr EXCEPT ![t] = data[page[t]]]
    /\ Goto(t, "ready")
    /\ UNCHANGED <<mapVars, lruVars, frameVars, page, mode, victim>>

\* Only a thread that fixed the page exclusively changes it.
WritePage(t, v) ==
    /\ At(t, "ready")
    /\ mode[t] = "exclusive"
    /\ WriteBuffer(page[t], ptr[t], v)
    /\ Goto(t, "modified")
    /\ UNCHANGED <<mapVars, lruVars, callVars>>

\* flush by the holder, after a change and before unfixPage says so
\* (SchemaSegment::writeToDisk).
Flush(t) ==
    /\ Flushes
    /\ At(t, "modified")
    /\ FlushFrame(page[t])
    /\ Goto(t, "flushed")
    /\ UNCHANGED <<mapVars, lruVars, callVars>>

-----------------------------------------------------------------------------
(***************************************************************************)
(* unfixPage(frame, isDirty), with isDirty set by a thread that has        *)
(* changed the page.                                                       *)
(***************************************************************************)
UnfixDirty(t) ==
    /\ pc[t] \in {"modified", "flushed"}
    /\ MarkDirty(page[t])
    /\ ptr' = [ptr EXCEPT ![t] = None]
    /\ Goto(t, "unlock")
    /\ UNCHANGED <<mapVars, lruVars, page, mode, victim>>

UnfixClean(t) ==
    /\ At(t, "ready")
    /\ ptr' = [ptr EXCEPT ![t] = None]
    /\ Goto(t, "unlock")
    /\ UNCHANGED <<mapVars, lruVars, frameVars, page, mode, victim>>

Unlock(t) ==
    /\ At(t, "unlock")
    /\ UnlockFrame(page[t], t)
    /\ Goto(t, "put")
    /\ UNCHANGED <<mapVars, lruVars, callVars>>

PutLRU(t) ==
    /\ At(t, "put")
    /\ Put(page[t])
    /\ page' = [page EXCEPT ![t] = None]
    /\ mode' = [mode EXCEPT ![t] = "shared"]
    /\ Goto(t, "idle")
    /\ UNCHANGED <<mapVars, frameVars, victim, ptr>>

-----------------------------------------------------------------------------
(***************************************************************************)
(* The destructor takes the latch, flushes and frees every frame and       *)
(* closes the files.  It runs in a thread that is not in Threads.  A new   *)
(* manager on the same files may follow.                                   *)
(***************************************************************************)
Joined == \A t \in Threads : At(t, "idle")

Destroy ==
    /\ alive
    /\ JoinFirst => Joined
    /\ latch = Free
    /\ alive' = FALSE
    /\ DestructFrames(frames)
    /\ frames' = {}
    /\ segments' = {}
    /\ lru' = << >>
    /\ users' = [p \in Pages |-> 0]
    /\ UNCHANGED <<latch, pc, callVars>>

Create ==
    /\ ~alive /\ Joined
    /\ alive' = TRUE
    /\ UNCHANGED <<latch, frames, segments, lruVars, frameVars, pc, callVars>>

-----------------------------------------------------------------------------
\* The steps a thread takes by itself once it has called fixPage; after the
\* destructor has run under its feet it takes none.
Step(t) ==
    /\ alive
    /\ \/ RdLatch(t) \/ FindHit(t) \/ FindMiss(t) \/ WrLatch(t)
       \/ RefindHit(t) \/ RefindMiss(t) \/ Evict(t) \/ NoFreeFrame(t)
       \/ Erase(t) \/ OpenSegment(t) \/ OpenFails(t) \/ Emplace(t)
       \/ Unlatch(t) \/ Lock(t) \/ Catch(t)
       \/ GetData(t) \/ Malloc(t) \/ PRead(t) \/ SetClean(t) \/ ReturnData(t)
       \/ \E v \in Values : WritePage(t, v)
       \/ Flush(t)
       \/ UnfixDirty(t) \/ UnfixClean(t) \/ Unlock(t) \/ PutLRU(t)

Next == \/ \E t \in Threads : \/ \E p \in Pages, m \in Modes[t] : FixPage(t, p, m)
                              \/ Step(t)
        \/ Destroy
        \/ Create

Spec == Init /\ [][Next]_vars

\* The scheduler runs every thread that can run, and a client gives back
\* every page it has fixed.  Nothing more is assumed: the locks may be
\* granted in any order, and nobody has to call fixPage.
FairSpec == Spec /\ \A t \in Threads : WF_vars(Step(t))

-----------------------------------------------------------------------------
(***************************************************************************)
(* Properties                                                              *)
(***************************************************************************)
TypeOK == /\ alive \in BOOLEAN
          /\ latch \in LockRecords(Threads)
          /\ frames \in SUBSET Pages
          /\ lru \in Seq(Pages)
          /\ users \in [Pages -> Nat]
          /\ segments \in SUBSET Segments
          /\ FrameTypeOK
          /\ pc \in [Threads -> Labels]
          /\ page \in [Threads -> Pages \cup {None}]
          /\ mode \in [Threads -> AllModes]
          /\ victim \in [Threads -> Pages \cup {None}]
          /\ ptr \in [Threads -> Buffers \cup {None}]

\* From the return of removeLRU (or the count of a new frame) to that of
\* putLRU a thread keeps a pointer to the frame.
Referencing == {"unlatch", "lock"} \cup HoldLabels \cup UnfixLabels

References(p) == {t \in Threads : pc[t] \in Referencing /\ page[t] = p}

(***************************************************************************)
(* A frame somebody has a pointer to is never thrown out: between unlock() *)
(* at the end of fixPage and bf->lock(), and between frame.unlock() and    *)
(* putLRU() in unfixPage, only currentUsers stands in the way of popLRU.   *)
(***************************************************************************)
NoDanglingFrame == alive => \A t \in Threads :
                               pc[t] \in Referencing => page[t] \in frames

(***************************************************************************)
(* currentUsers, counted under lruMutex, agrees with what the threads do,  *)
(* and the replacement queue holds every frame that has no user and is not *)
(* being thrown out, once, and no other frame.                             *)
(***************************************************************************)
UsersCounted == \A p \in Pages : users[p] = Cardinality(References(p))

QueueHoldsUnfixed ==
    /\ \A p \in Pages : p \in Queued <=> /\ p \in frames
                                         /\ users[p] = 0
                                         /\ \A t \in Threads : victim[t] # p
    /\ IsInjective(lru)

PinAccounting == alive => UsersCounted /\ QueueHoldsUnfixed

\* The memory bound given to the constructor holds, whoever misses at once.
BoundedFrames == Cardinality(frames) <= MaxSize

(***************************************************************************)
(* With room for a page per thread (the sizing buffer_test.cpp asks for)   *)
(* fixPage always finds a frame to throw out: the queue is never empty     *)
(* when every place is taken.                                              *)
(***************************************************************************)
NeverFails == \A t \in Threads : ~At(t, "failed")

(***************************************************************************)
(* The page as it stands: what the last exclusive holder left, in memory   *)
(* when the frame is dirty or being changed, in the file when it is not.   *)
(***************************************************************************)
Changing(p) == \E t \in Threads : pc[t] \in {"modified", "flushed"} /\ page[t] = p

Store == [p \in Pages |-> IF Dirty(p) \/ Changing(p) THEN buf[p][data[p]]
                                                     ELSE disk[p]]

(***************************************************************************)
(* "returns the actual data contained on the page" (BufferFrame.hpp): the  *)
(* memory getData hands out holds the page as it stands.                   *)
(***************************************************************************)
ReadsActualData == alive => \A t \in Threads :
                      At(t, "ready") => buf[page[t]][ptr[t]] = Store[page[t]]

(***************************************************************************)
(* "If dirty, the page manager must write it back to disk"                 *)
(* (BufferManager.hpp): a frame stops being dirty only when the file has   *)
(* what its buffer has.                                                    *)
(***************************************************************************)
DirtyWrittenBack == [][\A p \in Pages : Dirty(p) /\ ~Dirty(p)'
                                           => disk'[p] = buf[p][data[p]]]_vars

(***************************************************************************)
(* "... must not write it back before unfixPage is called"                 *)
(* (BufferManager.hpp): no eviction and no destructor writes a page that   *)
(* somebody is changing; only a flush by that holder does.                 *)
(***************************************************************************)
NoEarlyWriteBack ==
    [][\A p \in Pages : Changing(p) => \/ disk'[p] = disk[p]
                                       \/ \E t \in Threads : page[t] = p /\ Flush(t)]_vars

(***************************************************************************)
(* The manager implements the page store: whatever is evicted, reloaded,   *)
(* written back or restarted, a page keeps its content until an exclusive  *)
(* holder changes it, and locks exclude as read/write locks do.            *)
(***************************************************************************)
PageStore == INSTANCE PageStore WITH
                 store <- Store,
                 readers <- [p \in Pages |-> rwlock[p].readers],
                 writers <- [p \in Pages |-> rwlock[p].writers]

ImplementsPageStore == PageStore!StoreSpec

(***************************************************************************)
(* The manager as a whole never gets stuck: for ever again some call of    *)
(* fixPage comes to its unfixPage (or to an exception), unless all threads *)
(* are through.  A single thread may starve: the locks prefer readers.     *)
(***************************************************************************)
Finish == \E t \in Threads : ~At(t, "idle") /\ pc'[t] = "idle"

Progress == []<>Joined \/ []<><<Finish>>_vars

-----------------------------------------------------------------------------
(***************************************************************************)
(* The inductive invariant behind NoDanglingFrame, PinAccounting,          *)
(* BoundedFrames and NeverFails.                                           *)
(***************************************************************************)

\* The latch excludes, and who is inside the map holds it: for reading to
\* take a frame that is there, for writing to change the map, and still for
\* writing when an exception leaves fixPage.
MapWriters == {"refind", "erase", "open", "emplace", "failed"}

LatchInv ==
    /\ Exclusive(latch)
    /\ \A t \in Threads : /\ pc[t] \in {"find", "unlatch"} => Holds(latch, t)
                          /\ pc[t] \in MapWriters => t \in latch.writers

\* What a call of fixPage has found out stays true while it holds the latch.
CallInv ==
    \A t \in Threads :
        /\ ~At(t, "idle") => page[t] \in Pages
        /\ ~At(t, "erase") => victim[t] = None
        /\ At(t, "erase") => victim[t] \in frames /\ users[victim[t]] = 0
        /\ pc[t] \in {"erase", "open", "emplace"} => page[t] \notin frames

RoomInv == /\ BoundedFrames
           /\ \A t \in Threads : pc[t] \in {"open", "emplace"} => HasRoom

GoneInv == ~alive => /\ latch = Free
                     /\ frames = {}
                     /\ lru = << >>
                     /\ users = [p \in Pages |-> 0]

\* A frame that has been loaded, and one that a thread is at work on after
\* its malloc, has a buffer.
DataInv ==
    /\ \A p \in Pages : state[p] # "New" => data[p] # None
    /\ alive => \A t \in Threads :
                   pc[t] \in HoldLabels \ {"fixed", "malloc"} => data[page[t]] # None

PinInv == /\ LatchInv
          /\ CallInv
          /\ RoomInv
          /\ GoneInv
          /\ DataInv
          /\ NoDanglingFrame
          /\ PinAccounting

(***************************************************************************)
(* What ImplementsPageStore rests on besides, when the threads are joined  *)
(* before the destructor runs.                                             *)
(***************************************************************************)

\* A thread has the frame's lock, in the mode it asked for, from the return
\* of lock() to that of unlock(), and a lock has no other holder.
Holding == HoldLabels \cup {"unlock"}

HoldsIn(p, t, m) == pc[t] \in Holding /\ page[t] = p /\ mode[t] = m

HolderInv ==
    \A p \in Pages :
        /\ Exclusive(rwlock[p])
        /\ \A t \in Threads :
              /\ t \in rwlock[p].writers <=> HoldsIn(p, t, "exclusive")
              /\ t \in rwlock[p].readers <=> HoldsIn(p, t, "shared")

\* Nobody loads a dirty frame again, and an exclusive holder changes the
\* buffer the frame points to.
LoadInv ==
    \A t \in Threads :
        /\ pc[t] \in {"malloc", "pread", "clean"} => ~Dirty(page[t])
        /\ pc[t] \in {"ready", "modified", "flushed"} /\ mode[t] = "exclusive"
              => ptr[t] = data[page[t]]
        /\ pc[t] \in {"modified", "flushed"} => mode[t] = "exclusive"

\* A page without a frame has nothing to write back, and nobody is on the
\* way when the manager is gone.
UnusedInv == /\ \A p \in Pages \ frames : state[p] = "New"
             /\ alive \/ Joined

(***************************************************************************)
(* Behind ReadsActualData, which needs more: no two threads fix pages      *)
(* shared, so that a page is loaded by one thread at a time.               *)
(***************************************************************************)
ModeInv == \A t \in Threads : ~At(t, "idle") => mode[t] \in Modes[t]

CleanPage(p) == state[p] = "Clean" /\ ~Changing(p) => buf[p][data[p]] = disk[p]

Loading(t) ==
    /\ pc[t] \in {"malloc", "pread", "clean"} => state[page[t]] = "New"
    /\ At(t, "pread") => data[page[t]] = t
    /\ At(t, "clean") => buf[page[t]][data[page[t]]] = disk[page[t]]
    /\ pc[t] \in {"return", "ready"} => state[page[t]] # "New"
    /\ At(t, "ready") => ptr[t] = data[page[t]]

LoadedInv == (\A p \in Pages : CleanPage(p)) /\ (\A t \in Threads : Loading(t))

StoreInv == /\ PinInv
            /\ HolderInv /\ LoadInv /\ UnusedInv
            /\ ModeInv /\ LoadedInv
=============================================================================
