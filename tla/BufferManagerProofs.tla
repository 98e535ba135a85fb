------------------------ MODULE BufferManagerProofs -------------------------
(***************************************************************************)
(* Proofs about BufferManager, for any number of threads, pages, values    *)
(* and frames: type correctness; that the pin counts and the replacement   *)
(* queue keep every frame in the map that a thread still has a pointer to; *)
(* and what clients see: with the threads joined before the destructor and *)
(* every pwrite successful, the manager implements PageStore.              *)
(***************************************************************************)
EXTENDS BufferManager, DataLemmas, FiniteSetTheorems, TLAPS

IInv == TypeOK /\ PinInv

-----------------------------------------------------------------------------
\* What a call of a read/write lock by thread t does for t and for the others.
LEMMA LockCalls ==
  ASSUME NEW l \in LockRecords(Threads), NEW t \in Threads, Exclusive(l)
  PROVE  /\ CanRdLock(l, t) =>
              /\ RdLocked(l, t) \in LockRecords(Threads)
              /\ Exclusive(RdLocked(l, t))
              /\ Holds(RdLocked(l, t), t)
              /\ RdLocked(l, t).writers = l.writers
              /\ \A u \in Threads \ {t} : Holds(l, u) => Holds(RdLocked(l, t), u)
         /\ CanWrLock(l, t) =>
              /\ WrLocked(l, t) \in LockRecords(Threads)
              /\ Exclusive(WrLocked(l, t))
              /\ t \in WrLocked(l, t).writers
              /\ \A u \in Threads \ {t} : ~Holds(l, u) /\ u \notin l.writers
         /\ /\ Unlocked(l, t) \in LockRecords(Threads)
            /\ Exclusive(Unlocked(l, t))
            /\ \A u \in Threads \ {t} : /\ Holds(l, u) => Holds(Unlocked(l, t), u)
                                        /\ u \in l.writers => u \in Unlocked(l, t).writers
  BY DEF LockRecords, Exclusive, CanRdLock, CanWrLock, RdLocked, WrLocked,
         Unlocked,
         Holds, Free

LEMMA LockTypes ==
  ASSUME NEW l \in LockRecords(Threads), NEW t \in Threads
  PROVE  {RdLocked(l, t), WrLocked(l, t), Unlocked(l, t)} \subseteq LockRecords(Threads)
  BY DEF LockRecords, RdLocked, WrLocked, Unlocked

\* What a flush or a destructor writes is the content of some buffer.
LEMMA WrittenType ==
  ASSUME FrameTypeOK, DataInv, NEW D, \A p \in D : Dirty(p), NEW W
  PROVE  Written(D, W) \in [Pages -> Contents]
<1>1. ASSUME NEW p \in Pages, p \in D PROVE buf[p][data[p]] \in Contents
  BY <1>1 DEF FrameTypeOK, DataInv, Dirty
<1> QED
  BY <1>1 DEF Written, FrameTypeOK

\* Each thread has a pointer to the frame of at most one page; a set of
\* threads is finite.
LEMMA ReferencesFinite ==
  ASSUME NEW p
  PROVE  /\ References(p) \subseteq Threads
         /\ IsFiniteSet(References(p))
         /\ Cardinality(References(p)) \in Nat
         /\ Cardinality(References(p)) = 0 <=> References(p) = {}
  BY ThreadsAssumption, FS_Subset, FS_CardinalityType, FS_EmptySet DEF
     References

(***************************************************************************)
(* A step of a thread that takes or gives back no reference and leaves the *)
(* map, the queue and the user counts alone disturbs neither the counts    *)
(* nor the frames others point to.                                         *)
(***************************************************************************)
LEMMA PinsKept ==
  ASSUME TypeOK, NoDanglingFrame, PinAccounting,
         UNCHANGED <<alive, frames, lru, users, victim>>,
         NEW t \in Threads,
         \A u \in Threads \ {t} : pc'[u] = pc[u] /\ page'[u] = page[u],
         pc'[t] \in Referencing <=> pc[t] \in Referencing,
         pc[t] \in Referencing => page'[t] = page[t]
  PROVE  NoDanglingFrame' /\ PinAccounting'
<1>1. ASSUME NEW p \in Pages PROVE References(p)' = References(p)
  BY DEF References
<1>2. UsersCounted => UsersCounted'
  BY <1>1 DEF UsersCounted
<1>3. QueueHoldsUnfixed => QueueHoldsUnfixed'
  BY DEF QueueHoldsUnfixed, Queued
<1>4. NoDanglingFrame'
  BY DEF NoDanglingFrame
<1> QED
  BY <1>2, <1>3, <1>4 DEF PinAccounting

(***************************************************************************)
(* removeLRU on a frame that is in the map, and the count of a new frame:  *)
(* the thread's reference is counted, and the frame is in the queue no     *)
(* more.                                                                   *)
(***************************************************************************)
LEMMA UserAdded ==
  ASSUME TypeOK, UsersCounted,
         NEW t \in Threads, pc[t] \notin Referencing, page[t] \in Pages,
         NEW l \in Referencing, pc' = [pc EXCEPT ![t] = l], UNCHANGED page,
         users' = [users EXCEPT ![page[t]] = @ + 1]
  PROVE  UsersCounted'
<1> SUFFICES ASSUME NEW p \in Pages
             PROVE  users'[p] = Cardinality(References(p)')
  BY DEF UsersCounted
<1>1. users[p] = Cardinality(References(p)) /\ users[p] \in Nat
  BY DEF UsersCounted, TypeOK
<1>2. CASE p = page[t]
  <2>1. References(p)' = References(p) \cup {t} /\ t \notin References(p)
    BY <1>2 DEF References, TypeOK
  <2>2. Cardinality(References(p)') = Cardinality(References(p)) + 1
    BY <2>1, ReferencesFinite, FS_AddElement
  <2> QED
    BY <1>1, <1>2, <2>2 DEF TypeOK
<1>3. CASE p # page[t]
  <2>1. References(p)' = References(p)
    BY <1>3 DEF References, TypeOK
  <2> QED
    BY <1>1, <1>3, <2>1 DEF TypeOK
<1> QED
  BY <1>2, <1>3

\* putLRU: the thread's reference is gone and no longer counted.
LEMMA UserRemoved ==
  ASSUME TypeOK, UsersCounted,
         NEW t \in Threads, pc[t] \in Referencing, page[t] \in Pages,
         pc' = [pc EXCEPT ![t] = "idle"], page' = [page EXCEPT ![t] = None],
         users' = [users EXCEPT ![page[t]] = @ - 1]
  PROVE  /\ UsersCounted'
         /\ users[page[t]] > 0
<1>0. /\ \A p \in Pages : users[p] = Cardinality(References(p)) /\ users[p] \in Nat
      /\ "idle" \notin Referencing
  BY DEF UsersCounted, TypeOK, Referencing, HoldLabels, UnfixLabels
<1>1. t \in References(page[t])
  BY DEF References
<1>2. users[page[t]] > 0
  BY <1>0, <1>1, ReferencesFinite
<1>3. ASSUME NEW p \in Pages
      PROVE  users'[p] = Cardinality(References(p)')
  <2>1. CASE p = page[t]
    <3>1. References(p)' = References(p) \ {t}
      BY <1>0, <2>1 DEF References, TypeOK
    <3>2. Cardinality(References(p)') = Cardinality(References(p)) - 1
      BY <1>1, <2>1, <3>1, ReferencesFinite, FS_RemoveElement
    <3> QED
      BY <1>0, <2>1, <3>2 DEF TypeOK
  <2>2. CASE p # page[t]
    <3>1. References(p)' = References(p)
      BY <1>0, <2>2 DEF References, TypeOK
    <3> QED
      BY <1>0, <2>2, <3>1 DEF TypeOK
  <2> QED
    BY <2>1, <2>2
<1> QED
  BY <1>2, <1>3 DEF UsersCounted

\* While a thread holds the latch in fixPage and throws nothing out itself,
\* no other thread has a victim in hand.
LEMMA NoVictims ==
  ASSUME TypeOK, LatchInv, CallInv, NEW t \in Threads,
         Holds(latch, t), ~At(t, "erase")
  PROVE  \A u \in Threads : victim[u] = None
<1> SUFFICES ASSUME NEW u \in Threads, At(u, "erase") PROVE FALSE
  BY DEF CallInv
<1>1. latch.writers = {u} /\ latch.readers = {}
  BY DEF LatchInv, MapWriters, At, Exclusive
<1> QED
  BY <1>1 DEF Holds

\* fixPage finds the frame in the map, with or without other users.
LEMMA TakePins ==
  ASSUME TypeOK, PinInv, alive, NEW t \in Threads,
         pc[t] \in {"find", "refind"}, page[t] \in frames,
         Take(page[t]), Goto(t, "unlatch"),
         UNCHANGED <<alive, frames, page, victim>>
  PROVE  /\ NoDanglingFrame' /\ PinAccounting'
         /\ lru' \in Seq(Pages) /\ users' \in [Pages -> Nat]
<1> DEFINE p == page[t]
<1>1. /\ p \in Pages /\ pc[t] \notin Referencing /\ "unlatch" \in Referencing
      /\ UsersCounted /\ QueueHoldsUnfixed /\ NoDanglingFrame
      /\ pc' = [pc EXCEPT ![t] = "unlatch"]
      /\ users' = [users EXCEPT ![p] = @ + 1]
  BY DEF TypeOK, PinInv, PinAccounting, Referencing, HoldLabels, UnfixLabels,
         Goto, Take
<1>2. UsersCounted'
  BY <1>1, UserAdded
<1>3. \A u \in Threads : victim[u] = None
  BY NoVictims DEF PinInv, LatchInv, MapWriters, Holds, At
<1>4. NoDanglingFrame'
  BY <1>1 DEF NoDanglingFrame, TypeOK
<1>5. users' \in [Pages -> Nat] /\ users[p] \in Nat
  BY <1>1 DEF TypeOK
<1>6. QueueHoldsUnfixed' /\ lru' \in Seq(Pages)
  <2>1. CASE users[p] = 0
    <3>1. p \in Queued
      BY <1>1, <1>3, <2>1, PagesAssumption DEF QueueHoldsUnfixed
    <3>2. Position(p) \in 1..Len(lru) /\ lru[Position(p)] = p
      BY <3>1, RangeByIndex DEF Position, Queued, TypeOK
    <3>3. lru' = RemoveAt(lru, Position(p)) /\ lru \in Seq(Pages)
      BY <2>1 DEF Take, TypeOK
    <3>4. /\ lru' \in Seq(Pages) /\ IsInjective(lru')
          /\ Range(lru') = Range(lru) \ {p}
      BY <1>1, <3>2, <3>3, RemoveAtMembers DEF QueueHoldsUnfixed
    <3> QED
      BY <1>1, <1>3, <1>5, <2>1, <3>4 DEF QueueHoldsUnfixed, Queued, TypeOK
  <2>2. CASE users[p] # 0
    <3>1. lru' = lru
      BY <2>2 DEF Take
    <3> QED
      BY <1>1, <1>5, <2>2, <3>1 DEF QueueHoldsUnfixed, Queued, TypeOK
  <2> QED
    BY <2>1, <2>2
<1> QED
  BY <1>2, <1>4, <1>5, <1>6 DEF PinAccounting

\* unfixPage gives the frame back, to the queue if nobody else has it.
LEMMA PutPins ==
  ASSUME TypeOK, PinInv, alive, NEW t \in Threads,
         At(t, "put"), Put(page[t]), Goto(t, "idle"),
         page' = [page EXCEPT ![t] = None],
         UNCHANGED <<alive, frames, victim>>
  PROVE  /\ NoDanglingFrame' /\ PinAccounting'
         /\ lru' \in Seq(Pages) /\ users' \in [Pages -> Nat]
<1> DEFINE p == page[t]
<1>1. /\ pc[t] \in Referencing /\ "idle" \notin Referencing
      /\ p \in Pages /\ p \in frames
      /\ UsersCounted /\ QueueHoldsUnfixed /\ NoDanglingFrame
      /\ pc' = [pc EXCEPT ![t] = "idle"]
      /\ users' = [users EXCEPT ![p] = @ - 1]
  BY DEF PinInv, CallInv, At, PinAccounting, Referencing, HoldLabels,
         UnfixLabels, Goto, Put, NoDanglingFrame
<1>2. UsersCounted' /\ users[p] > 0
  BY <1>1, UserRemoved
<1>3. users' \in [Pages -> Nat] /\ users[p] \in Nat
  BY <1>1, <1>2 DEF TypeOK
<1>4. NoDanglingFrame'
  BY <1>1 DEF NoDanglingFrame, TypeOK
<1>5. \A u \in Threads : victim[u] # p
  BY <1>1, <1>2, PagesAssumption DEF PinInv, CallInv
<1>6. p \notin Queued
  BY <1>1, <1>2 DEF QueueHoldsUnfixed
<1>7. QueueHoldsUnfixed' /\ lru' \in Seq(Pages)
  <2>1. CASE users[p] = 1
    <3>1. /\ lru' \in Seq(Pages) /\ IsInjective(lru')
          /\ Range(lru') = Range(lru) \cup {p}
      BY <1>1, <1>6, <2>1, AppendMembers
         DEF TypeOK, Put, QueueHoldsUnfixed, Queued
    <3> QED
      BY <1>1, <1>3, <1>5, <2>1, <3>1 DEF QueueHoldsUnfixed, Queued, TypeOK
  <2>2. CASE users[p] # 1
    <3>1. lru' = lru
      BY <2>2 DEF Put
    <3> QED
      BY <1>1, <1>2, <1>3, <2>2, <3>1 DEF QueueHoldsUnfixed, Queued, TypeOK
  <2> QED
    BY <2>1, <2>2
<1> QED
  BY <1>2, <1>3, <1>4, <1>7 DEF PinAccounting

-----------------------------------------------------------------------------
(***************************************************************************)
(* One lemma per action: it keeps the invariant.  In each, step 1 is the   *)
(* types, step 2 the pins (the action either leaves them alone, PinsKept,  *)
(* or is one of those that count a user), step 3 the latch, step 4 the     *)
(* calls that are under way, step 5 the buffers.                           *)
(***************************************************************************)
LEMMA FixPageInv ==
  ASSUME IInv, alive, NEW t \in Threads, NEW p \in Pages, NEW m \in Modes[t], FixPage(t, p, m)
  PROVE  IInv'
<1> USE DEF At, Goto
<1>1. TypeOK'
  BY ModesAssumption, SegmentsAssumption
     DEF IInv, TypeOK, FrameTypeOK, PinInv, DataInv, CallInv, FixPage, mapVars,
         lruVars, callVars,
         frameVars, Labels, FixLabels, HoldLabels, UnfixLabels, State,
         Contents, Buffers, AllModes
<1>2. NoDanglingFrame' /\ PinAccounting'
  BY PinsKept
     DEF IInv, PinInv, TypeOK, FixPage, mapVars, lruVars, callVars, Referencing,
         HoldLabels, UnfixLabels
<1>3. LatchInv'
  BY DEF IInv, PinInv, TypeOK, LatchInv, MapWriters, Holds, FixPage, mapVars,
         callVars
<1>4. CallInv' /\ RoomInv' /\ GoneInv'
  BY DEF IInv, PinInv, TypeOK, CallInv, RoomInv, GoneInv, BoundedFrames,
         HasRoom,
         FixPage, mapVars, lruVars, callVars
<1>5. DataInv'
  BY DEF IInv, PinInv, TypeOK, FrameTypeOK, DataInv, NoDanglingFrame,
         Referencing, FixPage, mapVars, callVars,
         frameVars, HoldLabels, UnfixLabels, Buffers
<1> QED
  BY <1>1, <1>2, <1>3, <1>4, <1>5 DEF IInv, PinInv

LEMMA RdLatchInv ==
  ASSUME IInv, alive, NEW t \in Threads, RdLatch(t)
  PROVE  IInv'
<1> USE DEF At, Goto
<1>1. TypeOK'
  BY ModesAssumption, SegmentsAssumption
     DEF IInv, TypeOK, FrameTypeOK, PinInv, DataInv, CallInv, RdLatch,
         RdLocked, CanRdLock, LockRecords, mapVars, lruVars, callVars,
         frameVars, Labels, FixLabels, HoldLabels, UnfixLabels, State,
         Contents, Buffers, AllModes
<1>2. NoDanglingFrame' /\ PinAccounting'
  BY PinsKept
     DEF IInv, PinInv, TypeOK, RdLatch, RdLocked, CanRdLock, LockRecords,
         mapVars, lruVars, callVars, Referencing,
         HoldLabels, UnfixLabels
<1>3. LatchInv'
  <2>1. /\ latch \in LockRecords(Threads) /\ Exclusive(latch)
        /\ CanRdLock(latch, t) /\ latch' = RdLocked(latch, t)
        /\ pc \in [Threads -> Labels] /\ pc' = [pc EXCEPT ![t] = "find"]
    BY DEF IInv, PinInv, TypeOK, LatchInv, RdLatch
  <2>2. /\ Exclusive(latch') /\ Holds(latch', t) /\ latch'.writers = latch.writers
        /\ \A u \in Threads \ {t} : Holds(latch, u) => Holds(latch', u)
    BY <2>1, LockCalls
  <2> QED
    BY <2>1, <2>2 DEF IInv, PinInv, LatchInv, MapWriters
<1>4. CallInv' /\ RoomInv' /\ GoneInv'
  BY DEF IInv, PinInv, TypeOK, CallInv, RoomInv, GoneInv, BoundedFrames,
         HasRoom,
         RdLatch, mapVars, lruVars, callVars
<1>5. DataInv'
  BY DEF IInv, PinInv, TypeOK, FrameTypeOK, DataInv, NoDanglingFrame,
         Referencing, RdLatch, RdLocked, CanRdLock, LockRecords, mapVars,
         callVars,
         frameVars, HoldLabels, UnfixLabels, Buffers
<1> QED
  BY <1>1, <1>2, <1>3, <1>4, <1>5 DEF IInv, PinInv

LEMMA FindMissInv ==
  ASSUME IInv, alive, NEW t \in Threads, FindMiss(t)
  PROVE  IInv'
<1> USE DEF At, Goto
<1>1. TypeOK'
  BY ModesAssumption, SegmentsAssumption
     DEF IInv, TypeOK, FrameTypeOK, PinInv, DataInv, CallInv, FindMiss,
         Unlocked, LockRecords, mapVars, lruVars, callVars,
         frameVars, Labels, FixLabels, HoldLabels, UnfixLabels, State,
         Contents, Buffers, AllModes
<1>2. NoDanglingFrame' /\ PinAccounting'
  BY PinsKept
     DEF IInv, PinInv, TypeOK, FindMiss, Unlocked, LockRecords, mapVars,
         lruVars, callVars, Referencing,
         HoldLabels, UnfixLabels
<1>3. LatchInv'
  <2>1. latch \in LockRecords(Threads) /\ Exclusive(latch)
    BY DEF IInv, PinInv, TypeOK, LatchInv
  <2> QED
    BY <2>1, LockCalls
       DEF IInv, PinInv, TypeOK, LatchInv, MapWriters, FindMiss
<1>4. CallInv' /\ RoomInv' /\ GoneInv'
  BY DEF IInv, PinInv, TypeOK, CallInv, RoomInv, GoneInv, BoundedFrames,
         HasRoom,
         FindMiss, mapVars, lruVars, callVars
<1>5. DataInv'
  BY DEF IInv, PinInv, TypeOK, FrameTypeOK, DataInv, NoDanglingFrame,
         Referencing, FindMiss, Unlocked, LockRecords, mapVars, callVars,
         frameVars, HoldLabels, UnfixLabels, Buffers
<1> QED
  BY <1>1, <1>2, <1>3, <1>4, <1>5 DEF IInv, PinInv

LEMMA WrLatchInv ==
  ASSUME IInv, alive, NEW t \in Threads, WrLatch(t)
  PROVE  IInv'
<1> USE DEF At, Goto
<1>1. TypeOK'
  BY ModesAssumption, SegmentsAssumption
     DEF IInv, TypeOK, FrameTypeOK, PinInv, DataInv, CallInv, WrLatch,
         WrLocked, CanWrLock, LockRecords, Free, mapVars, lruVars, callVars,
         frameVars, Labels, FixLabels, HoldLabels, UnfixLabels, State,
         Contents, Buffers, AllModes
<1>2. NoDanglingFrame' /\ PinAccounting'
  BY PinsKept
     DEF IInv, PinInv, TypeOK, WrLatch, WrLocked, CanWrLock, LockRecords, Free,
         mapVars, lruVars, callVars, Referencing,
         HoldLabels, UnfixLabels
<1>3. LatchInv'
  <2>1. /\ latch \in LockRecords(Threads) /\ Exclusive(latch)
        /\ CanWrLock(latch, t) /\ latch' = WrLocked(latch, t)
        /\ pc \in [Threads -> Labels] /\ pc' = [pc EXCEPT ![t] = "refind"]
    BY DEF IInv, PinInv, TypeOK, LatchInv, WrLatch
  <2>2. /\ Exclusive(latch') /\ t \in latch'.writers
        /\ \A u \in Threads \ {t} : ~Holds(latch, u) /\ u \notin latch.writers
    BY <2>1, LockCalls
  <2> QED
    BY <2>1, <2>2 DEF IInv, PinInv, LatchInv, MapWriters
<1>4. CallInv' /\ RoomInv' /\ GoneInv'
  BY DEF IInv, PinInv, TypeOK, CallInv, RoomInv, GoneInv, BoundedFrames,
         HasRoom,
         WrLatch, mapVars, lruVars, callVars
<1>5. DataInv'
  BY DEF IInv, PinInv, TypeOK, FrameTypeOK, DataInv, NoDanglingFrame,
         Referencing, WrLatch, WrLocked, CanWrLock, LockRecords, Free, mapVars,
         callVars,
         frameVars, HoldLabels, UnfixLabels, Buffers
<1> QED
  BY <1>1, <1>2, <1>3, <1>4, <1>5 DEF IInv, PinInv

LEMMA RefindMissInv ==
  ASSUME IInv, alive, NEW t \in Threads, RefindMiss(t)
  PROVE  IInv'
<1> USE DEF At, Goto
<1>1. TypeOK'
  BY ModesAssumption, SegmentsAssumption
     DEF IInv, TypeOK, FrameTypeOK, PinInv, DataInv, CallInv, RefindMiss,
         mapVars, lruVars, callVars,
         frameVars, Labels, FixLabels, HoldLabels, UnfixLabels, State,
         Contents, Buffers, AllModes
<1>2. NoDanglingFrame' /\ PinAccounting'
  BY PinsKept
     DEF IInv, PinInv, TypeOK, RefindMiss, mapVars, lruVars, callVars,
         Referencing,
         HoldLabels, UnfixLabels
<1>3. LatchInv'
  BY DEF IInv, PinInv, TypeOK, LatchInv, MapWriters, Holds, RefindMiss,
         mapVars, callVars
<1>4. CallInv' /\ RoomInv' /\ GoneInv'
  BY DEF IInv, PinInv, TypeOK, CallInv, RoomInv, GoneInv, BoundedFrames,
         HasRoom,
         RefindMiss, mapVars, lruVars, callVars
<1>5. DataInv'
  BY DEF IInv, PinInv, TypeOK, FrameTypeOK, DataInv, NoDanglingFrame,
         Referencing, RefindMiss, mapVars, callVars,
         frameVars, HoldLabels, UnfixLabels, Buffers
<1> QED
  BY <1>1, <1>2, <1>3, <1>4, <1>5 DEF IInv, PinInv

LEMMA NoFreeFrameInv ==
  ASSUME IInv, alive, NEW t \in Threads, NoFreeFrame(t)
  PROVE  IInv'
<1> USE DEF At, Goto
<1>1. TypeOK'
  BY ModesAssumption, SegmentsAssumption
     DEF IInv, TypeOK, FrameTypeOK, PinInv, DataInv, CallInv, NoFreeFrame,
         mapVars, lruVars, callVars,
         frameVars, Labels, FixLabels, HoldLabels, UnfixLabels, State,
         Contents, Buffers, AllModes
<1>2. NoDanglingFrame' /\ PinAccounting'
  BY PinsKept
     DEF IInv, PinInv, TypeOK, NoFreeFrame, mapVars, lruVars, callVars,
         Referencing,
         HoldLabels, UnfixLabels
<1>3. LatchInv'
  BY DEF IInv, PinInv, TypeOK, LatchInv, MapWriters, Holds, NoFreeFrame,
         mapVars, callVars
<1>4. CallInv' /\ RoomInv' /\ GoneInv'
  BY DEF IInv, PinInv, TypeOK, CallInv, RoomInv, GoneInv, BoundedFrames,
         HasRoom,
         NoFreeFrame, mapVars, lruVars, callVars
<1>5. DataInv'
  BY DEF IInv, PinInv, TypeOK, FrameTypeOK, DataInv, NoDanglingFrame,
         Referencing, NoFreeFrame, mapVars, callVars,
         frameVars, HoldLabels, UnfixLabels, Buffers
<1> QED
  BY <1>1, <1>2, <1>3, <1>4, <1>5 DEF IInv, PinInv

LEMMA OpenSegmentInv ==
  ASSUME IInv, alive, NEW t \in Threads, OpenSegment(t)
  PROVE  IInv'
<1> USE DEF At, Goto
<1>1. TypeOK'
  BY ModesAssumption, SegmentsAssumption
     DEF IInv, TypeOK, FrameTypeOK, PinInv, DataInv, CallInv, OpenSegment,
         mapVars, lruVars, callVars,
         frameVars, Labels, FixLabels, HoldLabels, UnfixLabels, State,
         Contents, Buffers, AllModes
<1>2. NoDanglingFrame' /\ PinAccounting'
  BY PinsKept
     DEF IInv, PinInv, TypeOK, OpenSegment, mapVars, lruVars, callVars,
         Referencing,
         HoldLabels, UnfixLabels
<1>3. LatchInv'
  BY DEF IInv, PinInv, TypeOK, LatchInv, MapWriters, Holds, OpenSegment,
         mapVars, callVars
<1>4. CallInv' /\ RoomInv' /\ GoneInv'
  BY DEF IInv, PinInv, TypeOK, CallInv, RoomInv, GoneInv, BoundedFrames,
         HasRoom,
         OpenSegment, mapVars, lruVars, callVars
<1>5. DataInv'
  BY DEF IInv, PinInv, TypeOK, FrameTypeOK, DataInv, NoDanglingFrame,
         Referencing, OpenSegment, mapVars, callVars,
         frameVars, HoldLabels, UnfixLabels, Buffers
<1> QED
  BY <1>1, <1>2, <1>3, <1>4, <1>5 DEF IInv, PinInv

LEMMA OpenFailsInv ==
  ASSUME IInv, alive, NEW t \in Threads, OpenFails(t)
  PROVE  IInv'
<1> USE DEF At, Goto
<1>1. TypeOK'
  BY ModesAssumption, SegmentsAssumption
     DEF IInv, TypeOK, FrameTypeOK, PinInv, DataInv, CallInv, OpenFails,
         mapVars, lruVars, callVars,
         frameVars, Labels, FixLabels, HoldLabels, UnfixLabels, State,
         Contents, Buffers, AllModes
<1>2. NoDanglingFrame' /\ PinAccounting'
  BY PinsKept
     DEF IInv, PinInv, TypeOK, OpenFails, mapVars, lruVars, callVars,
         Referencing,
         HoldLabels, UnfixLabels
<1>3. LatchInv'
  BY DEF IInv, PinInv, TypeOK, LatchInv, MapWriters, Holds, OpenFails, mapVars,
         callVars
<1>4. CallInv' /\ RoomInv' /\ GoneInv'
  BY DEF IInv, PinInv, TypeOK, CallInv, RoomInv, GoneInv, BoundedFrames,
         HasRoom,
         OpenFails, mapVars, lruVars, callVars
<1>5. DataInv'
  BY DEF IInv, PinInv, TypeOK, FrameTypeOK, DataInv, NoDanglingFrame,
         Referencing, OpenFails, mapVars, callVars,
         frameVars, HoldLabels, UnfixLabels, Buffers
<1> QED
  BY <1>1, <1>2, <1>3, <1>4, <1>5 DEF IInv, PinInv

LEMMA UnlatchInv ==
  ASSUME IInv, alive, NEW t \in Threads, Unlatch(t)
  PROVE  IInv'
<1> USE DEF At, Goto
<1>1. TypeOK'
  BY ModesAssumption, SegmentsAssumption
     DEF IInv, TypeOK, FrameTypeOK, PinInv, DataInv, CallInv, Unlatch,
         Unlocked, LockRecords, mapVars, lruVars, callVars,
         frameVars, Labels, FixLabels, HoldLabels, UnfixLabels, State,
         Contents, Buffers, AllModes
<1>2. NoDanglingFrame' /\ PinAccounting'
  BY PinsKept
     DEF IInv, PinInv, TypeOK, Unlatch, Unlocked, LockRecords, mapVars,
         lruVars, callVars, Referencing,
         HoldLabels, UnfixLabels
<1>3. LatchInv'
  <2>1. latch \in LockRecords(Threads) /\ Exclusive(latch)
    BY DEF IInv, PinInv, TypeOK, LatchInv
  <2> QED
    BY <2>1, LockCalls
       DEF IInv, PinInv, TypeOK, LatchInv, MapWriters, Unlatch
<1>4. CallInv' /\ RoomInv' /\ GoneInv'
  BY DEF IInv, PinInv, TypeOK, CallInv, RoomInv, GoneInv, BoundedFrames,
         HasRoom,
         Unlatch, mapVars, lruVars, callVars
<1>5. DataInv'
  BY DEF IInv, PinInv, TypeOK, FrameTypeOK, DataInv, NoDanglingFrame,
         Referencing, Unlatch, Unlocked, LockRecords, mapVars, callVars,
         frameVars, HoldLabels, UnfixLabels, Buffers
<1> QED
  BY <1>1, <1>2, <1>3, <1>4, <1>5 DEF IInv, PinInv

LEMMA LockInv ==
  ASSUME IInv, alive, NEW t \in Threads, Lock(t)
  PROVE  IInv'
<1> USE DEF At, Goto
<1>1. TypeOK'
  <2>1. rwlock' \in [Pages -> LockRecords(Threads)]
    BY LockTypes DEF IInv, TypeOK, FrameTypeOK, PinInv, CallInv, Lock, LockFrame
  <2> QED
    BY <2>1
       DEF IInv, TypeOK, FrameTypeOK, Lock, LockFrame, mapVars,
           lruVars, callVars, Labels, FixLabels, HoldLabels, UnfixLabels
<1>2. NoDanglingFrame' /\ PinAccounting'
  BY PinsKept
     DEF IInv, PinInv, TypeOK, Lock, LockFrame, WrLocked, RdLocked,
         LockRecords, mapVars, lruVars, callVars, Referencing,
         HoldLabels, UnfixLabels
<1>3. LatchInv'
  BY DEF IInv, PinInv, TypeOK, LatchInv, MapWriters, Holds, Lock, LockFrame,
         WrLocked, RdLocked, LockRecords, mapVars, callVars
<1>4. CallInv' /\ RoomInv' /\ GoneInv'
  BY DEF IInv, PinInv, TypeOK, CallInv, RoomInv, GoneInv, BoundedFrames,
         HasRoom,
         Lock, mapVars, lruVars, callVars
<1>5. DataInv'
  BY DEF IInv, PinInv, TypeOK, FrameTypeOK, DataInv, NoDanglingFrame,
         Referencing, Lock, LockFrame, WrLocked, RdLocked, LockRecords,
         mapVars, callVars,
         frameVars, HoldLabels, UnfixLabels, Buffers
<1> QED
  BY <1>1, <1>2, <1>3, <1>4, <1>5 DEF IInv, PinInv

LEMMA CatchInv ==
  ASSUME IInv, alive, NEW t \in Threads, Catch(t)
  PROVE  IInv'
<1> USE DEF At, Goto
<1>1. TypeOK'
  BY ModesAssumption, SegmentsAssumption
     DEF IInv, TypeOK, FrameTypeOK, PinInv, DataInv, CallInv, Catch, mapVars,
         lruVars, callVars,
         frameVars, Labels, FixLabels, HoldLabels, UnfixLabels, State,
         Contents, Buffers, AllModes
<1>2. NoDanglingFrame' /\ PinAccounting'
  BY PinsKept
     DEF IInv, PinInv, TypeOK, Catch, mapVars, lruVars, callVars, Referencing,
         HoldLabels, UnfixLabels
<1>3. LatchInv'
  BY DEF IInv, PinInv, TypeOK, LatchInv, MapWriters, Holds, Catch, mapVars,
         callVars
<1>4. CallInv' /\ RoomInv' /\ GoneInv'
  BY DEF IInv, PinInv, TypeOK, CallInv, RoomInv, GoneInv, BoundedFrames,
         HasRoom,
         Catch, mapVars, lruVars, callVars
<1>5. DataInv'
  BY DEF IInv, PinInv, TypeOK, FrameTypeOK, DataInv, NoDanglingFrame,
         Referencing, Catch, mapVars, callVars,
         frameVars, HoldLabels, UnfixLabels, Buffers
<1> QED
  BY <1>1, <1>2, <1>3, <1>4, <1>5 DEF IInv, PinInv

LEMMA GetDataInv ==
  ASSUME IInv, alive, NEW t \in Threads, GetData(t)
  PROVE  IInv'
<1> USE DEF At, Goto
<1>1. TypeOK'
  BY ModesAssumption, SegmentsAssumption
     DEF IInv, TypeOK, FrameTypeOK, PinInv, DataInv, CallInv, GetData, mapVars,
         lruVars, callVars,
         frameVars, Labels, FixLabels, HoldLabels, UnfixLabels, State,
         Contents, Buffers, AllModes
<1>2. NoDanglingFrame' /\ PinAccounting'
  BY PinsKept
     DEF IInv, PinInv, TypeOK, GetData, mapVars, lruVars, callVars, Referencing,
         HoldLabels, UnfixLabels
<1>3. LatchInv'
  BY DEF IInv, PinInv, TypeOK, LatchInv, MapWriters, Holds, GetData, mapVars,
         callVars
<1>4. CallInv' /\ RoomInv' /\ GoneInv'
  BY DEF IInv, PinInv, TypeOK, CallInv, RoomInv, GoneInv, BoundedFrames,
         HasRoom,
         GetData, mapVars, lruVars, callVars
<1>5. DataInv'
  BY DEF IInv, PinInv, TypeOK, FrameTypeOK, DataInv, NoDanglingFrame,
         Referencing, GetData, mapVars, callVars,
         frameVars, HoldLabels, UnfixLabels, Buffers
<1> QED
  BY <1>1, <1>2, <1>3, <1>4, <1>5 DEF IInv, PinInv

LEMMA MallocInv ==
  ASSUME IInv, alive, NEW t \in Threads, Malloc(t)
  PROVE  IInv'
<1> USE DEF At, Goto
<1>1. TypeOK'
  BY ModesAssumption, SegmentsAssumption
     DEF IInv, TypeOK, FrameTypeOK, PinInv, DataInv, CallInv, Malloc,
         MallocData, mapVars, lruVars, callVars,
         frameVars, Labels, FixLabels, HoldLabels, UnfixLabels, State,
         Contents, Buffers, AllModes
<1>2. NoDanglingFrame' /\ PinAccounting'
  BY PinsKept
     DEF IInv, PinInv, TypeOK, Malloc, MallocData, mapVars, lruVars, callVars,
         Referencing,
         HoldLabels, UnfixLabels
<1>3. LatchInv'
  BY DEF IInv, PinInv, TypeOK, LatchInv, MapWriters, Holds, Malloc, MallocData,
         mapVars, callVars
<1>4. CallInv' /\ RoomInv' /\ GoneInv'
  BY DEF IInv, PinInv, TypeOK, CallInv, RoomInv, GoneInv, BoundedFrames,
         HasRoom,
         Malloc, mapVars, lruVars, callVars
<1>5. DataInv'
  BY ThreadsAssumption
     DEF IInv, PinInv, TypeOK, FrameTypeOK, DataInv, NoDanglingFrame,
         Referencing, Malloc, MallocData, mapVars, callVars,
         frameVars, HoldLabels, UnfixLabels, Buffers
<1> QED
  BY <1>1, <1>2, <1>3, <1>4, <1>5 DEF IInv, PinInv

LEMMA PReadInv ==
  ASSUME IInv, alive, NEW t \in Threads, PRead(t)
  PROVE  IInv'
<1> USE DEF At, Goto
<1>1. TypeOK'
  <2>1. buf' \in [Pages -> [Buffers -> Contents]]
    <3>1. PICK b \in {t, data[page[t]]} :
             buf' = [buf EXCEPT ![page[t]][b] = disk[page[t]]]
      BY DEF PRead, PReadData
    <3>2. page[t] \in Pages /\ disk[page[t]] \in Contents
      BY DEF IInv, TypeOK, FrameTypeOK, PinInv, CallInv, PRead
    <3> QED
      BY <3>1, <3>2 DEF IInv, TypeOK, FrameTypeOK
  <2> QED
    BY <2>1
       DEF IInv, TypeOK, FrameTypeOK, PRead, PReadData, mapVars, lruVars,
           callVars, Labels, FixLabels, HoldLabels, UnfixLabels
<1>2. NoDanglingFrame' /\ PinAccounting'
  BY PinsKept
     DEF IInv, PinInv, TypeOK, PRead, PReadData, mapVars, lruVars, callVars,
         Referencing,
         HoldLabels, UnfixLabels
<1>3. LatchInv'
  BY DEF IInv, PinInv, TypeOK, LatchInv, MapWriters, Holds, PRead, PReadData,
         mapVars, callVars
<1>4. CallInv' /\ RoomInv' /\ GoneInv'
  BY DEF IInv, PinInv, TypeOK, CallInv, RoomInv, GoneInv, BoundedFrames,
         HasRoom,
         PRead, mapVars, lruVars, callVars
<1>5. DataInv'
  BY DEF IInv, PinInv, TypeOK, FrameTypeOK, DataInv, NoDanglingFrame,
         Referencing, PRead, PReadData, mapVars, callVars,
         frameVars, HoldLabels, UnfixLabels, Buffers
<1> QED
  BY <1>1, <1>2, <1>3, <1>4, <1>5 DEF IInv, PinInv

LEMMA SetCleanInv ==
  ASSUME IInv, alive, NEW t \in Threads, SetClean(t)
  PROVE  IInv'
<1> USE DEF At, Goto
<1>1. TypeOK'
  BY ModesAssumption, SegmentsAssumption
     DEF IInv, TypeOK, FrameTypeOK, PinInv, DataInv, CallInv, SetClean,
         MarkClean, mapVars, lruVars, callVars,
         frameVars, Labels, FixLabels, HoldLabels, UnfixLabels, State,
         Contents, Buffers, AllModes
<1>2. NoDanglingFrame' /\ PinAccounting'
  BY PinsKept
     DEF IInv, PinInv, TypeOK, SetClean, MarkClean, mapVars, lruVars, callVars,
         Referencing,
         HoldLabels, UnfixLabels
<1>3. LatchInv'
  BY DEF IInv, PinInv, TypeOK, LatchInv, MapWriters, Holds, SetClean,
         MarkClean, mapVars, callVars
<1>4. CallInv' /\ RoomInv' /\ GoneInv'
  BY DEF IInv, PinInv, TypeOK, CallInv, RoomInv, GoneInv, BoundedFrames,
         HasRoom,
         SetClean, mapVars, lruVars, callVars
<1>5. DataInv'
  BY DEF IInv, PinInv, TypeOK, FrameTypeOK, DataInv, NoDanglingFrame,
         Referencing, SetClean, MarkClean, mapVars, callVars,
         frameVars, HoldLabels, UnfixLabels, Buffers
<1> QED
  BY <1>1, <1>2, <1>3, <1>4, <1>5 DEF IInv, PinInv

LEMMA ReturnDataInv ==
  ASSUME IInv, alive, NEW t \in Threads, ReturnData(t)
  PROVE  IInv'
<1> USE DEF At, Goto
<1>1. TypeOK'
  BY ModesAssumption, SegmentsAssumption
     DEF IInv, TypeOK, FrameTypeOK, PinInv, DataInv, CallInv, ReturnData,
         mapVars, lruVars, callVars,
         frameVars, Labels, FixLabels, HoldLabels, UnfixLabels, State,
         Contents, Buffers, AllModes
<1>2. NoDanglingFrame' /\ PinAccounting'
  BY PinsKept
     DEF IInv, PinInv, TypeOK, ReturnData, mapVars, lruVars, callVars,
         Referencing,
         HoldLabels, UnfixLabels
<1>3. LatchInv'
  BY DEF IInv, PinInv, TypeOK, LatchInv, MapWriters, Holds, ReturnData,
         mapVars, callVars
<1>4. CallInv' /\ RoomInv' /\ GoneInv'
  BY DEF IInv, PinInv, TypeOK, CallInv, RoomInv, GoneInv, BoundedFrames,
         HasRoom,
         ReturnData, mapVars, lruVars, callVars
<1>5. DataInv'
  BY DEF IInv, PinInv, TypeOK, FrameTypeOK, DataInv, NoDanglingFrame,
         Referencing, ReturnData, mapVars, callVars,
         frameVars, HoldLabels, UnfixLabels, Buffers
<1> QED
  BY <1>1, <1>2, <1>3, <1>4, <1>5 DEF IInv, PinInv

LEMMA WritePageInv ==
  ASSUME IInv, alive, NEW t \in Threads, NEW v \in Values, WritePage(t, v)
  PROVE  IInv'
<1> USE DEF At, Goto
<1>1. TypeOK'
  BY ModesAssumption, SegmentsAssumption
     DEF IInv, TypeOK, FrameTypeOK, PinInv, DataInv, CallInv, WritePage,
         WriteBuffer, mapVars, lruVars, callVars,
         frameVars, Labels, FixLabels, HoldLabels, UnfixLabels, State,
         Contents, Buffers, AllModes
<1>2. NoDanglingFrame' /\ PinAccounting'
  BY PinsKept
     DEF IInv, PinInv, TypeOK, WritePage, WriteBuffer, mapVars, lruVars,
         callVars, Referencing,
         HoldLabels, UnfixLabels
<1>3. LatchInv'
  BY DEF IInv, PinInv, TypeOK, LatchInv, MapWriters, Holds, WritePage,
         WriteBuffer, mapVars, callVars
<1>4. CallInv' /\ RoomInv' /\ GoneInv'
  BY DEF IInv, PinInv, TypeOK, CallInv, RoomInv, GoneInv, BoundedFrames,
         HasRoom,
         WritePage, mapVars, lruVars, callVars
<1>5. DataInv'
  BY DEF IInv, PinInv, TypeOK, FrameTypeOK, DataInv, NoDanglingFrame,
         Referencing, WritePage, WriteBuffer, mapVars, callVars,
         frameVars, HoldLabels, UnfixLabels, Buffers
<1> QED
  BY <1>1, <1>2, <1>3, <1>4, <1>5 DEF IInv, PinInv

LEMMA FlushInv ==
  ASSUME IInv, alive, NEW t \in Threads, Flush(t)
  PROVE  IInv'
<1> USE DEF At, Goto
<1>1. TypeOK'
  <2>1. PICK W : disk' = Written({q \in {page[t]} : Dirty(q)}, W)
    BY DEF Flush, FlushFrame
  <2>2. disk' \in [Pages -> Contents]
    BY <2>1, WrittenType DEF IInv, TypeOK, PinInv
  <2> QED
    BY <2>2
       DEF IInv, TypeOK, FrameTypeOK, Flush, FlushFrame, State, mapVars,
           lruVars,
           callVars, Labels, FixLabels, HoldLabels, UnfixLabels
<1>2. NoDanglingFrame' /\ PinAccounting'
  BY PinsKept
     DEF IInv, PinInv, TypeOK, Flush, FlushFrame, Written, WriteFailures,
         Dirty, mapVars, lruVars, callVars, Referencing,
         HoldLabels, UnfixLabels
<1>3. LatchInv'
  BY DEF IInv, PinInv, TypeOK, LatchInv, MapWriters, Holds, Flush, FlushFrame,
         Written, WriteFailures, Dirty, mapVars, callVars
<1>4. CallInv' /\ RoomInv' /\ GoneInv'
  BY DEF IInv, PinInv, TypeOK, CallInv, RoomInv, GoneInv, BoundedFrames,
         HasRoom,
         Flush, mapVars, lruVars, callVars
<1>5. DataInv'
  BY DEF IInv, PinInv, TypeOK, FrameTypeOK, DataInv, NoDanglingFrame,
         Referencing, Flush, FlushFrame, Written, WriteFailures, Dirty,
         mapVars, callVars,
         frameVars, HoldLabels, UnfixLabels, Buffers
<1> QED
  BY <1>1, <1>2, <1>3, <1>4, <1>5 DEF IInv, PinInv

LEMMA UnfixDirtyInv ==
  ASSUME IInv, alive, NEW t \in Threads, UnfixDirty(t)
  PROVE  IInv'
<1> USE DEF At, Goto
<1>1. TypeOK'
  BY ModesAssumption, SegmentsAssumption
     DEF IInv, TypeOK, FrameTypeOK, PinInv, DataInv, CallInv, UnfixDirty,
         MarkDirty, mapVars, lruVars, callVars,
         frameVars, Labels, FixLabels, HoldLabels, UnfixLabels, State,
         Contents, Buffers, AllModes
<1>2. NoDanglingFrame' /\ PinAccounting'
  BY PinsKept
     DEF IInv, PinInv, TypeOK, UnfixDirty, MarkDirty, mapVars, lruVars,
         callVars, Referencing,
         HoldLabels, UnfixLabels
<1>3. LatchInv'
  BY DEF IInv, PinInv, TypeOK, LatchInv, MapWriters, Holds, UnfixDirty,
         MarkDirty, mapVars, callVars
<1>4. CallInv' /\ RoomInv' /\ GoneInv'
  BY DEF IInv, PinInv, TypeOK, CallInv, RoomInv, GoneInv, BoundedFrames,
         HasRoom,
         UnfixDirty, mapVars, lruVars, callVars
<1>5. DataInv'
  BY DEF IInv, PinInv, TypeOK, FrameTypeOK, DataInv, NoDanglingFrame,
         Referencing, UnfixDirty, MarkDirty, mapVars, callVars,
         frameVars, HoldLabels, UnfixLabels, Buffers
<1> QED
  BY <1>1, <1>2, <1>3, <1>4, <1>5 DEF IInv, PinInv

LEMMA UnfixCleanInv ==
  ASSUME IInv, alive, NEW t \in Threads, UnfixClean(t)
  PROVE  IInv'
<1> USE DEF At, Goto
<1>1. TypeOK'
  BY ModesAssumption, SegmentsAssumption
     DEF IInv, TypeOK, FrameTypeOK, PinInv, DataInv, CallInv, UnfixClean,
         mapVars, lruVars, callVars,
         frameVars, Labels, FixLabels, HoldLabels, UnfixLabels, State,
         Contents, Buffers, AllModes
<1>2. NoDanglingFrame' /\ PinAccounting'
  BY PinsKept
     DEF IInv, PinInv, TypeOK, UnfixClean, mapVars, lruVars, callVars,
         Referencing,
         HoldLabels, UnfixLabels
<1>3. LatchInv'
  BY DEF IInv, PinInv, TypeOK, LatchInv, MapWriters, Holds, UnfixClean,
         mapVars, callVars
<1>4. CallInv' /\ RoomInv' /\ GoneInv'
  BY DEF IInv, PinInv, TypeOK, CallInv, RoomInv, GoneInv, BoundedFrames,
         HasRoom,
         UnfixClean, mapVars, lruVars, callVars
<1>5. DataInv'
  BY DEF IInv, PinInv, TypeOK, FrameTypeOK, DataInv, NoDanglingFrame,
         Referencing, UnfixClean, mapVars, callVars,
         frameVars, HoldLabels, UnfixLabels, Buffers
<1> QED
  BY <1>1, <1>2, <1>3, <1>4, <1>5 DEF IInv, PinInv

LEMMA UnlockInv ==
  ASSUME IInv, alive, NEW t \in Threads, Unlock(t)
  PROVE  IInv'
<1> USE DEF At, Goto
<1>1. TypeOK'
  <2>1. rwlock' \in [Pages -> LockRecords(Threads)]
    BY LockTypes DEF IInv, TypeOK, FrameTypeOK, PinInv, CallInv, Unlock,
       UnlockFrame
  <2> QED
    BY <2>1
       DEF IInv, TypeOK, FrameTypeOK, Unlock, UnlockFrame, mapVars,
           lruVars, callVars, Labels, FixLabels, HoldLabels, UnfixLabels
<1>2. NoDanglingFrame' /\ PinAccounting'
  BY PinsKept
     DEF IInv, PinInv, TypeOK, Unlock, UnlockFrame, Unlocked, LockRecords,
         mapVars, lruVars, callVars, Referencing,
         HoldLabels, UnfixLabels
<1>3. LatchInv'
  BY DEF IInv, PinInv, TypeOK, LatchInv, MapWriters, Holds, Unlock,
         UnlockFrame, Unlocked, LockRecords, mapVars, callVars
<1>4. CallInv' /\ RoomInv' /\ GoneInv'
  BY DEF IInv, PinInv, TypeOK, CallInv, RoomInv, GoneInv, BoundedFrames,
         HasRoom,
         Unlock, mapVars, lruVars, callVars
<1>5. DataInv'
  BY DEF IInv, PinInv, TypeOK, FrameTypeOK, DataInv, NoDanglingFrame,
         Referencing, Unlock, UnlockFrame, Unlocked, LockRecords, mapVars,
         callVars,
         frameVars, HoldLabels, UnfixLabels, Buffers
<1> QED
  BY <1>1, <1>2, <1>3, <1>4, <1>5 DEF IInv, PinInv


LEMMA HitInv ==
  ASSUME IInv, alive, NEW t \in Threads, FindHit(t) \/ RefindHit(t)
  PROVE  IInv'
<1> USE DEF At, Goto
<1>1. /\ pc[t] \in {"find", "refind"} /\ page[t] \in frames
      /\ Take(page[t]) /\ Goto(t, "unlatch")
      /\ UNCHANGED <<mapVars, frameVars, callVars>>
  BY DEF FindHit, RefindHit
<1>2. /\ NoDanglingFrame' /\ PinAccounting'
      /\ lru' \in Seq(Pages) /\ users' \in [Pages -> Nat]
  BY <1>1, TakePins DEF IInv, mapVars, callVars
<1>3. TypeOK'
  BY <1>1, <1>2
     DEF IInv, TypeOK, FrameTypeOK, mapVars, frameVars, callVars, Labels,
         FixLabels
<1>4. LatchInv'
  BY <1>1 DEF IInv, PinInv, TypeOK, LatchInv, MapWriters, Holds, mapVars
<1>5. CallInv'
  <2>1. \A u \in Threads : ~At(u, "erase")
    BY <1>1 DEF IInv, PinInv, LatchInv, MapWriters, Exclusive, Holds
  <2> QED
    BY <1>1, <2>1 DEF IInv, PinInv, TypeOK, CallInv, mapVars, callVars
<1>6. RoomInv' /\ GoneInv'
  BY <1>1 DEF IInv, PinInv, TypeOK, RoomInv, GoneInv, BoundedFrames, HasRoom,
     mapVars
<1>7. DataInv'
  BY <1>1 DEF IInv, PinInv, TypeOK, DataInv, HoldLabels, mapVars, frameVars,
     callVars
<1> QED
  BY <1>2, <1>3, <1>4, <1>5, <1>6, <1>7 DEF IInv, PinInv

LEMMA EvictInv ==
  ASSUME IInv, alive, NEW t \in Threads, Evict(t)
  PROVE  IInv'
<1> USE DEF At, Goto
<1> DEFINE v == Head(lru)
<1>1. /\ lru # << >> /\ lru' = Tail(lru) /\ UNCHANGED users
      /\ victim' = [victim EXCEPT ![t] = v]
      /\ pc[t] = "refind" /\ pc' = [pc EXCEPT ![t] = "erase"]
      /\ page[t] \notin frames
      /\ UNCHANGED <<mapVars, frameVars, page, mode, ptr>>
  BY DEF Evict, Pop
<1>2. /\ lru' \in Seq(Pages) /\ v \in Queued
      /\ Range(lru') = Queued \ {v} /\ IsInjective(lru')
  BY <1>1, TailMembers
     DEF IInv, TypeOK, PinInv, PinAccounting, QueueHoldsUnfixed, Queued
<1>3. v \in Pages /\ v \in frames /\ users[v] = 0
  <2>1. v \in Pages
    BY <1>2, RangeByIndex, ElementOfSeq DEF Queued, IInv, TypeOK
  <2> QED
    BY <1>2, <2>1 DEF IInv, PinInv, PinAccounting, QueueHoldsUnfixed
<1>4. TypeOK'
  BY <1>1, <1>2, <1>3
     DEF IInv, TypeOK, FrameTypeOK, mapVars, frameVars, Labels, FixLabels
<1>5. \A u \in Threads : victim[u] = None
  BY <1>1, NoVictims DEF IInv, PinInv, LatchInv, MapWriters, Holds
<1>6. QueueHoldsUnfixed'
  <2> SUFFICES ASSUME NEW p \in Pages
               PROVE  p \in Queued' <=> /\ p \in frames' /\ users'[p] = 0
                                        /\ \A u \in Threads : victim'[u] # p
    BY <1>2 DEF QueueHoldsUnfixed
  <2>1. p \in Queued <=> p \in frames /\ users[p] = 0
    BY <1>5, PagesAssumption DEF IInv, PinInv, PinAccounting, QueueHoldsUnfixed
  <2>2. (\A u \in Threads : victim'[u] # p) <=> p # v
    BY <1>1, <1>5, PagesAssumption DEF IInv, TypeOK
  <2> QED
    BY <1>1, <1>2, <2>1, <2>2 DEF Queued, mapVars
<1>7. UsersCounted'
  <2>1. ASSUME NEW p \in Pages PROVE References(p)' = References(p)
    BY <1>1 DEF References, Referencing, HoldLabels, UnfixLabels, IInv, TypeOK
  <2> QED
    BY <1>1, <2>1 DEF UsersCounted, IInv, PinInv, PinAccounting
<1>8. NoDanglingFrame'
  BY <1>1 DEF NoDanglingFrame, Referencing, HoldLabels, UnfixLabels, IInv,
     TypeOK,
              PinInv, mapVars
<1>9. LatchInv' /\ CallInv' /\ RoomInv' /\ GoneInv' /\ DataInv'
  <2>1. LatchInv'
    BY <1>1 DEF IInv, PinInv, TypeOK, LatchInv, MapWriters, Holds, mapVars
  <2>2. CallInv'
    BY <1>1, <1>3 DEF IInv, PinInv, TypeOK, CallInv, mapVars
  <2>3. RoomInv' /\ GoneInv'
    BY <1>1 DEF IInv, PinInv, TypeOK, RoomInv, GoneInv, BoundedFrames, HasRoom,
       mapVars
  <2>4. DataInv'
    BY <1>1 DEF IInv, PinInv, TypeOK, DataInv, HoldLabels, mapVars, frameVars
  <2> QED
    BY <2>1, <2>2, <2>3, <2>4
<1> QED
  BY <1>4, <1>6, <1>7, <1>8, <1>9 DEF IInv, PinInv, PinAccounting

LEMMA DestructTypes ==
  ASSUME FrameTypeOK, DataInv, NEW P, DestructFrames(P)
  PROVE  FrameTypeOK'
<1>1. PICK W : disk' = Written({p \in P : Dirty(p)}, W)
  BY DEF DestructFrames
<1>2. disk' \in [Pages -> Contents]
  BY <1>1, WrittenType
<1> QED
  BY <1>2 DEF DestructFrames, FrameTypeOK, State, Contents, LockRecords, Free

LEMMA EraseInv ==
  ASSUME IInv, alive, NEW t \in Threads, Erase(t)
  PROVE  IInv'
<1> USE DEF At, Goto
<1> DEFINE v == victim[t]
<1>1. /\ pc[t] = "erase" /\ pc' = [pc EXCEPT ![t] = "open"]
      /\ frames' = frames \ {v}
      /\ DestructFrames({v})
      /\ victim' = [victim EXCEPT ![t] = None]
      /\ UNCHANGED <<alive, latch, segments, lruVars, page, mode, ptr>>
  BY DEF Erase
<1>2. v \in frames /\ users[v] = 0 /\ v \in Pages /\ page[t] \notin frames
  BY <1>1 DEF IInv, TypeOK, PinInv, CallInv
<1>3. TypeOK'
  BY <1>1, DestructTypes
     DEF IInv, PinInv, TypeOK, lruVars, Labels, FixLabels
<1>4. \A u \in Threads \ {t} : victim[u] = None /\ pc[u] \notin MapWriters
  <2> SUFFICES ASSUME NEW u \in Threads \ {t}, pc[u] \in MapWriters PROVE FALSE
    BY DEF IInv, PinInv, CallInv, MapWriters
  <2>1. t \in latch.writers /\ u \in latch.writers
    BY <1>1 DEF IInv, PinInv, LatchInv, MapWriters
  <2> QED
    BY <2>1 DEF IInv, PinInv, LatchInv, Exclusive
<1>5. ASSUME NEW p \in Pages PROVE References(p)' = References(p)
  BY <1>1 DEF References, Referencing, HoldLabels, UnfixLabels, IInv, TypeOK
<1>6. References(v) = {}
  BY <1>2, ReferencesFinite DEF IInv, PinInv, PinAccounting, UsersCounted
<1>7. NoDanglingFrame'
  <2> SUFFICES ASSUME NEW u \in Threads, pc'[u] \in Referencing
               PROVE  page'[u] \in frames'
    BY DEF NoDanglingFrame
  <2>1. u # t /\ pc[u] \in Referencing /\ page'[u] = page[u]
    BY <1>1 DEF Referencing, HoldLabels, UnfixLabels, IInv, TypeOK
  <2> QED
    BY <1>1, <1>6, <2>1 DEF References, NoDanglingFrame, IInv, PinInv
<1>8. UsersCounted'
  BY <1>1, <1>5 DEF UsersCounted, IInv, PinInv, PinAccounting, lruVars
<1>9. QueueHoldsUnfixed'
  <2> SUFFICES ASSUME NEW p \in Pages
               PROVE  p \in Queued' <=> /\ p \in frames' /\ users'[p] = 0
                                        /\ \A u \in Threads : victim'[u] # p
    BY <1>1 DEF QueueHoldsUnfixed, IInv, PinInv, PinAccounting, lruVars
  <2>1. p \in Queued <=> p \in frames /\ users[p] = 0 /\ p # v
    BY <1>4, PagesAssumption DEF IInv, PinInv, PinAccounting, QueueHoldsUnfixed
  <2>2. \A u \in Threads : victim'[u] # p
    BY <1>1, <1>4, PagesAssumption DEF IInv, TypeOK
  <2> QED
    BY <1>1, <2>1, <2>2 DEF Queued, lruVars
<1>10. RoomInv'
  <2>1. IsFiniteSet(frames) /\ Cardinality(frames') = Cardinality(frames) - 1
    BY <1>1, <1>2, PagesAssumption, FS_Subset, FS_RemoveElement DEF IInv, TypeOK
  <2>2. Cardinality(frames) \in Nat /\ Cardinality(frames) <= MaxSize
    BY <2>1, FS_CardinalityType DEF IInv, PinInv, RoomInv, BoundedFrames
  <2> QED
    BY <2>1, <2>2, MaxSizeAssumption DEF RoomInv, BoundedFrames, HasRoom
<1>11. DataInv'
  <2>1. ASSUME NEW p \in Pages, state'[p] # "New" PROVE data'[p] # None
    BY <1>1, <2>1 DEF DestructFrames, DataInv, IInv, PinInv
  <2>2. ASSUME NEW u \in Threads, pc'[u] \in HoldLabels \ {"fixed", "malloc"}
        PROVE  data'[page'[u]] # None
    <3>1. u # t /\ pc[u] = pc'[u] /\ page'[u] = page[u] /\ pc[u] \in Referencing
      BY <1>1, <2>2 DEF Referencing, HoldLabels, UnfixLabels, IInv, TypeOK
    <3>2. page[u] \in Pages /\ page[u] # v
      BY <1>6, <3>1 DEF References, NoDanglingFrame, IInv, PinInv, TypeOK
    <3> QED
      BY <1>1, <2>2, <3>1, <3>2 DEF DestructFrames, DataInv, IInv, PinInv
  <2> QED
    BY <2>1, <2>2 DEF DataInv
<1>12. LatchInv' /\ CallInv' /\ GoneInv'
  BY <1>1, <1>2, <1>4
     DEF IInv, PinInv, TypeOK, LatchInv, MapWriters, Holds, CallInv, GoneInv,
         lruVars
<1> QED
  BY <1>3, <1>7, <1>8, <1>9, <1>10, <1>11, <1>12 DEF IInv, PinInv, PinAccounting

LEMMA EmplaceInv ==
  ASSUME IInv, alive, NEW t \in Threads, Emplace(t)
  PROVE  IInv'
<1> USE DEF At, Goto
<1> DEFINE p == page[t]
<1>1. /\ pc[t] = "emplace" /\ pc' = [pc EXCEPT ![t] = "unlatch"]
      /\ frames' = frames \cup {p}
      /\ ConstructFrame(p)
      /\ users' = [users EXCEPT ![p] = @ + 1] /\ UNCHANGED lru
      /\ UNCHANGED <<alive, latch, segments, callVars>>
  BY DEF Emplace, Adopt
<1>2. /\ p \in Pages /\ p \notin frames
      /\ pc[t] \notin Referencing /\ "unlatch" \in Referencing
      /\ UsersCounted /\ QueueHoldsUnfixed /\ NoDanglingFrame
  BY <1>1 DEF IInv, PinInv, CallInv, PinAccounting, Referencing, HoldLabels,
     UnfixLabels
<1>3. TypeOK'
  BY <1>1, <1>2
     DEF IInv, TypeOK, FrameTypeOK, ConstructFrame, State, LockRecords, Free,
         callVars, Labels, FixLabels
<1>4. UsersCounted'
  BY <1>1, <1>2, UserAdded DEF IInv, callVars
<1>5. NoDanglingFrame'
  BY <1>1, <1>2 DEF NoDanglingFrame, IInv, TypeOK, callVars
<1>6. References(p) = {} /\ users[p] = 0
  <2>1. References(p) = {}
    BY <1>2 DEF References, NoDanglingFrame
  <2> QED
    BY <1>2, <2>1, ReferencesFinite DEF UsersCounted
<1>7. QueueHoldsUnfixed'
  <2> SUFFICES ASSUME NEW q \in Pages
               PROVE  q \in Queued' <=> /\ q \in frames' /\ users'[q] = 0
                                        /\ \A u \in Threads : victim'[u] # q
    BY <1>1, <1>2 DEF QueueHoldsUnfixed
  <2>1. p \notin Queued
    BY <1>2 DEF QueueHoldsUnfixed
  <2> QED
    BY <1>1, <1>2, <1>6, <2>1
       DEF QueueHoldsUnfixed, Queued, IInv, TypeOK, callVars
<1>8. \A u \in Threads \ {t} : pc[u] \notin MapWriters
  BY <1>1 DEF IInv, PinInv, LatchInv, MapWriters, Exclusive
<1>9. RoomInv'
  <2>1. IsFiniteSet(frames) /\ Cardinality(frames') = Cardinality(frames) + 1
    BY <1>1, <1>2, PagesAssumption, FS_Subset, FS_AddElement DEF IInv, TypeOK
  <2>2. Cardinality(frames) \in Nat /\ Cardinality(frames) < MaxSize
    BY <1>1, <2>1, FS_CardinalityType DEF IInv, PinInv, RoomInv, HasRoom
  <2> QED
    BY <1>1, <1>8, <2>1, <2>2, MaxSizeAssumption
       DEF RoomInv, BoundedFrames, MapWriters, IInv, TypeOK
<1>10. DataInv'
  <2>1. ASSUME NEW u \in Threads, pc'[u] \in HoldLabels \ {"fixed", "malloc"}
        PROVE  page'[u] # p /\ u # t
    BY <1>1, <1>2, <1>6, <2>1
       DEF References, Referencing, HoldLabels, UnfixLabels, IInv, TypeOK,
           callVars
  <2> QED
    BY <1>1, <2>1
       DEF DataInv, ConstructFrame, IInv, PinInv, TypeOK, FrameTypeOK, callVars
<1>11. LatchInv' /\ CallInv' /\ GoneInv'
  BY <1>1, <1>8
     DEF IInv, PinInv, TypeOK, LatchInv, MapWriters, Holds, CallInv, GoneInv,
         callVars
<1> QED
  BY <1>3, <1>4, <1>5, <1>7, <1>9, <1>10, <1>11 DEF IInv, PinInv, PinAccounting

LEMMA PutLRUInv ==
  ASSUME IInv, alive, NEW t \in Threads, PutLRU(t)
  PROVE  IInv'
<1> USE DEF At, Goto
<1>1. /\ pc[t] = "put" /\ Put(page[t]) /\ Goto(t, "idle")
      /\ page' = [page EXCEPT ![t] = None]
      /\ mode' = [mode EXCEPT ![t] = "shared"]
      /\ UNCHANGED <<mapVars, frameVars, victim, ptr>>
  BY DEF PutLRU
<1>2. /\ NoDanglingFrame' /\ PinAccounting'
      /\ lru' \in Seq(Pages) /\ users' \in [Pages -> Nat]
  BY <1>1, PutPins DEF IInv, mapVars
<1>3. TypeOK'
  BY <1>1, <1>2
     DEF IInv, TypeOK, FrameTypeOK, AllModes, mapVars, frameVars, Labels
<1>4. users[page[t]] > 0
  <2>1. t \in References(page[t]) /\ page[t] \in Pages
    BY <1>1 DEF References, Referencing, UnfixLabels, IInv, PinInv, CallInv
  <2> QED
    BY <2>1, ReferencesFinite DEF IInv, PinInv, PinAccounting, UsersCounted
<1>5. CallInv'
  <2>1. \A u \in Threads \ {t} : At(u, "erase") => victim[u] # page[t]
    BY <1>4 DEF IInv, PinInv, CallInv
  <2> QED
    BY <1>1, <2>1 DEF IInv, PinInv, TypeOK, CallInv, Put, mapVars
<1>6. LatchInv' /\ RoomInv' /\ GoneInv'
  BY <1>1
     DEF IInv, PinInv, TypeOK, LatchInv, MapWriters, Holds, RoomInv, GoneInv,
         BoundedFrames, HasRoom, mapVars
<1>7. DataInv'
  BY <1>1 DEF IInv, PinInv, TypeOK, DataInv, HoldLabels, mapVars, frameVars
<1> QED
  BY <1>2, <1>3, <1>5, <1>6, <1>7 DEF IInv, PinInv

\* The latch is free when the destructor has it, so nobody is inside the map.
LEMMA DestroyInv ==
  ASSUME IInv, Destroy
  PROVE  IInv'
<1> USE DEF At
<1>1. /\ latch = Free /\ alive' = FALSE /\ frames' = {} /\ segments' = {}
      /\ lru' = << >> /\ users' = [p \in Pages |-> 0]
      /\ DestructFrames(frames)
      /\ UNCHANGED <<latch, pc, callVars>>
  BY DEF Destroy
<1>2. TypeOK'
  <2>1. FrameTypeOK'
    BY <1>1, DestructTypes DEF IInv, PinInv, TypeOK
  <2>2. alive' \in BOOLEAN
    BY <1>1
  <2>3. lru' \in Seq(Pages) /\ users' \in [Pages -> Nat]
    BY <1>1
  <2> QED
    BY <1>1, <2>1, <2>2, <2>3 DEF IInv, TypeOK, callVars
<1>3. \A t \in Threads : pc[t] \notin MapWriters
  BY <1>1 DEF IInv, PinInv, LatchInv, Free
<1>4. LatchInv' /\ CallInv' /\ GoneInv'
  BY <1>1, <1>3
     DEF IInv, PinInv, LatchInv, MapWriters, Holds, CallInv, GoneInv, callVars
<1>5. RoomInv'
  BY <1>1, <1>3, FS_EmptySet, MaxSizeAssumption
     DEF RoomInv, BoundedFrames, HasRoom, MapWriters
<1>6. DataInv'
  BY <1>1 DEF DataInv, DestructFrames, IInv, PinInv
<1>7. NoDanglingFrame' /\ PinAccounting'
  BY <1>1 DEF NoDanglingFrame, PinAccounting
<1> QED
  BY <1>2, <1>4, <1>5, <1>6, <1>7 DEF IInv, PinInv

LEMMA CreateInv ==
  ASSUME IInv, Create
  PROVE  IInv'
<1> USE DEF At
<1>1. /\ ~alive /\ Joined /\ alive' = TRUE
      /\ UNCHANGED <<latch, frames, segments, lruVars, frameVars, pc, callVars>>
  BY DEF Create
<1>2. frames = {} /\ lru = << >> /\ users = [p \in Pages |-> 0]
  BY <1>1 DEF IInv, PinInv, GoneInv
<1>3. TypeOK'
  BY <1>1 DEF IInv, TypeOK, FrameTypeOK, lruVars, frameVars, callVars
<1>4. \A t \in Threads : pc[t] = "idle" /\ pc'[t] = "idle"
  BY <1>1 DEF Joined
<1>5. LatchInv' /\ CallInv' /\ RoomInv' /\ GoneInv'
  BY <1>1
     DEF IInv, PinInv, LatchInv, Holds, CallInv, RoomInv, GoneInv,
         BoundedFrames,
         HasRoom, callVars
<1>6. DataInv' /\ NoDanglingFrame'
  BY <1>1, <1>4
     DEF IInv, PinInv, DataInv, NoDanglingFrame, Referencing, HoldLabels,
         UnfixLabels, frameVars
<1>7. PinAccounting'
  <2>1. ASSUME NEW p \in Pages PROVE References(p)' = {}
    BY <1>4 DEF References, Referencing, HoldLabels, UnfixLabels
  <2>2. UsersCounted'
    BY <1>1, <1>2, <2>1, FS_EmptySet DEF UsersCounted, lruVars
  <2>3. QueueHoldsUnfixed'
    BY <1>1, <1>2 DEF QueueHoldsUnfixed, Queued, Range, IsInjective, lruVars
  <2> QED
    BY <2>2, <2>3 DEF PinAccounting
<1> QED
  BY <1>3, <1>5, <1>6, <1>7 DEF IInv, PinInv

-----------------------------------------------------------------------------
LEMMA InitInv == Init => IInv
<1> SUFFICES ASSUME Init PROVE IInv
  OBVIOUS
<1> USE DEF At
<1>1. TypeOK
  BY InitValueAssumption
     DEF Init, TypeOK, FrameInit, FrameTypeOK, LRUInit, Labels, AllModes, Free,
         LockRecords, Contents, State, Buffers
<1>2. LatchInv /\ CallInv /\ GoneInv /\ DataInv /\ NoDanglingFrame
  BY DEF Init, FrameInit, LRUInit, LatchInv, MapWriters, Exclusive, Free,
         CallInv,
         GoneInv, DataInv, HoldLabels, NoDanglingFrame, Referencing, UnfixLabels
<1>3. RoomInv
  BY FS_EmptySet, MaxSizeAssumption DEF Init, RoomInv, BoundedFrames
<1>4. PinAccounting
  <2>1. ASSUME NEW p \in Pages PROVE References(p) = {}
    BY DEF Init, References, Referencing, HoldLabels, UnfixLabels
  <2>2. UsersCounted
    BY <2>1, FS_EmptySet DEF Init, LRUInit, UsersCounted
  <2>3. QueueHoldsUnfixed
    BY DEF Init, LRUInit, QueueHoldsUnfixed, Queued, Range, IsInjective
  <2> QED
    BY <2>2, <2>3 DEF PinAccounting
<1> QED
  BY <1>1, <1>2, <1>3, <1>4 DEF IInv, PinInv

LEMMA StutterInv ==
  ASSUME IInv, UNCHANGED vars
  PROVE  IInv'
<1>1. TypeOK'
  BY DEF IInv, TypeOK, FrameTypeOK, vars, mapVars, lruVars, frameVars, callVars
<1>2. /\ alive' = alive /\ latch' = latch /\ frames' = frames /\ lru' = lru
      /\ users' = users /\ pc' = pc /\ page' = page /\ victim' = victim
      /\ state' = state /\ data' = data
  BY DEF vars, mapVars, lruVars, frameVars, callVars
<1>3. LatchInv' /\ CallInv' /\ RoomInv' /\ GoneInv' /\ DataInv' /\ NoDanglingFrame'
  BY <1>2
     DEF IInv, PinInv, LatchInv, CallInv, RoomInv, GoneInv, DataInv, At,
         NoDanglingFrame, BoundedFrames, HasRoom
<1>4. PinAccounting'
  BY <1>2
     DEF IInv, PinInv, PinAccounting, UsersCounted, References,
         QueueHoldsUnfixed,
         Queued
<1> QED
  BY <1>1, <1>3, <1>4 DEF IInv, PinInv

LEMMA NextInv ==
  ASSUME IInv, [Next]_vars
  PROVE  IInv'
<1>1. ASSUME NEW t \in Threads, Step(t) PROVE IInv'
  <2>1. alive
    BY <1>1 DEF Step
  <2>2. CASE RdLatch(t) BY <2>1, <2>2, RdLatchInv
  <2>3. CASE FindHit(t) \/ RefindHit(t) BY <2>1, <2>3, HitInv
  <2>4. CASE FindMiss(t) BY <2>1, <2>4, FindMissInv
  <2>5. CASE WrLatch(t) BY <2>1, <2>5, WrLatchInv
  <2>6. CASE RefindMiss(t) BY <2>1, <2>6, RefindMissInv
  <2>7. CASE Evict(t) BY <2>1, <2>7, EvictInv
  <2>8. CASE NoFreeFrame(t) BY <2>1, <2>8, NoFreeFrameInv
  <2>9. CASE Erase(t) BY <2>1, <2>9, EraseInv
  <2>10. CASE OpenSegment(t) BY <2>1, <2>10, OpenSegmentInv
  <2>11. CASE OpenFails(t) BY <2>1, <2>11, OpenFailsInv
  <2>12. CASE Emplace(t) BY <2>1, <2>12, EmplaceInv
  <2>13. CASE Unlatch(t) BY <2>1, <2>13, UnlatchInv
  <2>14. CASE Lock(t) BY <2>1, <2>14, LockInv
  <2>15. CASE Catch(t) BY <2>1, <2>15, CatchInv
  <2>16. CASE GetData(t) BY <2>1, <2>16, GetDataInv
  <2>17. CASE Malloc(t) BY <2>1, <2>17, MallocInv
  <2>18. CASE PRead(t) BY <2>1, <2>18, PReadInv
  <2>19. CASE SetClean(t) BY <2>1, <2>19, SetCleanInv
  <2>20. CASE ReturnData(t) BY <2>1, <2>20, ReturnDataInv
  <2>21. CASE \E v \in Values : WritePage(t, v) BY <2>1, <2>21, WritePageInv
  <2>22. CASE Flush(t) BY <2>1, <2>22, FlushInv
  <2>23. CASE UnfixDirty(t) BY <2>1, <2>23, UnfixDirtyInv
  <2>24. CASE UnfixClean(t) BY <2>1, <2>24, UnfixCleanInv
  <2>25. CASE Unlock(t) BY <2>1, <2>25, UnlockInv
  <2>26. CASE PutLRU(t) BY <2>1, <2>26, PutLRUInv
  <2> QED
    BY <1>1, <2>2, <2>3, <2>4, <2>5, <2>6, <2>7, <2>8, <2>9, <2>10, <2>11,
       <2>12,
       <2>13, <2>14, <2>15, <2>16, <2>17, <2>18, <2>19, <2>20, <2>21, <2>22,
       <2>23, <2>24, <2>25, <2>26 DEF Step
<1>2. ASSUME NEW t \in Threads, NEW p \in Pages, NEW m \in Modes[t], FixPage(t, p, m)
      PROVE  IInv'
  BY <1>2, FixPageInv DEF FixPage
<1> QED
  BY <1>1, <1>2, DestroyInv, CreateInv, StutterInv DEF Next

(***************************************************************************)
(* Every variable keeps its type, in every behaviour of the manager.       *)
(***************************************************************************)
THEOREM TypeCorrectness == Spec => []TypeOK
<1>1. Init => IInv
  BY InitInv
<1>2. IInv /\ [Next]_vars => IInv'
  BY NextInv
<1>3. IInv => TypeOK
  BY DEF IInv
<1> QED
  BY <1>1, <1>2, <1>3, PTL DEF Spec

(***************************************************************************)
(* However many threads fix and unfix pages, no frame is thrown out while  *)
(* a thread keeps a pointer to it, from removeLRU in fixPage to putLRU in  *)
(* unfixPage.                                                              *)
(***************************************************************************)
THEOREM FramesStay == Spec => []NoDanglingFrame
<1>1. Init => IInv
  BY InitInv
<1>2. IInv /\ [Next]_vars => IInv'
  BY NextInv
<1>3. IInv => NoDanglingFrame
  BY DEF IInv, PinInv
<1> QED
  BY <1>1, <1>2, <1>3, PTL DEF Spec

(***************************************************************************)
(* currentUsers counts the threads that have a pointer to the frame, and   *)
(* the replacement queue holds the frames nobody has one to.               *)
(***************************************************************************)
THEOREM PinsAreCounted == Spec => []PinAccounting
<1>1. Init => IInv
  BY InitInv
<1>2. IInv /\ [Next]_vars => IInv'
  BY NextInv
<1>3. IInv => PinAccounting
  BY DEF IInv, PinInv
<1> QED
  BY <1>1, <1>2, <1>3, PTL DEF Spec

(***************************************************************************)
(* The map never holds more frames than the constructor was given.         *)
(***************************************************************************)
THEOREM MemoryIsBounded == Spec => []BoundedFrames
<1>1. Init => IInv
  BY InitInv
<1>2. IInv /\ [Next]_vars => IInv'
  BY NextInv
<1>3. IInv => BoundedFrames
  BY DEF IInv, PinInv, RoomInv
<1> QED
  BY <1>1, <1>2, <1>3, PTL DEF Spec

(***************************************************************************)
(* When the manager may keep a page for every thread, fixPage never throws *)
(* for want of a frame.  A thread that misses in a full map has no page    *)
(* fixed itself, so the others have fixed at most MaxSize - 1 of the       *)
(* MaxSize frames, and one is left in the queue.  (A failure to open a     *)
(* segment file is left out by the assumption on Faults.)                  *)
(***************************************************************************)
LEMMA SomeFrameIsFree ==
  ASSUME IInv, alive, Cardinality(Threads) <= MaxSize, NEW t \in Threads,
         At(t, "refind"), ~HasRoom
  PROVE  lru # << >>
<1> SUFFICES ASSUME lru = << >> PROVE FALSE
  OBVIOUS
<1> DEFINE Others == Threads \ {t}
           Fixed == {page[u] : u \in Others}
<1>1. IsFiniteSet(Others) /\ Cardinality(Others) = Cardinality(Threads) - 1
  BY ThreadsAssumption, FS_RemoveElement
<1>2. Cardinality(Fixed) <= Cardinality(Others) /\ IsFiniteSet(Fixed)
  <2> DEFINE f == [u \in Others |-> page[u]]
  <2>1. f \in Surjection(Others, Fixed)
    BY DEF Surjection
  <2> QED
    BY <1>1, <2>1, FS_Surjection
<1>3. \A u \in Threads : victim[u] = None
  BY NoVictims DEF IInv, PinInv, LatchInv, MapWriters, Holds, At
<1>4. ASSUME NEW p \in frames PROVE p \in Fixed
  <2>1. p \in Pages /\ p \notin Queued
    BY DEF IInv, TypeOK, Queued, Range
  <2>2. users[p] # 0
    BY <1>3, <2>1, PagesAssumption DEF IInv, PinInv, PinAccounting,
       QueueHoldsUnfixed
  <2>3. References(p) # {}
    BY <2>1, <2>2, ReferencesFinite DEF IInv, PinInv, PinAccounting,
       UsersCounted
  <2>4. PICK u \in Threads : pc[u] \in Referencing /\ page[u] = p
    BY <2>3 DEF References
  <2>5. u # t
    BY <2>4 DEF At, Referencing, HoldLabels, UnfixLabels
  <2> QED
    BY <2>4, <2>5
<1>5. Cardinality(frames) <= Cardinality(Fixed)
  BY <1>2, <1>4, FS_Subset
<1>6. /\ Cardinality(frames) \in Nat /\ Cardinality(Fixed) \in Nat
      /\ Cardinality(Others) \in Nat /\ Cardinality(Threads) \in Nat
  BY <1>1, <1>2, <1>4, FS_Subset, FS_CardinalityType, ThreadsAssumption
<1> QED
  BY <1>1, <1>2, <1>5, <1>6, MaxSizeAssumption DEF HasRoom

THEOREM RoomForEveryThread ==
  ASSUME Cardinality(Threads) <= MaxSize, "open" \notin Faults
  PROVE  Spec => []NeverFails
<1>1. Init => IInv /\ NeverFails
  BY InitInv DEF Init, NeverFails, At
<1>2. IInv /\ NeverFails /\ [Next]_vars => IInv' /\ NeverFails'
  <2> SUFFICES ASSUME IInv, NeverFails, [Next]_vars, NEW t \in Threads, pc'[t] = "failed"
               PROVE  FALSE
    BY NextInv DEF NeverFails, At
  <2>1. CASE UNCHANGED vars
    BY <2>1 DEF NeverFails, At, vars
  <2>2. ASSUME NEW u \in Threads, Step(u) PROVE FALSE
    <3>1. alive /\ ~NoFreeFrame(u)
      BY <2>2, SomeFrameIsFree DEF Step, NoFreeFrame
    <3>2. \E l \in Labels \ {"failed"} : pc' = [pc EXCEPT ![u] = l]
      BY <2>2, <3>1
         DEF Step, Goto, Labels, FixLabels, HoldLabels, UnfixLabels, RdLatch,
             FindHit, FindMiss, WrLatch, RefindHit, RefindMiss, Evict, Erase,
             OpenSegment, OpenFails, Emplace, Unlatch, Lock, Catch, GetData,
             Malloc, PRead, SetClean, ReturnData, WritePage, Flush, UnfixDirty,
             UnfixClean, Unlock, PutLRU
    <3> QED
      BY <3>2 DEF NeverFails, At, IInv, TypeOK
  <2>3. ASSUME NEW u \in Threads, NEW p \in Pages, NEW m \in Modes[u],
               FixPage(u, p, m)
        PROVE  FALSE
    BY <2>3 DEF FixPage, Goto, NeverFails, At, IInv, TypeOK
  <2>4. CASE Destroy \/ Create
    BY <2>4 DEF Destroy, Create, NeverFails, At
  <2> QED
    BY <2>1, <2>2, <2>3, <2>4 DEF Next
<1> QED
  BY <1>1, <1>2, PTL DEF Spec

-----------------------------------------------------------------------------
(***************************************************************************)
(* What clients see.                                                       *)
(***************************************************************************)

SInv == IInv /\ HolderInv /\ LoadInv /\ UnusedInv

\* A step as the clients see it: one of PageStore, or nothing.
SeenStep == PageStore!StoreNext \/ UNCHANGED PageStore!storeVars

Simulated == HolderInv' /\ LoadInv' /\ UnusedInv' /\ SeenStep

-----------------------------------------------------------------------------
\* Clients see the contents of the pages and who has locked them.
LEMMA Unseen ==
  ASSUME Store' = Store, rwlock' = rwlock
  PROVE  SeenStep
BY DEF SeenStep, PageStore!storeVars

\* Whoever has the frame's lock for writing has it alone.
LEMMA Alone ==
  ASSUME SInv, NEW t \in Threads, pc[t] \in Holding, mode[t] = "exclusive"
  PROVE  /\ page[t] \in Pages
         /\ rwlock[page[t]] = [writers |-> {t}, readers |-> {}]
         /\ \A u \in Threads \ {t} : pc[u] \in Holding => page[u] # page[t]
<1>1. page[t] \in Pages /\ HoldsIn(page[t], t, "exclusive")
  BY DEF SInv, IInv, PinInv, CallInv, At, Holding, HoldLabels, HoldsIn
<1>2. rwlock[page[t]] \in LockRecords(Threads) /\ t \in rwlock[page[t]].writers
  BY <1>1 DEF SInv, IInv, TypeOK, FrameTypeOK, HolderInv
<1>3. rwlock[page[t]] = [writers |-> {t}, readers |-> {}]
  BY <1>1, <1>2 DEF SInv, HolderInv, Exclusive, LockRecords
<1>4. ASSUME NEW u \in Threads \ {t}, pc[u] \in Holding, page[u] = page[t]
      PROVE  FALSE
  <2>1. mode[u] \in {"shared", "exclusive"}
    BY DEF SInv, IInv, TypeOK, AllModes
  <2>2. u \in rwlock[page[t]].writers \cup rwlock[page[t]].readers
    BY <1>1, <1>4, <2>1 DEF SInv, HolderInv, HoldsIn
  <2> QED
    BY <1>3, <2>2
<1> QED
  BY <1>1, <1>3, <1>4

\* A frame nobody has a pointer to is not locked, nor being changed.
LEMMA UnreferencedIsUnlocked ==
  ASSUME SInv, NEW p \in Pages, References(p) = {}
  PROVE  rwlock[p] = Free /\ ~Changing(p)
<1>1. \A t \in Threads : ~(pc[t] \in Holding /\ page[t] = p)
  BY DEF References, Referencing, Holding, HoldLabels, UnfixLabels
<1>2. rwlock[p] \in LockRecords(Threads)
  BY DEF SInv, IInv, TypeOK, FrameTypeOK
<1>3. rwlock[p].writers = {} /\ rwlock[p].readers = {}
  BY <1>1, <1>2 DEF SInv, HolderInv, HoldsIn, LockRecords
<1> QED
  BY <1>1, <1>2, <1>3
     DEF Free, LockRecords, Changing, Holding, HoldLabels

(***************************************************************************)
(* A step of a thread that has not locked the frame yet, or does no more,  *)
(* and that leaves the frames and the map alone.                           *)
(***************************************************************************)
LEMMA Outside ==
  ASSUME SInv, alive, NEW t \in Threads, UNCHANGED <<alive, frames, frameVars>>,
         pc[t] \notin Holding, pc'[t] \notin Holding,
         \A u \in Threads \ {t} : /\ pc'[u] = pc[u] /\ page'[u] = page[u]
                                  /\ mode'[u] = mode[u] /\ ptr'[u] = ptr[u]
  PROVE  Simulated
<1>1. \A u \in Threads : pc'[u] \in Holding => u # t /\ pc[u] = pc'[u]
  OBVIOUS
<1>2. \A p \in Pages : Changing(p)' <=> Changing(p)
  BY DEF Changing, Holding, HoldLabels
<1>3. HolderInv'
  <2>1. \A u \in Threads, p \in Pages, m \in AllModes :
           HoldsIn(p, u, m)' <=> HoldsIn(p, u, m)
    BY DEF HoldsIn
  <2> QED
    BY <2>1 DEF SInv, HolderInv, frameVars, AllModes
<1>4. LoadInv'
  BY <1>1 DEF SInv, LoadInv, Dirty, frameVars, Holding, HoldLabels
<1>5. UnusedInv'
  BY DEF SInv, UnusedInv, frameVars
<1>6. Store' = Store
  BY <1>2 DEF Store, Dirty, frameVars
<1> QED
  BY <1>3, <1>4, <1>5, <1>6, Unseen DEF Simulated, frameVars

LEMMA OutsideSteps ==
  ASSUME SInv, alive, NEW t \in Threads,
         \/ RdLatch(t) \/ FindHit(t) \/ FindMiss(t) \/ WrLatch(t)
         \/ RefindHit(t) \/ RefindMiss(t) \/ Evict(t) \/ NoFreeFrame(t)
         \/ OpenSegment(t) \/ OpenFails(t) \/ Unlatch(t) \/ Catch(t)
         \/ PutLRU(t) \/ \E p \in Pages, m \in Modes[t] : FixPage(t, p, m)
  PROVE  Simulated
<1> DEFINE OthersKept == \A u \in Threads \ {t} :
                            /\ pc'[u] = pc[u] /\ page'[u] = page[u]
                            /\ mode'[u] = mode[u] /\ ptr'[u] = ptr[u]
           Goal == /\ UNCHANGED <<alive, frames, frameVars>>
                   /\ pc[t] \notin Holding /\ pc'[t] \notin Holding
                   /\ OthersKept
<1> USE DEF At, Goto, mapVars, callVars, HoldLabels, Holding
<1>1. /\ pc \in [Threads -> Labels] /\ page \in [Threads -> Pages \cup {None}]
      /\ mode \in [Threads -> AllModes]
  BY DEF SInv, IInv, TypeOK
<1>2. CASE RdLatch(t) \/ FindHit(t) \/ FindMiss(t) \/ WrLatch(t)
  <2>1. Goal
    BY <1>1, <1>2 DEF RdLatch, FindHit, FindMiss, WrLatch
  <2> QED
    BY <2>1, Outside
<1>3. CASE RefindHit(t) \/ RefindMiss(t) \/ Evict(t) \/ NoFreeFrame(t)
  <2>1. Goal
    BY <1>1, <1>3 DEF RefindHit, RefindMiss, Evict, NoFreeFrame
  <2> QED
    BY <2>1, Outside
<1>4. CASE OpenSegment(t) \/ OpenFails(t) \/ Unlatch(t) \/ Catch(t) \/ PutLRU(t)
  <2>1. Goal
    BY <1>1, <1>4 DEF OpenSegment, OpenFails, Unlatch, Catch, PutLRU
  <2> QED
    BY <2>1, Outside
<1>5. CASE \E p \in Pages, m \in Modes[t] : FixPage(t, p, m)
  <2>1. Goal
    BY <1>1, <1>5 DEF FixPage
  <2> QED
    BY <2>1, Outside
<1> QED
  BY <1>2, <1>3, <1>4, <1>5

-----------------------------------------------------------------------------
(***************************************************************************)
(* A step of a holder that keeps the frame's lock and its holders as they  *)
(* are, and that changes at most the frame it holds.                       *)
(***************************************************************************)
LEMMA HoldersKept ==
  ASSUME SInv, NEW t \in Threads, UNCHANGED <<rwlock, page, mode>>,
         pc[t] \in Holding, pc'[t] \in Holding,
         \A u \in Threads \ {t} : pc'[u] = pc[u]
  PROVE  HolderInv'
<1>1. \A u \in Threads, p \in Pages, m \in AllModes :
         HoldsIn(p, u, m)' <=> HoldsIn(p, u, m)
  BY DEF HoldsIn
<1> QED
  BY <1>1 DEF SInv, HolderInv, AllModes

LEMMA UnusedKept ==
  ASSUME SInv, alive, UNCHANGED <<alive, frames>>,
         NEW t \in Threads, pc[t] \in Holding,
         \A p \in Pages \ {page[t]} : state'[p] = state[p]
  PROVE  UnusedInv'
<1>1. page[t] \in frames
  BY DEF SInv, IInv, PinInv, NoDanglingFrame, Referencing, Holding, UnfixLabels
<1> QED
  BY <1>1 DEF SInv, UnusedInv

LEMMA GetDataSimulated ==
  ASSUME SInv, alive, NEW t \in Threads, GetData(t)
  PROVE  Simulated
<1> USE DEF At, Goto
<1>1. /\ pc[t] = "fixed" /\ UNCHANGED <<mapVars, lruVars, frameVars, callVars>>
      /\ pc' = [pc EXCEPT ![t] = IF state[page[t]] = "New" THEN "malloc" ELSE "return"]
      /\ pc \in [Threads -> Labels]
  BY DEF GetData, SInv, IInv, TypeOK
<1>2. HolderInv'
  BY <1>1, HoldersKept DEF Holding, HoldLabels, frameVars, callVars
<1>3. LoadInv'
  BY <1>1 DEF SInv, LoadInv, Dirty, frameVars, callVars
<1>4. UnusedInv'
  BY <1>1, UnusedKept DEF Holding, HoldLabels, frameVars, mapVars
<1>5. Store' = Store
  BY <1>1 DEF Store, Dirty, Changing, frameVars, callVars
<1> QED
  BY <1>1, <1>2, <1>3, <1>4, <1>5, Unseen DEF Simulated, frameVars

LEMMA ReturnDataSimulated ==
  ASSUME SInv, alive, NEW t \in Threads, ReturnData(t)
  PROVE  Simulated
<1> USE DEF At, Goto
<1>1. /\ pc[t] = "return" /\ UNCHANGED <<mapVars, lruVars, frameVars, page, mode, victim>>
      /\ pc' = [pc EXCEPT ![t] = "ready"] /\ ptr' = [ptr EXCEPT ![t] = data[page[t]]]
      /\ pc \in [Threads -> Labels] /\ ptr \in [Threads -> Buffers \cup {None}]
  BY DEF ReturnData, SInv, IInv, TypeOK
<1>2. HolderInv'
  BY <1>1, HoldersKept DEF Holding, HoldLabels, frameVars
<1>3. LoadInv'
  BY <1>1 DEF SInv, LoadInv, Dirty, frameVars
<1>4. UnusedInv'
  BY <1>1, UnusedKept DEF Holding, HoldLabels, frameVars, mapVars
<1>5. Store' = Store
  BY <1>1 DEF Store, Dirty, Changing, frameVars
<1> QED
  BY <1>1, <1>2, <1>3, <1>4, <1>5, Unseen DEF Simulated, frameVars

\* malloc points the frame to another buffer, but not a dirty frame, and not
\* one that somebody else holds exclusively.
LEMMA MallocSimulated ==
  ASSUME SInv, alive, NEW t \in Threads, Malloc(t)
  PROVE  Simulated
<1> USE DEF At, Goto
<1>1. /\ pc[t] = "malloc" /\ UNCHANGED <<mapVars, lruVars, callVars>>
      /\ pc' = [pc EXCEPT ![t] = "pread"]
      /\ data' = [data EXCEPT ![page[t]] = t] /\ UNCHANGED <<state, buf, rwlock, disk>>
      /\ pc \in [Threads -> Labels] /\ data \in [Pages -> Buffers \cup {None}]
      /\ page[t] \in Pages /\ ~Dirty(page[t])
  BY DEF Malloc, MallocData, SInv, IInv, TypeOK, FrameTypeOK, PinInv, CallInv,
         LoadInv
<1>2. HolderInv'
  BY <1>1, HoldersKept DEF Holding, HoldLabels, callVars
<1>3. ASSUME NEW u \in Threads \ {t}, page[u] = page[t], pc[u] \in Holding
      PROVE  mode[u] # "exclusive"
  BY <1>1, <1>3, Alone DEF Holding, HoldLabels
<1>4. LoadInv'
  BY <1>1, <1>3 DEF SInv, LoadInv, Dirty, callVars, Holding, HoldLabels
<1>5. UnusedInv'
  BY <1>1, UnusedKept DEF Holding, HoldLabels, mapVars
<1>6. ~Changing(page[t]) /\ \A p \in Pages : Changing(p)' <=> Changing(p)
  BY <1>1, <1>3 DEF Changing, SInv, LoadInv, Holding, HoldLabels, callVars
<1>7. Store' = Store
  BY <1>1, <1>6 DEF Store, Dirty
<1> QED
  BY <1>1, <1>2, <1>4, <1>5, <1>7, Unseen DEF Simulated

LEMMA PReadSimulated ==
  ASSUME SInv, alive, NEW t \in Threads, PRead(t)
  PROVE  Simulated
<1> USE DEF At, Goto
<1>1. /\ pc[t] = "pread" /\ UNCHANGED <<mapVars, lruVars, callVars>>
      /\ pc' = [pc EXCEPT ![t] = "clean"]
      /\ \A p \in Pages \ {page[t]} : buf'[p] = buf[p]
      /\ UNCHANGED <<state, data, rwlock, disk>>
      /\ pc \in [Threads -> Labels] /\ page[t] \in Pages /\ ~Dirty(page[t])
  BY DEF PRead, PReadData, SInv, IInv, TypeOK, FrameTypeOK, PinInv, CallInv,
         LoadInv
<1>2. HolderInv'
  BY <1>1, HoldersKept DEF Holding, HoldLabels, callVars
<1>3. ASSUME NEW u \in Threads \ {t}, page[u] = page[t], pc[u] \in Holding
      PROVE  mode[u] # "exclusive"
  BY <1>1, <1>3, Alone DEF Holding, HoldLabels
<1>4. LoadInv'
  BY <1>1 DEF SInv, LoadInv, Dirty, callVars
<1>5. UnusedInv'
  BY <1>1, UnusedKept DEF Holding, HoldLabels, mapVars
<1>6. ~Changing(page[t]) /\ \A p \in Pages : Changing(p)' <=> Changing(p)
  BY <1>1, <1>3 DEF Changing, SInv, LoadInv, Holding, HoldLabels, callVars
<1>7. Store' = Store
  BY <1>1, <1>6 DEF Store, Dirty
<1> QED
  BY <1>1, <1>2, <1>4, <1>5, <1>7, Unseen DEF Simulated

LEMMA SetCleanSimulated ==
  ASSUME SInv, alive, NEW t \in Threads, SetClean(t)
  PROVE  Simulated
<1> USE DEF At, Goto
<1>1. /\ pc[t] = "clean" /\ UNCHANGED <<mapVars, lruVars, callVars>>
      /\ pc' = [pc EXCEPT ![t] = "return"]
      /\ state' = [state EXCEPT ![page[t]] = "Clean"]
      /\ UNCHANGED <<data, buf, rwlock, disk>>
      /\ pc \in [Threads -> Labels] /\ page[t] \in Pages /\ ~Dirty(page[t])
      /\ state \in [Pages -> State]
  BY DEF SetClean, MarkClean, SInv, IInv, TypeOK, FrameTypeOK, PinInv, CallInv,
         LoadInv
<1>2. HolderInv'
  BY <1>1, HoldersKept DEF Holding, HoldLabels, callVars
<1>3. \A p \in Pages : Dirty(p)' <=> Dirty(p)
  BY <1>1 DEF Dirty
<1>4. LoadInv'
  <2>1. \A u \in Threads : pc[u] # "idle" => page[u] \in Pages
    BY DEF SInv, IInv, PinInv, CallInv
  <2> QED
    BY <1>1, <1>3, <2>1 DEF SInv, LoadInv, callVars
<1>5. UnusedInv'
  BY <1>1, UnusedKept DEF Holding, HoldLabels, mapVars
<1>6. \A p \in Pages : Changing(p)' <=> Changing(p)
  BY <1>1 DEF Changing, callVars
<1>7. Store' = Store
  BY <1>1, <1>3, <1>6 DEF Store
<1> QED
  BY <1>1, <1>2, <1>4, <1>5, <1>7, Unseen DEF Simulated

\* The store of an exclusive holder is what others will see of the page.
LEMMA WritePageSimulated ==
  ASSUME SInv, alive, NEW t \in Threads, NEW v \in Values, WritePage(t, v)
  PROVE  Simulated
<1> USE DEF At, Goto
<1>0. PICK p \in Pages : p = page[t]
  BY DEF WritePage, SInv, IInv, PinInv, CallInv
<1>1. /\ pc[t] = "ready" /\ mode[t] = "exclusive"
      /\ UNCHANGED <<mapVars, lruVars, callVars>>
      /\ pc' = [pc EXCEPT ![t] = "modified"] /\ pc \in [Threads -> Labels]
      /\ buf' = [buf EXCEPT ![p][data[p]] = v]
      /\ UNCHANGED <<state, data, rwlock, disk>>
  BY <1>0 DEF WritePage, WriteBuffer, SInv, IInv, TypeOK, LoadInv
<1>2. /\ p \in Pages /\ rwlock[p] = [writers |-> {t}, readers |-> {}]
      /\ \A u \in Threads \ {t} : pc[u] \in Holding => page[u] # p
  BY <1>0, <1>1, Alone DEF Holding, HoldLabels
<1>3. data[p] \in Buffers /\ buf \in [Pages -> [Buffers -> Contents]]
  <2>1. data[p] # None
    BY <1>0, <1>1 DEF SInv, IInv, PinInv, DataInv, HoldLabels
  <2> QED
    BY <1>2, <2>1 DEF SInv, IInv, TypeOK, FrameTypeOK
<1>4. HolderInv'
  BY <1>0, <1>1, HoldersKept DEF Holding, HoldLabels, callVars
<1>5. LoadInv'
  BY <1>0, <1>1 DEF SInv, LoadInv, Dirty, callVars
<1>6. UnusedInv'
  BY <1>0, <1>1, UnusedKept DEF Holding, HoldLabels, mapVars
<1>7. /\ Changing(p)'
      /\ \A q \in Pages \ {p} : Changing(q)' <=> Changing(q)
  BY <1>0, <1>1 DEF Changing, callVars
<1>8. Store' = [Store EXCEPT ![p] = v]
  <2>1. buf'[p][data[p]] = v /\ \A q \in Pages \ {p} : buf'[q] = buf[q]
    BY <1>0, <1>1, <1>2, <1>3
  <2>2. Store'[p] = v
    BY <1>0, <1>1, <1>2, <1>7, <2>1 DEF Store
  <2>3. ASSUME NEW q \in Pages \ {p} PROVE Store'[q] = Store[q]
    <3>1. data'[q] = data[q] /\ buf'[q] = buf[q] /\ disk'[q] = disk[q]
      BY <1>0, <1>1, <2>1
    <3>2. Dirty(q)' <=> Dirty(q)
      BY <1>0, <1>1 DEF Dirty
    <3> QED
      BY <1>7, <3>1, <3>2 DEF Store
  <2> QED
    BY <2>2, <2>3 DEF Store
<1>9. PageStore!Write(t, p, v)
  BY <1>0, <1>1, <1>2, <1>8 DEF PageStore!Write
<1> QED
  BY <1>2, <1>4, <1>5, <1>6, <1>9 DEF Simulated, SeenStep, PageStore!StoreNext

\* What is written is what the buffer holds, when pwrite does not fail.
LEMMA FlushSimulated ==
  ASSUME SInv, alive, "pwrite" \notin Faults, NEW t \in Threads, Flush(t)
  PROVE  Simulated
<1> USE DEF At, Goto
<1> DEFINE p == page[t]
<1>1. /\ pc[t] = "modified" /\ mode[t] = "exclusive"
      /\ UNCHANGED <<mapVars, lruVars, callVars>>
      /\ pc' = [pc EXCEPT ![t] = "flushed"] /\ pc \in [Threads -> Labels]
      /\ disk' = Written({q \in {p} : Dirty(q)}, {})
      /\ state' = [state EXCEPT ![p] = IF Dirty(p) THEN "Clean" ELSE @]
      /\ UNCHANGED <<data, buf, rwlock>>
      /\ state \in [Pages -> State] /\ disk \in [Pages -> Contents]
  BY DEF Flush, FlushFrame, WriteFailures, SInv, IInv, TypeOK, FrameTypeOK,
         LoadInv
<1>2. /\ p \in Pages
      /\ \A u \in Threads \ {t} : pc[u] \in Holding => page[u] # p
  BY <1>1, Alone DEF Holding, HoldLabels
<1>3. HolderInv'
  BY <1>1, HoldersKept DEF Holding, HoldLabels, callVars
<1>4. LoadInv'
  BY <1>1, <1>2 DEF SInv, LoadInv, Dirty, callVars, Holding, HoldLabels
<1>5. UnusedInv'
  BY <1>1, UnusedKept DEF Holding, HoldLabels, mapVars
<1>6. Changing(p) /\ \A q \in Pages : Changing(q)' <=> Changing(q)
  BY <1>1 DEF Changing, callVars
<1>7. Store' = Store
  <2>1. ASSUME NEW q \in Pages \ {p}
        PROVE  disk'[q] = disk[q] /\ (Dirty(q)' <=> Dirty(q))
    BY <1>1 DEF Written, Dirty
  <2> QED
    BY <1>1, <1>6, <2>1 DEF Store
<1> QED
  BY <1>1, <1>3, <1>4, <1>5, <1>7, Unseen DEF Simulated

LEMMA UnfixDirtySimulated ==
  ASSUME SInv, alive, NEW t \in Threads, UnfixDirty(t)
  PROVE  Simulated
<1> USE DEF At, Goto
<1> DEFINE p == page[t]
<1>1. /\ pc[t] \in {"modified", "flushed"} /\ mode[t] = "exclusive"
      /\ UNCHANGED <<mapVars, lruVars, page, mode, victim>>
      /\ pc' = [pc EXCEPT ![t] = "unlock"] /\ pc \in [Threads -> Labels]
      /\ ptr' = [ptr EXCEPT ![t] = None] /\ ptr \in [Threads -> Buffers \cup {None}]
      /\ state' = [state EXCEPT ![p] = "Dirty"] /\ state \in [Pages -> State]
      /\ UNCHANGED <<data, buf, rwlock, disk>>
  BY DEF UnfixDirty, MarkDirty, SInv, IInv, TypeOK, FrameTypeOK, LoadInv
<1>2. /\ p \in Pages
      /\ \A u \in Threads \ {t} : pc[u] \in Holding => page[u] # p
  BY <1>1, Alone DEF Holding, HoldLabels
<1>3. HolderInv'
  BY <1>1, HoldersKept DEF Holding, HoldLabels
<1>4. LoadInv'
  BY <1>1, <1>2 DEF SInv, LoadInv, Dirty, Holding, HoldLabels
<1>5. UnusedInv'
  BY <1>1, UnusedKept DEF Holding, HoldLabels, mapVars
<1>6. Changing(p) /\ \A q \in Pages \ {p} : Changing(q)' <=> Changing(q)
  BY <1>1 DEF Changing
<1>7. Store' = Store
  <2>1. Dirty(p)' /\ \A q \in Pages \ {p} : Dirty(q)' <=> Dirty(q)
    BY <1>1, <1>2 DEF Dirty
  <2> QED
    BY <1>1, <1>6, <2>1 DEF Store
<1> QED
  BY <1>1, <1>3, <1>4, <1>5, <1>7, Unseen DEF Simulated

LEMMA UnfixCleanSimulated ==
  ASSUME SInv, alive, NEW t \in Threads, UnfixClean(t)
  PROVE  Simulated
<1> USE DEF At, Goto
<1>1. /\ pc[t] = "ready" /\ UNCHANGED <<mapVars, lruVars, frameVars, page, mode, victim>>
      /\ pc' = [pc EXCEPT ![t] = "unlock"] /\ ptr' = [ptr EXCEPT ![t] = None]
      /\ pc \in [Threads -> Labels] /\ ptr \in [Threads -> Buffers \cup {None}]
  BY DEF UnfixClean, SInv, IInv, TypeOK
<1>2. HolderInv'
  BY <1>1, HoldersKept DEF Holding, HoldLabels, frameVars
<1>3. LoadInv'
  BY <1>1 DEF SInv, LoadInv, Dirty, frameVars
<1>4. UnusedInv'
  BY <1>1, UnusedKept DEF Holding, HoldLabels, frameVars, mapVars
<1>5. Store' = Store
  BY <1>1 DEF Store, Dirty, Changing, frameVars
<1> QED
  BY <1>1, <1>2, <1>3, <1>4, <1>5, Unseen DEF Simulated, frameVars

-----------------------------------------------------------------------------
(***************************************************************************)
(* The steps that change the frames' locks: two take and give back a lock, *)
(* the others free or create frames nobody has a pointer to.               *)
(***************************************************************************)
LEMMA LockSimulated ==
  ASSUME SInv, alive, NEW t \in Threads, Lock(t)
  PROVE  Simulated
<1> USE DEF At, Goto
<1>0. PICK p \in Pages : p = page[t]
  BY DEF Lock, SInv, IInv, PinInv, CallInv
<1> DEFINE l == rwlock[p]
<1>1. /\ pc[t] = "lock" /\ UNCHANGED <<mapVars, lruVars, callVars>>
      /\ pc' = [pc EXCEPT ![t] = "fixed"] /\ pc \in [Threads -> Labels]
      /\ CanLockFrame(p, t, mode[t])
      /\ rwlock' = [rwlock EXCEPT ![p] = IF mode[t] = "exclusive"
                                         THEN WrLocked(l, t) ELSE RdLocked(l, t)]
      /\ UNCHANGED <<state, data, buf, disk>>
      /\ p \in Pages /\ mode[t] \in AllModes
      /\ rwlock \in [Pages -> LockRecords(Threads)]
  BY <1>0 DEF Lock, LockFrame, SInv, IInv, TypeOK, FrameTypeOK, PinInv, CallInv
<1>2. \A q \in Pages : t \notin rwlock[q].writers \cup rwlock[q].readers
  BY <1>0, <1>1 DEF SInv, HolderInv, HoldsIn, Holding, HoldLabels
<1>3. /\ l.writers = {} /\ (mode[t] = "exclusive" => l.readers = {})
      /\ rwlock'[p] = IF mode[t] = "exclusive" THEN [l EXCEPT !.writers = {t}]
                                               ELSE [l EXCEPT !.readers = @ \cup {t}]
      /\ l \in LockRecords(Threads)
  <2>1. l \in LockRecords(Threads) /\ t \notin l.writers
    BY <1>0, <1>1, <1>2
  <2>2. CASE mode[t] = "exclusive"
    <3>1. l = Free
      BY <1>0, <1>1, <2>1, <2>2 DEF CanLockFrame, CanWrLock
    <3> QED
      BY <1>0, <1>1, <2>1, <2>2, <3>1 DEF WrLocked, Free
  <2>3. CASE mode[t] # "exclusive"
    BY <1>0, <1>1, <2>1, <2>3 DEF CanLockFrame, CanRdLock, RdLocked, LockRecords
  <2> QED
    BY <2>2, <2>3
<1>4. HolderInv'
  <2> SUFFICES ASSUME NEW q \in Pages, NEW u \in Threads
               PROVE  /\ Exclusive(rwlock'[q])
                      /\ u \in rwlock'[q].writers <=> HoldsIn(q, u, "exclusive")'
                      /\ u \in rwlock'[q].readers <=> HoldsIn(q, u, "shared")'
    BY DEF HolderInv
  <2>1. CASE q # p
    <3>1. rwlock'[q] = rwlock[q]
      BY <1>0, <1>1, <2>1
    <3>2. \A m \in AllModes : HoldsIn(q, u, m)' <=> HoldsIn(q, u, m)
      BY <1>0, <1>1, <2>1 DEF HoldsIn, callVars
    <3> QED
      BY <3>1, <3>2 DEF SInv, HolderInv, AllModes
  <2>2. CASE q = p /\ u = t
    BY <1>0, <1>1, <1>3, <2>2
       DEF HoldsIn, Holding, HoldLabels, callVars, LockRecords, Exclusive,
           AllModes
  <2>3. CASE q = p /\ u # t
    <3>1. \A m \in AllModes : HoldsIn(q, u, m)' <=> HoldsIn(q, u, m)
      BY <1>0, <1>1, <2>3 DEF HoldsIn, callVars
    <3>2. /\ u \in rwlock'[q].writers <=> u \in rwlock[q].writers
          /\ u \in rwlock'[q].readers <=> u \in rwlock[q].readers
          /\ Exclusive(rwlock'[q])
      BY <1>0, <1>1, <1>3, <2>3 DEF LockRecords, Exclusive
    <3> QED
      BY <3>1, <3>2 DEF SInv, HolderInv, AllModes
  <2> QED
    BY <2>1, <2>2, <2>3
<1>5. LoadInv'
  BY <1>0, <1>1 DEF SInv, LoadInv, Dirty, callVars
<1>6. UnusedInv'
  BY <1>0, <1>1 DEF SInv, UnusedInv, mapVars
<1>7. Store' = Store
  BY <1>0, <1>1 DEF Store, Dirty, Changing, callVars
<1>8. PageStore!AcquireExclusive(t, p) \/ PageStore!AcquireShared(t, p)
  BY <1>0, <1>1, <1>3, <1>7
     DEF PageStore!AcquireExclusive, PageStore!AcquireShared, LockRecords
<1>9. SeenStep
  BY <1>8 DEF SeenStep, PageStore!StoreNext
<1> QED
  BY <1>4, <1>5, <1>6, <1>9 DEF Simulated

LEMMA UnlockSimulated ==
  ASSUME SInv, alive, NEW t \in Threads, Unlock(t)
  PROVE  Simulated
<1> USE DEF At, Goto
<1>0. PICK p \in Pages : p = page[t]
  BY DEF Unlock, SInv, IInv, PinInv, CallInv
<1> DEFINE l == rwlock[p]
<1>1. /\ pc[t] = "unlock" /\ UNCHANGED <<mapVars, lruVars, callVars>>
      /\ pc' = [pc EXCEPT ![t] = "put"] /\ pc \in [Threads -> Labels]
      /\ rwlock' = [rwlock EXCEPT ![p] = Unlocked(l, t)]
      /\ UNCHANGED <<state, data, buf, disk>>
      /\ p \in Pages /\ mode[t] \in AllModes
      /\ rwlock \in [Pages -> LockRecords(Threads)]
  BY <1>0 DEF Unlock, UnlockFrame, SInv, IInv, TypeOK, FrameTypeOK, PinInv, CallInv
<1>2. t \in l.writers \cup l.readers
  BY <1>0, <1>1 DEF SInv, HolderInv, HoldsIn, Holding, AllModes
<1>3. rwlock'[p].writers = l.writers \ {t} /\ rwlock'[p].readers = l.readers \ {t}
  BY <1>0, <1>1 DEF Unlocked
<1>4. HolderInv'
  <2> SUFFICES ASSUME NEW q \in Pages, NEW u \in Threads
               PROVE  /\ Exclusive(rwlock'[q])
                      /\ u \in rwlock'[q].writers <=> HoldsIn(q, u, "exclusive")'
                      /\ u \in rwlock'[q].readers <=> HoldsIn(q, u, "shared")'
    BY DEF HolderInv
  <2>1. CASE q # p
    <3>1. rwlock'[q] = rwlock[q]
      BY <1>0, <1>1, <2>1
    <3>2. \A m \in AllModes : HoldsIn(q, u, m)' <=> HoldsIn(q, u, m)
      BY <1>0, <1>1, <2>1 DEF HoldsIn, callVars
    <3> QED
      BY <3>1, <3>2 DEF SInv, HolderInv, AllModes
  <2>2. Exclusive(rwlock'[p])
    BY <1>0, <1>1, <1>3 DEF SInv, HolderInv, Exclusive
  <2>3. CASE q = p /\ u = t
    BY <1>0, <1>1, <1>3, <2>2, <2>3 DEF HoldsIn, Holding, HoldLabels
  <2>4. CASE q = p /\ u # t
    <3>1. \A m \in AllModes : HoldsIn(q, u, m)' <=> HoldsIn(q, u, m)
      BY <1>0, <1>1, <2>4 DEF HoldsIn, callVars
    <3>2. /\ u \in rwlock'[q].writers <=> u \in rwlock[q].writers
          /\ u \in rwlock'[q].readers <=> u \in rwlock[q].readers
      BY <1>0, <1>1, <1>3, <2>4
    <3> QED
      BY <2>2, <2>4, <3>1, <3>2 DEF SInv, HolderInv, AllModes
  <2> QED
    BY <2>1, <2>3, <2>4
<1>5. LoadInv'
  BY <1>0, <1>1 DEF SInv, LoadInv, Dirty, callVars
<1>6. UnusedInv'
  BY <1>0, <1>1 DEF SInv, UnusedInv, mapVars
<1>7. Store' = Store
  BY <1>0, <1>1 DEF Store, Dirty, Changing, callVars
<1>8. PageStore!Release(t, p)
  BY <1>0, <1>1, <1>2, <1>3, <1>7 DEF PageStore!Release
<1>9. SeenStep
  BY <1>8 DEF SeenStep, PageStore!StoreNext
<1> QED
  BY <1>4, <1>5, <1>6, <1>9 DEF Simulated

(***************************************************************************)
(* Destructors of frames nobody has a pointer to: what they leave in the   *)
(* file is the page as it stood, and their locks were free.                *)
(***************************************************************************)
LEMMA DestructUnseen ==
  ASSUME SInv, "pwrite" \notin Faults, NEW P \in SUBSET Pages, DestructFrames(P),
         \A p \in P : References(p) = {},
         \A p \in Pages : Changing(p)' <=> Changing(p)
  PROVE  /\ Store' = Store /\ rwlock' = rwlock
         /\ state' = [p \in Pages |-> IF p \in P THEN "New" ELSE state[p]]
         /\ \A p \in Pages \ P : data'[p] = data[p] /\ buf'[p] = buf[p]
<1>1. /\ disk' = Written({p \in P : Dirty(p)}, {})
      /\ state' = [p \in Pages |-> IF p \in P THEN "New" ELSE state[p]]
      /\ data' = [p \in Pages |-> IF p \in P THEN None ELSE data[p]]
      /\ buf' = [p \in Pages |-> IF p \in P THEN [b \in Buffers |-> Garbage]
                                            ELSE buf[p]]
      /\ rwlock' = [p \in Pages |-> IF p \in P THEN Free ELSE rwlock[p]]
  BY DEF DestructFrames, WriteFailures
<1>2. \A p \in P : rwlock[p] = Free /\ ~Changing(p)
  BY UnreferencedIsUnlocked
<1>3. rwlock' = rwlock
  BY <1>1, <1>2 DEF SInv, IInv, TypeOK, FrameTypeOK
<1>4. \A p \in Pages : disk'[p] = IF p \in P /\ Dirty(p) THEN buf[p][data[p]]
                                                         ELSE disk[p]
  BY <1>1 DEF Written
<1>5. ASSUME NEW p \in Pages PROVE Store'[p] = Store[p]
  <2>1. CASE p \in P
    <3>1. ~Dirty(p)' /\ ~Changing(p)'
      BY <1>1, <1>2, <2>1 DEF Dirty
    <3> QED
      BY <1>2, <1>4, <2>1, <3>1 DEF Store
  <2>2. CASE p \notin P
    <3>1. /\ Dirty(p)' <=> Dirty(p)
          /\ disk'[p] = disk[p] /\ data'[p] = data[p] /\ buf'[p] = buf[p]
      BY <1>1, <1>4, <2>2 DEF Dirty
    <3> QED
      BY <3>1 DEF Store
  <2> QED
    BY <2>1, <2>2
<1>6. Store' = Store
  BY <1>5 DEF Store
<1> QED
  BY <1>1, <1>3, <1>6

LEMMA EraseSimulated ==
  ASSUME SInv, alive, "pwrite" \notin Faults, NEW t \in Threads, Erase(t)
  PROVE  Simulated
<1> USE DEF At, Goto
<1>0. PICK v \in Pages : v = victim[t]
  BY DEF Erase, SInv, IInv, TypeOK, PinInv, CallInv
<1>1. /\ pc[t] = "erase" /\ pc' = [pc EXCEPT ![t] = "open"]
      /\ pc \in [Threads -> Labels]
      /\ frames' = frames \ {v} /\ DestructFrames({v})
      /\ UNCHANGED <<alive, latch, segments, lruVars, page, mode, ptr>>
  BY <1>0 DEF Erase, SInv, IInv, TypeOK
<1>2. References(v) = {}
  <2>1. users[v] = 0
    BY <1>0, <1>1 DEF SInv, IInv, PinInv, CallInv
  <2> QED
    BY <2>1, ReferencesFinite DEF SInv, IInv, PinInv, PinAccounting, UsersCounted
<1>3. \A p \in Pages : Changing(p)' <=> Changing(p)
  BY <1>1 DEF Changing
<1>4. /\ Store' = Store /\ rwlock' = rwlock
      /\ state' = [p \in Pages |-> IF p \in {v} THEN "New" ELSE state[p]]
      /\ \A p \in Pages \ {v} : data'[p] = data[p] /\ buf'[p] = buf[p]
  BY <1>1, <1>2, <1>3, DestructUnseen
<1>5. HolderInv'
  <2>1. \A u \in Threads, p \in Pages, m \in AllModes :
           HoldsIn(p, u, m)' <=> HoldsIn(p, u, m)
    BY <1>1 DEF HoldsIn, Holding, HoldLabels
  <2> QED
    BY <1>4, <2>1 DEF SInv, HolderInv, AllModes
<1>6. LoadInv'
  <2> SUFFICES ASSUME NEW u \in Threads, pc'[u] \in HoldLabels
               PROVE  /\ u # t /\ pc[u] = pc'[u] /\ page'[u] = page[u]
                      /\ mode'[u] = mode[u] /\ ptr'[u] = ptr[u]
                      /\ state'[page[u]] = state[page[u]]
                      /\ data'[page[u]] = data[page[u]]
    BY DEF SInv, LoadInv, Dirty, HoldLabels
  <2>1. u # t /\ pc[u] = pc'[u]
    BY <1>1 DEF HoldLabels
  <2>2. page[u] \in Pages /\ page[u] # v
    BY <1>2, <2>1
       DEF References, Referencing, HoldLabels, SInv, IInv, PinInv, CallInv
  <2> QED
    BY <1>1, <1>4, <2>1, <2>2
<1>7. UnusedInv'
  BY <1>1, <1>4 DEF SInv, UnusedInv
<1> QED
  BY <1>4, <1>5, <1>6, <1>7, Unseen DEF Simulated

\* A page whose frame is new had none, so that nothing of it is lost.
LEMMA EmplaceSimulated ==
  ASSUME SInv, alive, NEW t \in Threads, Emplace(t)
  PROVE  Simulated
<1> USE DEF At, Goto
<1>0. PICK p \in Pages : p = page[t] /\ p \notin frames
  BY DEF Emplace, SInv, IInv, PinInv, CallInv
<1>1. /\ pc[t] = "emplace" /\ pc' = [pc EXCEPT ![t] = "unlatch"]
      /\ pc \in [Threads -> Labels]
      /\ frames' = frames \cup {p}
      /\ state' = [state EXCEPT ![p] = "New"] /\ state \in [Pages -> State]
      /\ data' = [data EXCEPT ![p] = None]
      /\ rwlock' = [rwlock EXCEPT ![p] = Free]
      /\ rwlock \in [Pages -> LockRecords(Threads)]
      /\ UNCHANGED <<buf, disk, alive, latch, segments, callVars>>
  BY <1>0 DEF Emplace, ConstructFrame, SInv, IInv, TypeOK, FrameTypeOK
<1>2. References(p) = {}
  BY <1>0 DEF References, SInv, IInv, PinInv, NoDanglingFrame
<1>3. rwlock' = rwlock /\ state' = state /\ ~Changing(p)
  <2>1. rwlock[p] = Free /\ ~Changing(p)
    BY <1>2, UnreferencedIsUnlocked
  <2>2. state[p] = "New"
    BY <1>0 DEF SInv, UnusedInv
  <2> QED
    BY <1>1, <2>1, <2>2
<1>4. \A q \in Pages : Changing(q)' <=> Changing(q)
  BY <1>1 DEF Changing, callVars
<1>5. Store' = Store
  <2>1. state[p] = "New" /\ \A q \in Pages \ {p} : data'[q] = data[q]
    BY <1>0, <1>1 DEF SInv, UnusedInv
  <2>2. \A q \in Pages : Dirty(q)' <=> Dirty(q)
    BY <1>3 DEF Dirty
  <2>3. ASSUME NEW q \in Pages PROVE Store'[q] = Store[q]
    <3>1. CASE q = p
      <4>1. ~Dirty(q) /\ ~Changing(q)
        BY <1>3, <2>1, <3>1 DEF Dirty
      <4> QED
        BY <1>1, <1>4, <2>2, <4>1 DEF Store
    <3>2. CASE q # p
      BY <1>1, <1>4, <2>1, <2>2, <3>2 DEF Store
    <3> QED
      BY <3>1, <3>2
  <2> QED
    BY <2>3 DEF Store
<1>6. HolderInv'
  <2>1. \A u \in Threads, q \in Pages, m \in AllModes :
           HoldsIn(q, u, m)' <=> HoldsIn(q, u, m)
    BY <1>1 DEF HoldsIn, Holding, HoldLabels, callVars
  <2> QED
    BY <1>3, <2>1 DEF SInv, HolderInv, AllModes
<1>7. LoadInv'
  <2> SUFFICES ASSUME NEW u \in Threads, pc'[u] \in HoldLabels
               PROVE  /\ pc[u] = pc'[u] /\ data'[page[u]] = data[page[u]]
    BY <1>1, <1>3 DEF SInv, LoadInv, Dirty, HoldLabels, callVars
  <2>1. u # t /\ pc[u] = pc'[u]
    BY <1>1 DEF HoldLabels
  <2>2. page[u] \in Pages /\ page[u] # p
    BY <1>2, <2>1
       DEF References, Referencing, HoldLabels, SInv, IInv, PinInv, CallInv
  <2> QED
    BY <1>1, <2>1, <2>2 DEF SInv, IInv, TypeOK, FrameTypeOK
<1>8. UnusedInv'
  BY <1>1, <1>3 DEF SInv, UnusedInv
<1> QED
  BY <1>3, <1>5, <1>6, <1>7, <1>8, Unseen DEF Simulated

\* The threads have been joined: no frame is locked.
LEMMA DestroySimulated ==
  ASSUME SInv, JoinFirst, "pwrite" \notin Faults, Destroy
  PROVE  Simulated
<1> USE DEF At
<1>1. /\ alive /\ Joined /\ alive' = FALSE /\ frames' = {}
      /\ DestructFrames(frames) /\ UNCHANGED <<latch, pc, callVars>>
      /\ frames \in SUBSET Pages
  BY DEF Destroy, SInv, IInv, TypeOK
<1>2. \A p \in frames : References(p) = {}
  BY <1>1 DEF References, Referencing, HoldLabels, UnfixLabels, Joined
<1>3. \A p \in Pages : Changing(p)' <=> Changing(p)
  BY <1>1 DEF Changing, callVars
<1>4. Store' = Store /\ rwlock' = rwlock
  BY <1>1, <1>2, <1>3, DestructUnseen
<1>5. HolderInv'
  <2>1. \A u \in Threads, p \in Pages, m \in AllModes :
           HoldsIn(p, u, m)' <=> HoldsIn(p, u, m)
    BY <1>1 DEF HoldsIn, callVars
  <2> QED
    BY <1>4, <2>1 DEF SInv, HolderInv, AllModes
<1>6. LoadInv'
  BY <1>1 DEF LoadInv, Joined
<1>7. UnusedInv'
  <2>1. state' = [p \in Pages |-> IF p \in frames THEN "New" ELSE state[p]]
    BY <1>1 DEF DestructFrames
  <2> QED
    BY <1>1, <2>1 DEF SInv, UnusedInv, Joined
<1> QED
  BY <1>4, <1>5, <1>6, <1>7, Unseen DEF Simulated

LEMMA CreateSimulated ==
  ASSUME SInv, Create
  PROVE  Simulated
<1> USE DEF At
<1>1. /\ ~alive /\ Joined /\ alive' = TRUE
      /\ UNCHANGED <<latch, frames, segments, lruVars, frameVars, pc, callVars>>
  BY DEF Create
<1>2. HolderInv' /\ LoadInv'
  BY <1>1
     DEF SInv, HolderInv, HoldsIn, LoadInv, Dirty, frameVars, callVars
<1>3. UnusedInv'
  BY <1>1 DEF SInv, UnusedInv, frameVars
<1>4. Store' = Store
  BY <1>1 DEF Store, Dirty, Changing, frameVars, callVars
<1> QED
  BY <1>1, <1>2, <1>3, <1>4, Unseen DEF Simulated, frameVars

LEMMA StutterSimulated ==
  ASSUME SInv, UNCHANGED vars
  PROVE  Simulated
<1>1. /\ UNCHANGED <<alive, frames, frameVars, pc, callVars>>
  BY DEF vars, mapVars
<1>2. HolderInv' /\ LoadInv'
  BY <1>1 DEF SInv, HolderInv, HoldsIn, LoadInv, Dirty, frameVars, callVars
<1>3. UnusedInv'
  BY <1>1 DEF SInv, UnusedInv, Joined, At, frameVars
<1>4. Store' = Store
  BY <1>1 DEF Store, Dirty, Changing, frameVars, callVars
<1> QED
  BY <1>1, <1>2, <1>3, <1>4, Unseen DEF Simulated, frameVars

LEMMA InitSimulated ==
  ASSUME Init
  PROVE  SInv /\ PageStore!StoreInit
<1>1. HolderInv /\ LoadInv /\ UnusedInv
  BY DEF Init, FrameInit, HolderInv, HoldsIn, Holding, HoldLabels, Exclusive,
         Free, LoadInv, UnusedInv
<1>2. PageStore!StoreInit
  BY DEF Init, FrameInit, PageStore!StoreInit, Store, Dirty, Changing, Free
<1> QED
  BY <1>1, <1>2, InitInv DEF SInv

LEMMA NextSimulated ==
  ASSUME SInv, JoinFirst, "pwrite" \notin Faults, [Next]_vars
  PROVE  SInv' /\ SeenStep
<1>1. ASSUME NEW t \in Threads, Step(t) PROVE Simulated
  <2>1. alive
    BY <1>1 DEF Step
  <2>2. CASE \/ RdLatch(t) \/ FindHit(t) \/ FindMiss(t) \/ WrLatch(t)
             \/ RefindHit(t) \/ RefindMiss(t) \/ Evict(t) \/ NoFreeFrame(t)
             \/ OpenSegment(t) \/ OpenFails(t) \/ Unlatch(t) \/ Catch(t)
             \/ PutLRU(t)
    BY <2>1, <2>2, OutsideSteps
  <2>3. CASE Erase(t) BY <2>1, <2>3, EraseSimulated
  <2>4. CASE Emplace(t) BY <2>1, <2>4, EmplaceSimulated
  <2>5. CASE Lock(t) BY <2>1, <2>5, LockSimulated
  <2>6. CASE GetData(t) BY <2>1, <2>6, GetDataSimulated
  <2>7. CASE Malloc(t) BY <2>1, <2>7, MallocSimulated
  <2>8. CASE PRead(t) BY <2>1, <2>8, PReadSimulated
  <2>9. CASE SetClean(t) BY <2>1, <2>9, SetCleanSimulated
  <2>10. CASE ReturnData(t) BY <2>1, <2>10, ReturnDataSimulated
  <2>11. CASE \E v \in Values : WritePage(t, v) BY <2>1, <2>11, WritePageSimulated
  <2>12. CASE Flush(t) BY <2>1, <2>12, FlushSimulated
  <2>13. CASE UnfixDirty(t) BY <2>1, <2>13, UnfixDirtySimulated
  <2>14. CASE UnfixClean(t) BY <2>1, <2>14, UnfixCleanSimulated
  <2>15. CASE Unlock(t) BY <2>1, <2>15, UnlockSimulated
  <2> QED
    BY <1>1, <2>2, <2>3, <2>4, <2>5, <2>6, <2>7, <2>8, <2>9, <2>10, <2>11,
       <2>12, <2>13, <2>14, <2>15 DEF Step
<1>2. ASSUME NEW t \in Threads, \E p \in Pages, m \in Modes[t] : FixPage(t, p, m)
      PROVE  Simulated
  <2>1. alive
    BY <1>2 DEF FixPage
  <2> QED
    BY <1>2, <2>1, OutsideSteps
<1>3. Simulated
  BY <1>1, <1>2, DestroySimulated, CreateSimulated, StutterSimulated DEF Next
<1> QED
  BY <1>3, NextInv DEF Simulated, SInv

(***************************************************************************)
(* Whatever is evicted, loaded again, written back or restarted, clients   *)
(* see pages that change only when an exclusive holder writes to them, and *)
(* locks that exclude.  The client program has to join its threads before  *)
(* it destroys the manager, and pwrite must not fail: the code does not    *)
(* look at its result.                                                     *)
(***************************************************************************)
THEOREM ManagerImplementsPageStore ==
  ASSUME JoinFirst, "pwrite" \notin Faults
  PROVE  Spec => ImplementsPageStore
<1>1. Init => SInv /\ PageStore!StoreInit
  BY InitSimulated
<1>2. SInv /\ [Next]_vars => SInv' /\ [PageStore!StoreNext]_(PageStore!storeVars)
  BY NextSimulated DEF SeenStep
<1> QED
  BY <1>1, <1>2, PTL DEF Spec, ImplementsPageStore, PageStore!StoreSpec

-----------------------------------------------------------------------------
(***************************************************************************)
(* What reaches the files.                                                 *)
(***************************************************************************)
\* The steps that leave the files and the dirty flags alone, or set one.
LEMMA NothingWritten ==
  ASSUME SInv, [Next]_vars,
         ~\E t \in Threads : Erase(t) \/ Flush(t), ~Destroy
  PROVE  disk' = disk /\ \A p \in Pages : Dirty(p) => Dirty(p)'
<1> DEFINE Goal == disk' = disk /\ \A p \in Pages : Dirty(p) => Dirty(p)'
<1>1. CASE UNCHANGED <<state, disk>>
  BY <1>1 DEF Dirty
<1>2. ASSUME NEW t \in Threads, Step(t) PROVE Goal
  <2>1. CASE \/ RdLatch(t) \/ FindHit(t) \/ FindMiss(t) \/ WrLatch(t)
             \/ RefindHit(t) \/ RefindMiss(t) \/ Evict(t) \/ NoFreeFrame(t)
             \/ OpenSegment(t) \/ OpenFails(t) \/ Unlatch(t) \/ Catch(t)
             \/ PutLRU(t)
    BY <1>1, <2>1
       DEF RdLatch, FindHit, FindMiss, WrLatch, RefindHit, RefindMiss, Evict,
           NoFreeFrame, OpenSegment, OpenFails, Unlatch, Catch, PutLRU,
           frameVars
  <2>2. CASE \/ Lock(t) \/ GetData(t) \/ Malloc(t) \/ PRead(t) \/ ReturnData(t)
             \/ UnfixClean(t) \/ Unlock(t) \/ \E v \in Values : WritePage(t, v)
    BY <1>1, <2>2
       DEF Lock, LockFrame, GetData, Malloc, MallocData, PRead, PReadData,
           ReturnData, UnfixClean, Unlock, UnlockFrame, WritePage, WriteBuffer,
           frameVars
  <2>3. CASE SetClean(t)
    BY <2>3 DEF SetClean, MarkClean, At, SInv, LoadInv, IInv, TypeOK,
       FrameTypeOK, Dirty
  <2>4. CASE UnfixDirty(t)
    BY <2>4 DEF UnfixDirty, MarkDirty, IInv, TypeOK, FrameTypeOK, SInv, Dirty
  <2>5. CASE Emplace(t)
    BY <2>5 DEF Emplace, ConstructFrame, IInv, TypeOK, FrameTypeOK, SInv,
       PinInv, CallInv, At, UnusedInv, Dirty
  <2> QED
    BY <1>2, <2>1, <2>2, <2>3, <2>4, <2>5 DEF Step
<1>3. ASSUME NEW t \in Threads, NEW p \in Pages, NEW m \in Modes[t], FixPage(t, p, m)
      PROVE  Goal
  BY <1>1, <1>3 DEF FixPage, frameVars
<1>4. CASE Create \/ UNCHANGED vars
  BY <1>1, <1>4 DEF Create, vars, frameVars
<1> QED
  BY <1>2, <1>3, <1>4 DEF Next

(***************************************************************************)
(* A frame stops being dirty only when its content is in the file: evicted *)
(* by fixPage, flushed by its holder or destroyed with the manager.        *)
(***************************************************************************)
THEOREM DirtyFramesReachTheFile ==
  ASSUME JoinFirst, "pwrite" \notin Faults
  PROVE  Spec => DirtyWrittenBack
<1> DEFINE Back == \A p \in Pages : Dirty(p) /\ ~Dirty(p)'
                                       => disk'[p] = buf[p][data[p]]
<1>1. Init => SInv
  BY InitSimulated
<1>2. SInv /\ [Next]_vars => SInv' /\ Back
  <2> SUFFICES ASSUME SInv, [Next]_vars PROVE Back
    BY NextSimulated
  <2>1. CASE ~(\E t \in Threads : Erase(t) \/ Flush(t)) /\ ~Destroy
    BY <2>1, NothingWritten
  <2>2. ASSUME NEW t \in Threads, Erase(t) \/ Flush(t) PROVE Back
    BY <2>2
       DEF Erase, Flush, DestructFrames, FlushFrame, WriteFailures, Written,
           Dirty, SInv, IInv, TypeOK, FrameTypeOK
  <2>3. CASE Destroy
    BY <2>3
       DEF Destroy, DestructFrames, WriteFailures, Written, Dirty
  <2> QED
    BY <2>1, <2>2, <2>3
<1> QED
  BY <1>1, <1>2, PTL DEF Spec, DirtyWrittenBack

(***************************************************************************)
(* A page that somebody is changing is written by nobody else: eviction    *)
(* takes frames without a user only, and the destructor runs alone.        *)
(***************************************************************************)
THEOREM NobodyWritesAPageInUse ==
  ASSUME JoinFirst, "pwrite" \notin Faults
  PROVE  Spec => NoEarlyWriteBack
<1> DEFINE Kept == \A p \in Pages :
                      Changing(p) => \/ disk'[p] = disk[p]
                                     \/ \E t \in Threads : page[t] = p /\ Flush(t)
<1>1. Init => SInv
  BY InitSimulated
<1>2. SInv /\ [Next]_vars => SInv' /\ Kept
  <2> SUFFICES ASSUME SInv, [Next]_vars, NEW p \in Pages, Changing(p),
                      ~\E t \in Threads : page[t] = p /\ Flush(t)
               PROVE  disk'[p] = disk[p]
    BY NextSimulated
  <2>1. CASE ~(\E t \in Threads : Erase(t) \/ Flush(t)) /\ ~Destroy
    BY <2>1, NothingWritten
  <2>2. ASSUME NEW t \in Threads, Flush(t) PROVE disk'[p] = disk[p]
    BY <2>2 DEF Flush, FlushFrame, WriteFailures, Written
  <2>3. ASSUME NEW t \in Threads, Erase(t) PROVE disk'[p] = disk[p]
    <3>1. victim[t] # p
      <4>1. References(p) # {}
        BY UnreferencedIsUnlocked
      <4>2. alive /\ users[victim[t]] = 0
        BY <2>3, <4>1 DEF Erase, At, SInv, IInv, PinInv, CallInv, UnusedInv,
           Joined, References, Referencing, HoldLabels, UnfixLabels
      <4> QED
        BY <4>1, <4>2, ReferencesFinite
           DEF SInv, IInv, PinInv, PinAccounting, UsersCounted
    <3> QED
      BY <2>3, <3>1 DEF Erase, DestructFrames, WriteFailures, Written
  <2>4. ~Destroy
    BY DEF Destroy, Joined, At, Changing
  <2> QED
    BY <2>1, <2>2, <2>3, <2>4
<1> QED
  BY <1>1, <1>2, PTL DEF Spec, NoEarlyWriteBack

-----------------------------------------------------------------------------
(***************************************************************************)
(* What getData returns, when at most one thread fixes pages shared: then  *)
(* a frame has one holder at a time, shared or not, and is loaded once.    *)
(***************************************************************************)
OneSharer == \A t, u \in Threads : "shared" \in Modes[t] \cap Modes[u] => t = u

CInv == SInv /\ ModeInv /\ LoadedInv

LEMMA Sole ==
  ASSUME OneSharer, SInv, ModeInv, NEW t \in Threads, NEW u \in Threads,
         pc[t] \in Holding, pc[u] \in Holding, page[t] = page[u]
  PROVE  t = u
<1>1. mode[t] \in Modes[t] /\ mode[u] \in Modes[u] /\ {mode[t], mode[u]} \subseteq AllModes
  BY DEF ModeInv, At, Holding, HoldLabels, SInv, IInv, TypeOK
<1>2. CASE mode[t] = "shared" /\ mode[u] = "shared"
  BY <1>1, <1>2 DEF OneSharer
<1>3. CASE mode[t] = "exclusive" \/ mode[u] = "exclusive"
  BY <1>3, Alone
<1> QED
  BY <1>1, <1>2, <1>3 DEF AllModes

\* A step keeps the way a thread that is in a call has asked for.
LEMMA ModeKept ==
  ASSUME SInv, ModeInv, [Next]_vars
  PROVE  ModeInv'
<1> SUFFICES ASSUME NEW u \in Threads, pc'[u] # "idle" PROVE mode'[u] \in Modes[u]
  BY DEF ModeInv, At
<1> USE DEF At, Goto
<1>1. /\ pc \in [Threads -> Labels] /\ mode \in [Threads -> AllModes]
      /\ pc[u] # "idle" => mode[u] \in Modes[u]
  BY DEF SInv, IInv, TypeOK, ModeInv
<1>2. ASSUME NEW t \in Threads, Step(t) PROVE mode'[u] \in Modes[u]
  <2>1. CASE Catch(t) \/ PutLRU(t)
    BY <1>1, <2>1 DEF Catch, PutLRU
  <2>2. CASE ~Catch(t) /\ ~PutLRU(t)
    <3>1. mode' = mode /\ pc[t] # "idle"
      BY <1>2, <2>2
         DEF Step, callVars, RdLatch, FindHit, FindMiss, WrLatch, RefindHit,
             RefindMiss, Evict, NoFreeFrame, Erase, OpenSegment, OpenFails,
             Emplace, Unlatch, Lock, GetData, Malloc, PRead, SetClean,
             ReturnData, WritePage, Flush, UnfixDirty, UnfixClean, Unlock
    <3>2. \A w \in Threads \ {t} : pc'[w] = pc[w]
      BY <1>1, <1>2, <2>2
         DEF Step, callVars, RdLatch, FindHit, FindMiss, WrLatch, RefindHit,
             RefindMiss, Evict, NoFreeFrame, Erase, OpenSegment, OpenFails,
             Emplace, Unlatch, Lock, GetData, Malloc, PRead, SetClean,
             ReturnData, WritePage, Flush, UnfixDirty, UnfixClean, Unlock
    <3> QED
      BY <1>1, <3>1, <3>2
  <2> QED
    BY <2>1, <2>2
<1>3. ASSUME NEW t \in Threads, NEW p \in Pages, NEW m \in Modes[t], FixPage(t, p, m)
      PROVE  mode'[u] \in Modes[u]
  BY <1>1, <1>3 DEF FixPage
<1>4. CASE Destroy \/ Create \/ UNCHANGED vars
  BY <1>1, <1>4 DEF Destroy, Create, vars, callVars
<1> QED
  BY <1>2, <1>3, <1>4 DEF Next

(***************************************************************************)
(* A step of a thread that is not at work on a frame it has locked, and    *)
(* that leaves the frames as they are or frees or creates some that nobody *)
(* has a pointer to.                                                       *)
(***************************************************************************)
AtWork == HoldLabels \ {"fixed"}

LEMMA LoadedOutside ==
  ASSUME CInv, NEW t \in Threads, NEW P \in SUBSET Pages,
         pc[t] \notin AtWork, pc'[t] \notin AtWork,
         \A u \in Threads \ {t} : /\ pc'[u] = pc[u] /\ page'[u] = page[u]
                                  /\ ptr'[u] = ptr[u],
         \A p \in P : state'[p] = "New" /\ References(p) = {},
         \A p \in Pages \ P : /\ state'[p] = state[p] /\ data'[p] = data[p]
                              /\ buf'[p] = buf[p] /\ disk'[p] = disk[p]
  PROVE  LoadedInv'
<1>1. \A p \in Pages : Changing(p)' <=> Changing(p)
  BY DEF Changing, AtWork, HoldLabels
<1>2. \A p \in Pages : CleanPage(p)'
  BY <1>1 DEF CInv, LoadedInv, CleanPage
<1>3. ASSUME NEW u \in Threads, pc'[u] \in AtWork PROVE Loading(u)'
  <2>1. u # t /\ page[u] \in Pages \ P
    BY <1>3 DEF References, Referencing, AtWork, HoldLabels, CInv, SInv, IInv,
       PinInv, CallInv, At
  <2> QED
    BY <2>1 DEF CInv, LoadedInv, Loading, At
<1>4. ASSUME NEW u \in Threads, pc'[u] \notin AtWork PROVE Loading(u)'
  BY <1>4 DEF Loading, At, AtWork, HoldLabels
<1> QED
  BY <1>2, <1>3, <1>4 DEF LoadedInv

(***************************************************************************)
(* A step of the holder of page p that changes at most the frame of p:     *)
(* what is known of other frames and of their holders stays true.          *)
(***************************************************************************)
LEMMA LoadedElsewhere ==
  ASSUME OneSharer, CInv, NEW t \in Threads, NEW p \in Pages, page[t] = p,
         pc[t] \in Holding, UNCHANGED page,
         \A u \in Threads \ {t} : pc'[u] = pc[u] /\ ptr'[u] = ptr[u],
         \A q \in Pages \ {p} : /\ state'[q] = state[q] /\ data'[q] = data[q]
                                /\ buf'[q] = buf[q] /\ disk'[q] = disk[q],
         Loading(t)', CleanPage(p)'
  PROVE  LoadedInv'
<1>1. \A q \in Pages \ {p} : Changing(q)' <=> Changing(q)
  BY DEF Changing
<1>2. ASSUME NEW q \in Pages \ {p} PROVE CleanPage(q)'
  BY <1>1 DEF CInv, LoadedInv, CleanPage
<1>3. ASSUME NEW u \in Threads \ {t} PROVE Loading(u)'
  <2>1. CASE pc[u] \in Holding
    <3>1. page[u] \in Pages \ {p}
      BY <2>1, Sole DEF CInv, SInv, IInv, PinInv, CallInv, At, Holding, HoldLabels
    <3> QED
      BY <3>1 DEF CInv, LoadedInv, Loading, At
  <2>2. CASE pc[u] \notin Holding
    BY <2>2 DEF Loading, At, Holding, HoldLabels
  <2> QED
    BY <2>1, <2>2
<1> QED
  BY <1>2, <1>3 DEF LoadedInv

LEMMA HolderLoads ==
  ASSUME OneSharer, CInv, alive, "pwrite" \notin Faults, NEW t \in Threads,
         \/ GetData(t) \/ Malloc(t) \/ PRead(t) \/ SetClean(t) \/ ReturnData(t)
         \/ \E v \in Values : WritePage(t, v)
         \/ Flush(t) \/ UnfixDirty(t) \/ UnfixClean(t)
  PROVE  LoadedInv'
<1> USE DEF At, Goto
<1>0. PICK p \in Pages : p = page[t]
  BY DEF CInv, SInv, IInv, PinInv, CallInv, GetData, Malloc, PRead, SetClean,
         ReturnData, WritePage, Flush, UnfixDirty, UnfixClean
<1>1. /\ pc \in [Threads -> Labels] /\ ptr \in [Threads -> Buffers \cup {None}]
      /\ page \in [Threads -> Pages \cup {None}]
      /\ state \in [Pages -> State] /\ data \in [Pages -> Buffers \cup {None}]
      /\ buf \in [Pages -> [Buffers -> Contents]] /\ disk \in [Pages -> Contents]
  BY DEF CInv, SInv, IInv, TypeOK, FrameTypeOK
<1>2. Loading(t) /\ CleanPage(p)
  BY DEF CInv, LoadedInv
<1>3. ASSUME pc[t] \in Holding, ~(pc[t] \in {"modified", "flushed"}) PROVE ~Changing(p)
  BY <1>0, <1>3, Sole DEF CInv, Changing, Holding, HoldLabels
<1> DEFINE Rest == /\ pc[t] \in Holding /\ UNCHANGED page
                   /\ \A u \in Threads \ {t} : pc'[u] = pc[u] /\ ptr'[u] = ptr[u]
                   /\ \A q \in Pages \ {p} : /\ state'[q] = state[q] /\ data'[q] = data[q]
                                             /\ buf'[q] = buf[q] /\ disk'[q] = disk[q]
<1>4. CASE GetData(t)
  <2>1. Rest
    BY <1>0, <1>1, <1>4 DEF GetData, frameVars, callVars, Holding, HoldLabels
  <2>2. Loading(t)' /\ CleanPage(p)'
    BY <1>0, <1>1, <1>2, <1>4
       DEF GetData, Loading, CleanPage, Changing, frameVars, callVars
  <2> QED
    BY <1>0, <2>1, <2>2, LoadedElsewhere
<1>5. CASE Malloc(t)
  <2>1. Rest
    BY <1>0, <1>1, <1>5 DEF Malloc, MallocData, callVars, Holding, HoldLabels
  <2>2. Loading(t)' /\ CleanPage(p)'
    BY <1>0, <1>1, <1>2, <1>5
       DEF Malloc, MallocData, Loading, CleanPage, callVars
  <2> QED
    BY <1>0, <2>1, <2>2, LoadedElsewhere
<1>6. CASE PRead(t)
  <2>1. Rest
    BY <1>0, <1>1, <1>6 DEF PRead, PReadData, callVars, Holding, HoldLabels
  <2>2. buf'[p][t] = disk[p] /\ data[p] = t
    BY <1>0, <1>1, <1>2, <1>6 DEF PRead, PReadData, Loading, Buffers
  <2>3. Loading(t)' /\ CleanPage(p)'
    BY <1>0, <1>1, <1>2, <1>6, <2>2
       DEF PRead, PReadData, Loading, CleanPage, callVars
  <2> QED
    BY <1>0, <2>1, <2>3, LoadedElsewhere
<1>7. CASE SetClean(t)
  <2>1. Rest
    BY <1>0, <1>1, <1>7 DEF SetClean, MarkClean, callVars, Holding, HoldLabels
  <2>2. Loading(t)' /\ CleanPage(p)'
    BY <1>0, <1>1, <1>2, <1>7
       DEF SetClean, MarkClean, Loading, CleanPage, callVars
  <2> QED
    BY <1>0, <2>1, <2>2, LoadedElsewhere
<1>8. CASE ReturnData(t)
  <2>1. Rest
    BY <1>0, <1>1, <1>8 DEF ReturnData, frameVars, Holding, HoldLabels
  <2>2. Loading(t)' /\ CleanPage(p)'
    BY <1>0, <1>1, <1>2, <1>8
       DEF ReturnData, Loading, CleanPage, Changing, frameVars
  <2> QED
    BY <1>0, <2>1, <2>2, LoadedElsewhere
<1>9. ASSUME NEW v \in Values, WritePage(t, v) PROVE LoadedInv'
  <2>1. Rest
    BY <1>0, <1>1, <1>9 DEF WritePage, WriteBuffer, callVars, Holding, HoldLabels
  <2>2. Changing(p)'
    BY <1>0, <1>1, <1>9 DEF WritePage, Changing, callVars
  <2>3. Loading(t)' /\ CleanPage(p)'
    BY <1>0, <1>1, <1>9, <2>2 DEF WritePage, Loading, CleanPage, callVars
  <2> QED
    BY <1>0, <2>1, <2>3, LoadedElsewhere
<1>10. CASE Flush(t)
  <2>1. Rest
    BY <1>0, <1>1, <1>10
       DEF Flush, FlushFrame, WriteFailures, Written, callVars, Holding,
           HoldLabels
  <2>2. Changing(p)'
    BY <1>0, <1>1, <1>10 DEF Flush, Changing, callVars
  <2>3. Loading(t)' /\ CleanPage(p)'
    BY <1>0, <1>1, <1>10, <2>2 DEF Flush, Loading, CleanPage, callVars
  <2> QED
    BY <1>0, <2>1, <2>3, LoadedElsewhere
<1>11. CASE UnfixDirty(t)
  <2>1. Rest
    BY <1>0, <1>1, <1>11 DEF UnfixDirty, MarkDirty, Holding, HoldLabels
  <2>2. Loading(t)' /\ CleanPage(p)'
    BY <1>0, <1>1, <1>11 DEF UnfixDirty, MarkDirty, Loading, CleanPage
  <2> QED
    BY <1>0, <2>1, <2>2, LoadedElsewhere
<1>12. CASE UnfixClean(t)
  <2>1. Rest
    BY <1>0, <1>1, <1>12 DEF UnfixClean, frameVars, Holding, HoldLabels
  <2>2. Loading(t)' /\ CleanPage(p)'
    BY <1>0, <1>1, <1>2, <1>3, <1>12
       DEF UnfixClean, Loading, CleanPage, frameVars, Holding, HoldLabels
  <2> QED
    BY <1>0, <2>1, <2>2, LoadedElsewhere
<1> QED
  BY <1>4, <1>5, <1>6, <1>7, <1>8, <1>9, <1>10, <1>11, <1>12

LEMMA OthersLoad ==
  ASSUME CInv, alive, "pwrite" \notin Faults, NEW t \in Threads,
         \/ RdLatch(t) \/ FindHit(t) \/ FindMiss(t) \/ WrLatch(t)
         \/ RefindHit(t) \/ RefindMiss(t) \/ Evict(t) \/ NoFreeFrame(t)
         \/ Erase(t) \/ OpenSegment(t) \/ OpenFails(t) \/ Emplace(t)
         \/ Unlatch(t) \/ Lock(t) \/ Unlock(t) \/ Catch(t) \/ PutLRU(t)
         \/ \E p \in Pages, m \in Modes[t] : FixPage(t, p, m)
  PROVE  LoadedInv'
<1> USE DEF At, Goto
<1>1. /\ pc \in [Threads -> Labels] /\ ptr \in [Threads -> Buffers \cup {None}]
      /\ page \in [Threads -> Pages \cup {None}]
  BY DEF CInv, SInv, IInv, TypeOK
<1> DEFINE Away == pc[t] \notin AtWork /\ pc'[t] \notin AtWork
           Others == \A u \in Threads \ {t} : /\ pc'[u] = pc[u] /\ page'[u] = page[u]
                                              /\ ptr'[u] = ptr[u]
           Same == UNCHANGED <<state, data, buf, disk>>
<1>6. ASSUME Away, Others, Same PROVE LoadedInv'
  <2>1. {} \in SUBSET Pages /\ Pages \ {} = Pages
    OBVIOUS
  <2> QED
    BY <1>6, <2>1, LoadedOutside
<1>2. CASE \/ RdLatch(t) \/ FindHit(t) \/ FindMiss(t) \/ WrLatch(t)
           \/ RefindHit(t) \/ RefindMiss(t) \/ Evict(t) \/ NoFreeFrame(t)
  <2>1. Away /\ Others /\ Same
    BY <1>1, <1>2
       DEF RdLatch, FindHit, FindMiss, WrLatch, RefindHit, RefindMiss, Evict,
           NoFreeFrame, frameVars, callVars, AtWork, HoldLabels
  <2> QED
    BY <1>6, <2>1
<1>3. CASE \/ OpenSegment(t) \/ OpenFails(t) \/ Unlatch(t) \/ Lock(t)
           \/ Unlock(t) \/ Catch(t) \/ PutLRU(t)
           \/ \E p \in Pages, m \in Modes[t] : FixPage(t, p, m)
  <2>1. Away /\ Others /\ Same
    BY <1>1, <1>3
       DEF OpenSegment, OpenFails, Unlatch, Lock, LockFrame, Unlock,
           UnlockFrame, Catch, PutLRU, FixPage, frameVars, callVars, AtWork,
           HoldLabels
  <2> QED
    BY <1>6, <2>1
<1>4. CASE Erase(t)
  <2>0. PICK v \in Pages : v = victim[t] /\ users[v] = 0
    BY <1>4 DEF Erase, CInv, SInv, IInv, TypeOK, PinInv, CallInv
  <2>1. Away /\ Others
    BY <1>1, <1>4 DEF Erase, AtWork, HoldLabels
  <2>2. References(v) = {}
    BY <2>0, ReferencesFinite
       DEF CInv, SInv, IInv, PinInv, PinAccounting, UsersCounted
  <2>3. state'[v] = "New"
    BY <1>4, <2>0 DEF Erase, DestructFrames
  <2>4. \A p \in Pages \ {v} : /\ state'[p] = state[p] /\ data'[p] = data[p]
                               /\ buf'[p] = buf[p] /\ disk'[p] = disk[p]
    BY <1>4, <2>0 DEF Erase, DestructFrames, WriteFailures, Written
  <2>5. {v} \in SUBSET Pages /\ \A p \in {v} : state'[p] = "New" /\ References(p) = {}
    BY <2>2, <2>3
  <2> QED
    BY <2>1, <2>4, <2>5, LoadedOutside
<1>5. CASE Emplace(t)
  <2>0. PICK p \in Pages : p = page[t] /\ p \notin frames
    BY <1>5 DEF Emplace, CInv, SInv, IInv, PinInv, CallInv
  <2>1. Away /\ Others
    BY <1>1, <1>5 DEF Emplace, callVars, AtWork, HoldLabels
  <2>2. References(p) = {}
    BY <2>0 DEF References, CInv, SInv, IInv, PinInv, NoDanglingFrame
  <2>3. /\ state'[p] = "New"
        /\ \A q \in Pages \ {p} : /\ state'[q] = state[q] /\ data'[q] = data[q]
                                  /\ buf'[q] = buf[q] /\ disk'[q] = disk[q]
    BY <1>5, <2>0 DEF Emplace, ConstructFrame, CInv, SInv, IInv, TypeOK,
       FrameTypeOK
  <2>4. {p} \in SUBSET Pages /\ \A q \in {p} : state'[q] = "New" /\ References(q) = {}
    BY <2>2, <2>3
  <2> QED
    BY <2>1, <2>3, <2>4, LoadedOutside
<1> QED
  BY <1>2, <1>3, <1>4, <1>5

LEMMA NextLoads ==
  ASSUME OneSharer, CInv, JoinFirst, "pwrite" \notin Faults, [Next]_vars
  PROVE  CInv'
<1>1. ASSUME NEW t \in Threads, Step(t) PROVE LoadedInv'
  <2>1. alive
    BY <1>1 DEF Step
  <2> QED
    BY <1>1, <2>1, HolderLoads, OthersLoad DEF Step
<1>2. ASSUME NEW t \in Threads, NEW p \in Pages, NEW m \in Modes[t], FixPage(t, p, m)
      PROVE  LoadedInv'
  BY <1>2, OthersLoad DEF FixPage
<1>3. ASSUME Destroy PROVE LoadedInv'
  <2>1. Joined /\ UNCHANGED pc /\ DestructFrames(frames)
    BY <1>3 DEF Destroy, callVars
  <2>2. \A p \in Pages : state'[p] = "New"
    BY <2>1 DEF DestructFrames, CInv, SInv, UnusedInv
  <2>3. \A p \in Pages : CleanPage(p)'
    BY <2>2 DEF CleanPage
  <2>4. \A t \in Threads : Loading(t)'
    BY <2>1 DEF Joined, At, Loading
  <2> QED
    BY <2>3, <2>4 DEF LoadedInv
<1>4. ASSUME Create \/ UNCHANGED vars PROVE LoadedInv'
  <2>1. UNCHANGED <<frameVars, pc, callVars>>
    BY <1>4 DEF Create, vars
  <2>2. \A p \in Pages : CleanPage(p)'
    BY <2>1 DEF CInv, LoadedInv, CleanPage, Changing, frameVars, callVars
  <2>3. \A t \in Threads : Loading(t)'
    BY <2>1 DEF CInv, LoadedInv, Loading, At, frameVars, callVars
  <2> QED
    BY <2>2, <2>3 DEF LoadedInv
<1> QED
  BY <1>1, <1>2, <1>3, <1>4, NextSimulated, ModeKept DEF Next, CInv

LEMMA LoadedInvariant ==
  ASSUME OneSharer, JoinFirst, "pwrite" \notin Faults
  PROVE  Spec => []CInv
<1>1. Init => CInv
  BY InitSimulated
     DEF Init, FrameInit, CInv, ModeInv, LoadedInv, CleanPage, Loading, At
<1>2. CInv /\ [Next]_vars => CInv'
  BY NextLoads
<1> QED
  BY <1>1, <1>2, PTL DEF Spec

(***************************************************************************)
(* The invariant that the proofs about the content of pages use: counts,   *)
(* queue and map agree, the holders of a frame's lock are the threads that *)
(* are at work on it, and a clean frame has what the file has.             *)
(***************************************************************************)
THEOREM StoreStaysSound ==
  ASSUME OneSharer, JoinFirst, "pwrite" \notin Faults
  PROVE  Spec => []StoreInv
<1>1. CInv => StoreInv
  BY DEF CInv, SInv, IInv, StoreInv
<1> QED
  BY <1>1, LoadedInvariant, PTL

(***************************************************************************)
(* "returns the actual data contained on the page" (BufferFrame.hpp): when *)
(* at most one thread fixes pages shared, getData hands out the page as    *)
(* the last exclusive holder left it.  Without that assumption two threads *)
(* may load the same frame, and the property fails.                        *)
(***************************************************************************)
THEOREM GetDataReturnsThePage ==
  ASSUME OneSharer, JoinFirst, "pwrite" \notin Faults
  PROVE  Spec => []ReadsActualData
<1>1. CInv => ReadsActualData
  <2> SUFFICES ASSUME CInv, NEW t \in Threads, At(t, "ready")
               PROVE  buf[page[t]][ptr[t]] = Store[page[t]]
    BY DEF ReadsActualData
  <2>0. PICK p \in Pages : p = page[t]
    BY DEF At, CInv, SInv, IInv, PinInv, CallInv
  <2>1. ptr[t] = data[p] /\ state[p] \in {"Clean", "Dirty"}
    BY <2>0 DEF CInv, LoadedInv, Loading, At, SInv, IInv, TypeOK, FrameTypeOK,
       State
  <2>2. ~Changing(p)
    BY <2>0, Sole DEF CInv, Changing, At, Holding, HoldLabels
  <2>3. state[p] = "Clean" => buf[p][data[p]] = disk[p]
    BY <2>2 DEF CInv, LoadedInv, CleanPage
  <2> QED
    BY <2>0, <2>1, <2>2, <2>3 DEF Store, Dirty
<1> QED
  BY <1>1, LoadedInvariant, PTL
=============================================================================
