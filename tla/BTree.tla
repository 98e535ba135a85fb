------------------------------- MODULE BTree --------------------------------
(***************************************************************************)
(* The B+ tree: threads that insert, erase and look up keys and couple the *)
(* locks of pages on their way down.  insert splits every full node it     *)
(* comes across, so that the parent of a node that is split has room.      *)
(*                                                                         *)
(* A step begins with the acquisition of a page's lock, if it needs one,   *)
(* and goes up to the next; what a thread does to pages it holds           *)
(* exclusively nobody sees before it unfixes them.  The pages are those of *)
(* PageStore, which BufferManager implements.  A page that is unfixed as   *)
(* clean after a change keeps the change only as long as it stays in       *)
(* memory: unsaved is the set of pages that would lose something.          *)
(***************************************************************************)
EXTENDS Integers, Sequences, FiniteSets, SequencesExt, RWLock

CONSTANTS Keys,        \* integers: the order of K is a parameter of the tree
          TIDs, NoTID,
          Threads,
          PageIDs,     \* bound on the pages of the tree
          LeafOrder,   \* entries of a leaf
          InnerOrder,  \* separators of an inner node
          Entries,     \* SUBSET (Keys \X TIDs): what the threads insert,
          Erased,      \* SUBSET Keys: erase
          LookedUp,    \* SUBSET Keys: and look up
          EraseAbsent  \* BOOLEAN: keys that are not in the tree are erased too

AllOps == {"insert", "erase", "lookup"}

ASSUME BTreeAssumption ==
    /\ Keys \subseteq Int
    /\ NoTID \notin TIDs
    /\ PageIDs = 0..(Cardinality(PageIDs) - 1)
    /\ Cardinality(PageIDs) \in Nat \ {0}
    /\ LeafOrder \in Nat /\ LeafOrder >= 2
    /\ InnerOrder \in Nat /\ InnerOrder >= 2
    /\ Entries \subseteq Keys \X TIDs
    /\ Erased \subseteq Keys
    /\ LookedUp \subseteq Keys
    /\ EraseAbsent \in BOOLEAN

VARIABLES nodes,    \* [PageIDs -> Node]
          size,     \* the pages in use, an atomic counter
          lock,     \* [PageIDs -> LockRecords(Threads)]
          unsaved,  \* SUBSET PageIDs
          call,     \* [Threads -> Call]: the locals of a call
          answer    \* [Threads -> Answers]: what the last call returned

vars == <<nodes, size, lock, unsaved, call, answer>>

-----------------------------------------------------------------------------
(* Nodes.  The arrays of a page, up to count. *)
Node == [leaf : BOOLEAN, keys : Seq(Keys), children : Seq(PageIDs), tids : Seq(TIDs)]

Leaf(ks, ts) == [leaf |-> TRUE, keys |-> ks, children |-> << >>, tids |-> ts]
Inner(ks, cs) == [leaf |-> FALSE, keys |-> ks, children |-> cs, tids |-> << >>]

Count(n) == IF n.leaf THEN Len(n.keys) ELSE Len(n.children)

\* Faulty variant: an inner node is taken to be full one child too late.
IsFull_Late(n) == Count(n) = IF n.leaf THEN LeafOrder ELSE InnerOrder + 2

IsFull(n) == Count(n) = IF n.leaf THEN LeafOrder ELSE InnerOrder + 1

\* lower_bound: the first entry whose key is not less than k, if any.
KeyIndex(n, k) == 1 + Cardinality({i \in DOMAIN n.keys : n.keys[i] < k})

Has(n, k) == KeyIndex(n, k) <= Len(n.keys) /\ n.keys[KeyIndex(n, k)] = k

\* Faulty variant: the first key that is greater, not the first not less.
Child_Upper(n, k) == n.children[1 + Cardinality({i \in DOMAIN n.keys : n.keys[i] <= k})]

Child(n, k) == n.children[KeyIndex(n, k)]

LeafInsert(n, k, v) ==
    LET i == KeyIndex(n, k)
    IN  IF Has(n, k) THEN [n EXCEPT !.tids[i] = v]
        ELSE [n EXCEPT !.keys = InsertAt(@, i, k), !.tids = InsertAt(@, i, v)]

\* Faulty variant: the new child goes before the old one.
InnerInsert_Left(n, k, c) ==
    LET i == KeyIndex(n, k)
    IN  [n EXCEPT !.keys = InsertAt(@, i, k), !.children = InsertAt(@, i, c)]

InnerInsert(n, k, c) ==
    LET i == KeyIndex(n, k)
    IN  IF Has(n, k) THEN [n EXCEPT !.children[i] = c]
        ELSE [n EXCEPT !.keys = InsertAt(@, i, k), !.children = InsertAt(@, i + 1, c)]

\* The entry at the lower bound goes, whatever its key.
LeafRemove(n, k) ==
    LET i == KeyIndex(n, k)
    IN  IF i > Len(n.keys) THEN n
        ELSE [n EXCEPT !.keys = RemoveAt(@, i), !.tids = RemoveAt(@, i)]

\* split: how many entries stay, what stays, what moves, what separates them.
Keep(n) == Count(n) - Count(n) \div 2

\* Faulty variant: the separator stays in the inner node as well.
LeftHalf_WithSeparator(n) ==
    IF n.leaf THEN Leaf(SubSeq(n.keys, 1, Keep(n)), SubSeq(n.tids, 1, Keep(n)))
              ELSE Inner(SubSeq(n.keys, 1, Keep(n)), SubSeq(n.children, 1, Keep(n)))

LeftHalf(n) ==
    IF n.leaf THEN Leaf(SubSeq(n.keys, 1, Keep(n)), SubSeq(n.tids, 1, Keep(n)))
              ELSE Inner(SubSeq(n.keys, 1, Keep(n) - 1), SubSeq(n.children, 1, Keep(n)))

RightHalf(n) ==
    LET From(s) == SubSeq(s, Keep(n) + 1, Len(s))
    IN  IF n.leaf THEN Leaf(From(n.keys), From(n.tids))
                  ELSE Inner(From(n.keys), From(n.children))

\* Faulty variant: the first key that moves, where keys <= the separator stay.
Separator_Right(n) == n.keys[IF n.leaf THEN Keep(n) + 1 ELSE Keep(n)]

Separator(n) == n.keys[Keep(n)]

-----------------------------------------------------------------------------
root == 0
NoPage == -1

Labels == {"idle", "root", "find", "insert", "separate"}

\* page, par, new: the frames bf, bfPar, bfNew.
Call == [pc : Labels, op : AllOps \cup {"none"}, key : Keys \cup {0}, tid : TIDs \cup {NoTID},
         page : PageIDs \cup {NoPage}, par : PageIDs \cup {NoPage},
         new : PageIDs \cup {NoPage}, sep : Keys \cup {0},
         bfDirty : BOOLEAN, parDirty : BOOLEAN]

Idle == [pc |-> "idle", op |-> "none", key |-> 0, tid |-> NoTID, page |-> NoPage,
         par |-> NoPage, new |-> NoPage, sep |-> 0, bfDirty |-> FALSE, parDirty |-> FALSE]

Answers == [found : BOOLEAN, tid : TIDs \cup {NoTID}]
NotFound == [found |-> FALSE, tid |-> NoTID]

\* The constructor leaves an empty leaf as the root.
Init == /\ nodes = [p \in PageIDs |-> Leaf(<< >>, << >>)]
        /\ size = 1
        /\ lock = [p \in PageIDs |-> Free]
        /\ unsaved = {}
        /\ call = [t \in Threads |-> Idle]
        /\ answer = [t \in Threads |-> NotFound]

At(t, label) == call[t].pc = label

\* fixPage(p, exclusive)
CanFix(t, p) == IF call[t].op = "lookup" THEN CanRdLock(lock[p], t)
                                         ELSE CanWrLock(lock[p], t)
Fixed(t, p) == IF call[t].op = "lookup" THEN RdLocked(lock[p], t)
                                        ELSE WrLocked(lock[p], t)

\* The locks after thread t has unfixed the pages ps.
Unfixed(l, t, ps) == [p \in PageIDs |-> IF p \in ps THEN Unlocked(l[p], t) ELSE l[p]]

\* The parent, if there is one.
Parent(t) == {call[t].par} \ {NoPage}

\* The pages t unfixes as dirty when it lets go of the parent.
DirtyParent(t) == IF call[t].parDirty THEN Parent(t) ELSE {}

-----------------------------------------------------------------------------
\* The contents of the tree: the entries of all leaves.
Leaves == {p \in 0..(size - 1) : nodes[p].leaf}

Stored == UNION {ToSet(nodes[p].keys) : p \in Leaves}

\* A call; the answer to the last one is forgotten.
Begin(t, op, k, v) ==
    /\ At(t, "idle")
    /\ call' = [call EXCEPT ![t] = [Idle EXCEPT !.pc = "root", !.op = op, !.key = k, !.tid = v]]
    /\ answer' = [answer EXCEPT ![t] = NotFound]
    /\ UNCHANGED <<nodes, size, lock, unsaved>>

Insert(t, k, v) == Begin(t, "insert", k, v)

Lookup(t, k) == Begin(t, "lookup", k, NoTID)

\* Clients erase keys they know to be in the tree and that no other thread
\* is erasing, unless EraseAbsent.
Erase(t, k) ==
    /\ ~EraseAbsent => /\ k \in Stored
                       /\ \A u \in Threads : call[u].op = "erase" => call[u].key # k
    /\ Begin(t, "erase", k, NoTID)

FixRoot(t) ==
    /\ At(t, "root")
    /\ CanFix(t, root)
    /\ lock' = [lock EXCEPT ![root] = Fixed(t, root)]
    /\ call' = [call EXCEPT ![t].pc = IF call[t].op = "insert" THEN "insert" ELSE "find",
                            ![t].page = root]
    /\ UNCHANGED <<nodes, size, unsaved, answer>>

-----------------------------------------------------------------------------
(* findLeaf, for lookup and erase. *)

\* Faulty variant: the node is unfixed before the child is fixed.
FindChild_Uncoupled(t) ==
    /\ At(t, "find")
    /\ LET p == call[t].page IN
          \/ /\ ~nodes[p].leaf /\ Holds(lock[p], t)
             /\ lock' = Unfixed(lock, t, {p})
             /\ call' = [call EXCEPT ![t].page = Child(nodes[p], call[t].key)]
          \/ /\ ~Holds(lock[p], t) /\ CanFix(t, p)
             /\ lock' = [lock EXCEPT ![p] = Fixed(t, p)]
             /\ UNCHANGED call
    /\ UNCHANGED <<nodes, size, unsaved, answer>>

FindChild(t) ==
    /\ At(t, "find")
    /\ LET p == call[t].page
           n == nodes[p]
           c == Child(n, call[t].key)
       IN  /\ ~n.leaf
           /\ CanFix(t, c)
           /\ lock' = Unfixed([lock EXCEPT ![c] = Fixed(t, c)], t, {p})
           /\ call' = [call EXCEPT ![t].page = c]
    /\ UNCHANGED <<nodes, size, unsaved, answer>>

\* Faulty variant: the leaf stays fixed when the key is not found.
LookupLeaf_Kept(t) ==
    /\ At(t, "find") /\ call[t].op = "lookup"
    /\ LET p == call[t].page
           n == nodes[p]
           k == call[t].key
       IN  /\ n.leaf
           /\ answer' = [answer EXCEPT ![t] = IF Has(n, k)
                                              THEN [found |-> TRUE, tid |-> n.tids[KeyIndex(n, k)]]
                                              ELSE NotFound]
           /\ lock' = IF Has(n, k) THEN Unfixed(lock, t, {p}) ELSE lock
    /\ call' = [call EXCEPT ![t] = Idle]
    /\ UNCHANGED <<nodes, size, unsaved>>

LookupLeaf(t) ==
    /\ At(t, "find") /\ call[t].op = "lookup"
    /\ LET p == call[t].page
           n == nodes[p]
           k == call[t].key
       IN  /\ n.leaf
           /\ answer' = [answer EXCEPT ![t] = IF Has(n, k)
                                              THEN [found |-> TRUE, tid |-> n.tids[KeyIndex(n, k)]]
                                              ELSE NotFound]
           /\ lock' = Unfixed(lock, t, {p})
    /\ call' = [call EXCEPT ![t] = Idle]
    /\ UNCHANGED <<nodes, size, unsaved>>

EraseLeaf(t) ==
    /\ At(t, "find") /\ call[t].op = "erase"
    /\ LET p == call[t].page
           n == nodes[p]
           found == KeyIndex(n, call[t].key) <= Len(n.keys)
       IN  /\ n.leaf
           /\ nodes' = [nodes EXCEPT ![p] = LeafRemove(@, call[t].key)]
           /\ answer' = [answer EXCEPT ![t] = [found |-> found, tid |-> NoTID]]
           /\ lock' = Unfixed(lock, t, {p})
           /\ unsaved' = IF found THEN unsaved \ {p} ELSE unsaved
    /\ call' = [call EXCEPT ![t] = Idle]
    /\ UNCHANGED size

-----------------------------------------------------------------------------
(* insert: the loop, one action per case. *)

\* The node is full: a new page takes the upper half.
Split(t) ==
    /\ At(t, "insert")
    /\ IsFull(nodes[call[t].page])
    /\ size \in PageIDs
    /\ CanWrLock(lock[size], t)
    /\ LET p == call[t].page
           n == nodes[p]
       IN  /\ nodes' = [nodes EXCEPT ![p] = LeftHalf(n), ![size] = RightHalf(n)]
           /\ unsaved' = unsaved \cup {p, size}
           /\ call' = [call EXCEPT ![t].pc = "separate", ![t].new = size,
                                   ![t].sep = Separator(n)]
    /\ lock' = [lock EXCEPT ![size] = WrLocked(@, t)]
    /\ size' = size + 1
    /\ UNCHANGED answer

\* Faulty variant: a key equal to the separator goes to the upper half.
Chosen_Upper(t, p) == IF call[t].key < call[t].sep THEN p ELSE call[t].new

\* Of the halves p and new, the one the key belongs to.
Chosen(t, p) == IF call[t].key <= call[t].sep THEN p ELSE call[t].new

\* The other half is unfixed, as dirty, and the loop goes on with the chosen
\* one below par.
Choose(t, p, par, l, changed) ==
    LET other == IF Chosen(t, p) = p THEN call[t].new ELSE p
    IN  /\ lock' = Unfixed(l, t, {other})
        /\ unsaved' = (unsaved \cup changed) \ {other}
        /\ call' = [call EXCEPT ![t].pc = "insert", ![t].page = Chosen(t, p), ![t].par = par,
                                ![t].new = NoPage, ![t].sep = 0,
                                ![t].bfDirty = TRUE, ![t].parDirty = TRUE]

\* The root has been split: its lower half moves to one more page, and both
\* become children of a new root.
Grow(t) ==
    /\ At(t, "separate") /\ call[t].par = NoPage
    /\ size \in PageIDs
    /\ CanWrLock(lock[size], t)
    /\ LET p == call[t].page IN
          /\ nodes' = [nodes EXCEPT ![p] = Inner(<<call[t].sep>>, <<size, call[t].new>>),
                                    ![size] = nodes[p]]
          /\ Choose(t, size, p, [lock EXCEPT ![size] = WrLocked(@, t)], {p, size})
    /\ size' = size + 1
    /\ UNCHANGED answer

\* Another node has been split: its parent gets the new child.
Link(t) ==
    /\ At(t, "separate") /\ call[t].par # NoPage
    /\ LET par == call[t].par IN
          /\ nodes' = [nodes EXCEPT ![par] = InnerInsert(@, call[t].sep, call[t].new)]
          /\ Choose(t, call[t].page, par, lock, {par})
    /\ UNCHANGED <<size, answer>>

\* Faulty variant: bfDirty is not handed on to the parent's flag.
Descend_DirtyForgotten(t) ==
    /\ At(t, "insert")
    /\ LET p == call[t].page
           n == nodes[p]
           c == Child(n, call[t].key)
       IN  /\ ~IsFull(n) /\ ~n.leaf
           /\ CanFix(t, c)
           /\ lock' = Unfixed([lock EXCEPT ![c] = Fixed(t, c)], t, Parent(t))
           /\ unsaved' = unsaved \ DirtyParent(t)
           /\ call' = [call EXCEPT ![t].par = p, ![t].page = c,
                                   ![t].parDirty = FALSE, ![t].bfDirty = FALSE]
    /\ UNCHANGED <<nodes, size, answer>>

\* Inner node with room: the child is fixed, then the parent unfixed.
Descend(t) ==
    /\ At(t, "insert")
    /\ LET p == call[t].page
           n == nodes[p]
           c == Child(n, call[t].key)
       IN  /\ ~IsFull(n) /\ ~n.leaf
           /\ CanFix(t, c)
           /\ lock' = Unfixed([lock EXCEPT ![c] = Fixed(t, c)], t, Parent(t))
           /\ unsaved' = unsaved \ DirtyParent(t)
           /\ call' = [call EXCEPT ![t].par = p, ![t].page = c,
                                   ![t].parDirty = call[t].bfDirty, ![t].bfDirty = FALSE]
    /\ UNCHANGED <<nodes, size, answer>>

\* Leaf with room: the entry goes in.
InsertLeaf(t) ==
    /\ At(t, "insert")
    /\ LET p == call[t].page IN
          /\ ~IsFull(nodes[p]) /\ nodes[p].leaf
          /\ nodes' = [nodes EXCEPT ![p] = LeafInsert(@, call[t].key, call[t].tid)]
          /\ lock' = Unfixed(lock, t, {p} \cup Parent(t))
          /\ unsaved' = unsaved \ ({p} \cup DirtyParent(t))
    /\ call' = [call EXCEPT ![t] = Idle]
    /\ UNCHANGED <<size, answer>>

-----------------------------------------------------------------------------
Step(t) == \/ FixRoot(t)
           \/ FindChild(t) \/ LookupLeaf(t) \/ EraseLeaf(t)
           \/ Split(t) \/ Grow(t) \/ Link(t) \/ Descend(t) \/ InsertLeaf(t)

Next == \E t \in Threads :
          \/ \E e \in Entries : Insert(t, e[1], e[2])
          \/ \E k \in LookedUp : Lookup(t, k)
          \/ \E k \in Erased : Erase(t, k)
          \/ Step(t)

Spec == Init /\ [][Next]_vars

\* Each thread is scheduled again and again, and works on when it can.
FairSpec == Spec /\ \A t \in Threads : WF_vars(Step(t))

-----------------------------------------------------------------------------
TypeOK == /\ nodes \in [PageIDs -> Node]
          /\ \A p \in PageIDs : LET n == nodes[p] IN
                IF n.leaf THEN Len(n.tids) = Len(n.keys) /\ n.children = << >>
                          ELSE Len(n.children) = Len(n.keys) + 1 /\ n.tids = << >>
          /\ size \in 1..Cardinality(PageIDs)
          /\ lock \in [PageIDs -> LockRecords(Threads)]
          /\ unsaved \in SUBSET PageIDs
          /\ call \in [Threads -> Call]
          /\ answer \in [Threads -> Answers]

(***************************************************************************)
(* The way from the root to the leaf of a key.  A page that is being split *)
(* and whose upper half is not linked yet leads there for the keys above   *)
(* the separator.                                                          *)
(***************************************************************************)
Splitting(p) == {t \in Threads : At(t, "separate") /\ call[t].page = p}

NextPage(p, k) ==
    LET onward == {call[t].new : t \in {u \in Splitting(p) : k > call[u].sep}}
    IN  IF onward # {} THEN CHOOSE q \in onward : TRUE
        ELSE IF nodes[p].leaf THEN p ELSE Child(nodes[p], k)

Way(k) == LET f[d \in 0..size] == IF d = 0 THEN root ELSE NextPage(f[d - 1], k)
          IN  f

LeafOf(k) == Way(k)[size]

(***************************************************************************)
(* Every entry is where a search for its key ends, whatever splits are     *)
(* under way, and the keys of a node are in order.                         *)
(***************************************************************************)
EntriesInReach ==
    /\ \A p \in Leaves : \A i \in DOMAIN nodes[p].keys : LeafOf(nodes[p].keys[i]) = p
    /\ \A p \in 0..(size - 1) : \A i, j \in DOMAIN nodes[p].keys :
          i < j => nodes[p].keys[i] < nodes[p].keys[j]

(***************************************************************************)
(* A call never strays: the page it has fixed is on the way to the leaf of *)
(* its key, wherever others split nodes meanwhile.  (Lock coupling.)       *)
(***************************************************************************)
OnTheWay ==
    \A t \in Threads : call[t].page # NoPage =>
        \E d \in 0..size : Way(call[t].key)[d] = call[t].page

(***************************************************************************)
(* "uses safe inner pages" (BTree.hpp): when a node is split, its parent   *)
(* has room for the new child, so that no node outgrows its page.          *)
(***************************************************************************)
SafeParents ==
    /\ \A t \in Threads : At(t, "separate") /\ call[t].par # NoPage =>
          ~nodes[call[t].par].leaf /\ ~IsFull(nodes[call[t].par])
    /\ \A p \in 0..(size - 1) : Count(nodes[p]) <= IF nodes[p].leaf THEN LeafOrder
                                                   ELSE InnerOrder + 1

(***************************************************************************)
(* No change is forgotten: a page whose last change has not been unfixed   *)
(* as dirty is still held by the thread that changed it.                   *)
(***************************************************************************)
ChangesSaved == \A p \in unsaved : lock[p].writers # {}

(***************************************************************************)
(* A thread holds exactly the pages its call is at (node, parent and new   *)
(* page), exclusively unless it looks up; so a call that is over has given *)
(* up all its locks, on every path.                                        *)
(***************************************************************************)
InHand(t) == {call[t].page, call[t].par, call[t].new} \ {NoPage}

LocksInHand ==
    /\ \A p \in PageIDs : Exclusive(lock[p])
    /\ \A t \in Threads : \A p \in PageIDs :
          /\ t \in lock[p].readers <=> p \in InHand(t) /\ call[t].op = "lookup"
          /\ t \in lock[p].writers <=> p \in InHand(t) /\ call[t].op # "lookup"

(***************************************************************************)
(* The tree implements the dictionary: insert takes effect when the entry  *)
(* gets into its leaf, erase when it leaves it, lookup when the leaf is    *)
(* read, and splits change nothing.                                        *)
(***************************************************************************)
TIDOf(k) == LET p == CHOOSE q \in Leaves : k \in ToSet(nodes[q].keys)
            IN  nodes[p].tids[KeyIndex(nodes[p], k)]

Requested(t) == [op |-> call[t].op, key |-> call[t].key, tid |-> call[t].tid]

Dictionary == INSTANCE Dictionary WITH dict <- [k \in Stored |-> TIDOf(k)],
                                       request <- [t \in Threads |-> Requested(t)]

ImplementsDictionary == Dictionary!Spec

(***************************************************************************)
(* For ever again some call comes to its end, unless no call is under way. *)
(* (A single call may wait for ever: the locks prefer readers.)            *)
(***************************************************************************)
Finish == \E t \in Threads : ~At(t, "idle") /\ call'[t].pc = "idle"

Progress == []<>(\A t \in Threads : At(t, "idle")) \/ []<><<Finish>>_vars
=============================================================================
