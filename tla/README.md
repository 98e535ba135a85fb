# A TLA+ development for moderndbs

The repository is a small database system: a buffer manager over segment files,
slotted-page segments for records, a B+ tree, an external merge sort, a schema
segment with a parser for `create table`, and a handful of query operators.
Everything that follows is read from the code under `src/src/`; the tests under
`src/test/` and the README of the repository say what the code is meant to do
and how it is called.

## 1. The system

| component | state | operations | interacts with | what is hard | what makes it correct |
|---|---|---|---|---|---|
| Buffer manager (`BufferManager.*`) | map of frames, read/write latch of the map, LRU list with its mutex, cache of file descriptors | `fixPage`, `unfixPage`, destructor | frames; called by every segment, concurrently | latch given up between two searches; a frame used after the latch is free; eviction against pins; exceptions; restart | a frame with users is never evicted; counts and list agree; a page keeps its content through eviction and restart; the size bound |
| Buffer frame (`BufferFrame.*`) | state New/Clean/Dirty, buffer, lock, LRU links, user count | `getData` (loads lazily), `flush`, `lock`, `unlock`, `markDirty` | segment file | shared holders load at the same time; ignored I/O errors; order of flush and unfix | readers see the page; dirty pages reach the file, and not too early |
| Slotted-page segment (`SPSegment.*`) | number of pages; in each page a header, slots, records, indirections | `insert`, `remove`, `lookup`, `update`, `compactPage` | buffer manager | space checked under one fix and used under another; indirection over two pages; compaction; hand-kept free space | a TID finds its record until it is removed; records do not overlap; free space is what the header says |
| B+ tree (`BTree.hpp`) | pages that are inner nodes or leaves, root ID, page counter | `insert`, `erase`, `lookup` | buffer manager | latch coupling down the tree while nodes are split | it is a dictionary; every key in reach of the root; keys in order |
| External sort (`sort.cpp`) | input, chunk files, merge buffers, priority queue | `externalSort` | files | sizes that do not divide each other; many runs; little memory; failing calls | the output is the input, sorted |
| Query operators (`operators/`, `Register.hpp`) | registers, hash table, scan position | `open`, `next`, `close`, `getOutput` | segments, buffer manager, each other | protocol of calls; exceptions in the middle; registers kept by pointer; a scan beside writers | the rows of the relational expression; pages given back |
| Parser (`Parser.*`) | state of the machine, open file; the schema of one call | `parse` | files | a machine that outlives a call; key columns by number | the schema is what the file says |
| Schema segment (`SchemaSegment.*`) | schema in memory and on one page | load, write | buffer manager | layout of variable-length data; page modified or not; restart and crash | what was written is read back |
| `Record`, `TID`, `Types`, `Segment` | plain data | | | | |

Threads interact through the buffer manager only: a client fixes a page (shared
or exclusively), works on the memory `getData` returns and unfixes it. The
segments and the tree keep no locks of their own, so what they may assume of
each other is what frame locks give them. Sort, parser and operators run in one
thread; what is hard about them is the order of calls, the boundaries and what
is left behind when something fails.

## 2. Modules

| module | models | code |
|---|---|---|
| `RWLock` | pthread read/write locks as values (external): who holds it, when a call returns, and that a writer who asks again gets EDEADLK, which the code ignores | use in `BufferManager`, `BufferFrame` |
| `LRUQueue` | the replacement list as a queue with user counts, one action per operation | `putLRU`, `removeLRU`, `popLRU` |
| `LRUList` | the doubly linked list itself, pointer by pointer; implements `LRUQueue` | the same functions |
| `BufferFrame` | the methods of a frame as operators over `state`, `data`, `buf`, `rwlock`, `disk` | `BufferFrame.*` |
| `PageStore` | what clients are promised: pages under read/write locks that keep their content | `BufferManager.hpp` |
| `BufferManager` | threads in `fixPage`, `getData`, `unfixPage`; destructor and restart. Composes `BufferFrame`, `RWLock` and `LRUQueue`; implements `PageStore` | `BufferManager.*` |
| `SlottedPage` | one page: header, slots, data area; room, allocation, removal, in-place update, compaction as operators | `SPSegment.*` |
| `RecordStore` | what a segment promises: a TID finds its record, as last updated, until it is removed | `SPSegment.hpp` |
| `TableScan` | the position of a table scan in its segment, as operators on a record | `TableScan.hpp` |
| `SlottedSegment` | threads in `insert`, `remove`, `lookup`, `update` and in table scans on the pages of `SlottedPage`; implements `RecordStore` | `SPSegment.*`, `TableScan.hpp` |
| `Dictionary` | what a tree promises: a map from keys to TIDs on which each call takes effect at one moment | `BTree.hpp` |
| `BTree` | threads that insert, erase and look up keys, with lock coupling and splits on the way down; implements `Dictionary` | `BTree.hpp` |
| `ExternalSort` | chunks, temporary files, the merge through buffers in one memory | `sort.cpp` |
| `Operators` | a client that drives Print over Projection over Selection over HashJoin over two scans (of `TableScan`), down to registers | `operators/`, `Register.hpp` |
| `Parser` | the machine that reads a file of `create table` token by token into a schema | `Parser.*`, `Schema.hpp` |
| `SchemaSegment` | schemas, from the `Parser` or built, written to a page and loaded from it, with evictions, restarts and kills | `SchemaSegment.*` |
| `MCBufferManager`, `MCLRUList`, `MCSlottedSegment`, `MCBTree`, `MCExternalSort`, `MCOperators`, `MCSchemaSegment` | instances for TLC | |
| `DataLemmas` | proved facts on sequences, finite sets and folds | |
| `LRUListProofs`, `BufferManagerProofs`, `BTreeProofs`, `SlottedSegmentProofs`, `ExternalSortProofs`, `OperatorsProofs`, `SchemaProofs` | proofs (section 5) | |

## 3. How the modules correspond to the code

### Buffer manager

**Threads.** A thread of the model is one session from `fixPage` to `unfixPage`
(`pc` idle - `rdlock` ... `lock` - `fixed` ... - `unlock`, `put` - idle). A C++
thread that holds several pages at once acts, for the buffer manager, like
several sessions; that it may wait for itself is a property of the client and
belongs to the modules of the clients (`SlottedSegment` has one).

**Steps.** Every acquisition and release of the map's latch or of a frame's
lock is a step, every LRU operation is one step (it holds `lruMutex` from
beginning to end), and `getData`/`loadData` are cut at each access to `state`
and `data` another thread can run between: test of the state, `malloc` and
store of the pointer, `pread`, `state = Clean`, return of the pointer. What
runs under the write latch of the map is cut where it throws or changes
something: search, `popLRU`, `erase`, `getSegmentFd`, `emplace`.

**State.** `frames` is the key set of the map, `lru`/`users` the replacement
list and `currentUsers` (`LRUQueue`), `state`, `data`, `rwlock` the fields of a
page's frame, `buf[p][t]` the buffer thread `t` has allocated for page `p` (a
frame is loaded at most once by a thread, so the allocating thread names the
buffer), `disk` the files, `segments` the cached descriptors, `page`, `mode`,
`victim`, `ptr` the locals of a call. A page without a frame keeps the initial
values in the per-frame variables.

**Exceptions.** `NoFreeFrame` and `OpenFails` leave `fixPage` as the code does,
with the latch locked. A caller catches (`Catch`) and may call again; its next
`pthread_rwlock_rdlock` then returns EDEADLK, which the code ignores, and its
`unlock` releases the latch. `RWLock` has that behaviour.

**Failures and restarts.** `Faults` switches on a failing `open` and a failing
`pwrite`. `Destroy` is the destructor, `Create` a new manager on the same files.
A crash is not modelled: the code has no recovery (the header of a slotted page
says "LSN for recovery" and has no LSN), so nothing is promised after one.

The runs join the threads before the destructor runs (`JoinFirst`), as every
caller in the repository does; of the proofs only those that speak of what the
file holds assume it.

### Slotted-page segment

**Pages.** Sizes and offsets are in units of 8 bytes: the header takes three, a
slot two, as in the code. A record is a sequence of units, so that a record read
from the wrong offset differs from the one stored; units no record owns are
`Junk`, which reading makes visible. Slots and the data area are separate
components of a page in the model and share memory in the code; `RecordsApart`
says that they never meet, which makes the separation sound. `freeSpace` is
unsigned and wraps round (`Less`); the packed TID in an indirection is the field
`target`.

**Steps.** A step is what a thread does from fixing a page to unfixing it: by
what the buffer manager implements, nobody sees more than the state before and
the state after. Where `update` keeps a page fixed over a second `fixPage` (behind
two indirections) `holder` says so, and the fix of the same page by the same
thread is EDEADLK as in `RWLock`: the second `unfixPage` then unlocks a lock
nobody holds, which POSIX leaves undefined (`broken`: the lock is unusable, or
nothing happens).

**State.** `pages`, `size` are the segment; `call[t]` has the locals of the call
thread `t` is in: the page looked at, the page `header` points into, and the
stack of TIDs followed by recursive calls of `update` and by `lookup` and
`remove`. `values` is the map from TIDs to records that clients keep
(`slotted_test.cpp` has one); a client uses TIDs from it only, forgets a TID when
it calls `remove`, and does not begin a call about a record another thread's call
is about (`InUse`).

**Left out.** `insert` keeps a pointer to the header of a page it has unfixed.
The model lets that pointer be out of date, and name another page, but not
dangle: the buffer is taken to hold every page of the segment. A record is taken
to fit an empty page; the code does not check it.

A lookup in the middle of an `update` that moves the record returns an empty
record, since `update` empties the slot, unfixes the page and inserts. Clients of
the model do not read a record while another thread updates it.

### B+ tree

**Nodes.** A node is a record of its arrays up to `count`: keys and children of
an inner node, keys and TIDs of a leaf. `LeafOrder` and `InnerOrder` are the
orders the code computes from the page size. Keys are integers, which stand for
any type with an order.

**Steps.** A step begins with the acquisition of a lock, if it needs one, and
goes on to the next: `FixRoot`; `FindChild`, `LookupLeaf`, `EraseLeaf` for
`findLeaf`, `lookup` and `erase`; for the loop of `insert` `Descend` and
`InsertLeaf` when the node has room, `Split` and then `Grow` (the root) or
`Link` (any other node) when it has not. Everything else happens to pages held
exclusively. `Split` is apart from `Grow` and `Link` because both take page
numbers from the shared counter.

**State.** `nodes` are the pages, `size` the counter, `lock` the frame locks
(`RWLock`), `call[t]` the locals: `page`, `par`, `new` for `bf`, `bfPar`, `bfNew`,
`sep`, and the two dirty flags. `unsaved` has the pages whose last change has not
been unfixed as dirty; a page in it would come back from the file without the
change. `answer[t]` is what the thread's last call returned.

**Clients** erase keys that are in the tree and that no other thread is erasing,
since `erase` of any other key removes the next one (section 6); with
`EraseAbsent` they erase any key. One tree uses the buffer manager: its pages have no segment prefix.

**Refinement.** The dictionary's map is the entries of all leaves, its requests
are the calls under way; `InsertLeaf`, `EraseLeaf` and `LookupLeaf` are where
calls take effect, all other steps stutter. Section 5 has the proof.

### External sort

Sizes count values of eight bytes. `memBuf` is the whole memory, of which
`Buffer(i)` and `OutBuf` are the shares in the merge, so that a buffer that runs
over its share would be seen in its neighbour. `files` are the temporary files
with their read positions, `queue` is the priority queue, from which any of the
least heads may come. A step is one turn of a loop: a chunk (`ReadChunk`), the
first fill of a buffer (`Fill`), a value from the queue to the output buffer
(`Pop`), a write of the output buffer (`Flush`), the next value of the chunk it
came from with the refill of its buffer (`Advance`).

Any call that reads or writes data, or makes a temporary file, may fail
(`Faults`). The code reports a failing `read`, `tmpfile`, `write` and first
`fread` of a chunk, and an `fwrite` that fails at once (`reported`). It does not
look at an `fwrite` whose data fail to leave the file's buffer later
("lateFwrite"), and it takes a refill that fails for the end of the file, closes it
and drops the rest of the chunk: `unnoticed` is a history variable that says so.
What is promised of the contents of the output supposes that no call has failed
(`AllWell`); its order does not (`OutputInOrder`).

### Query operators

`plan` has what the constructors get: two segments with the types of their
records, the join columns, the column and the constant of the selection, the
columns of the projection. The calls of `next` run through all operators down to
a scan, so a step is what one turn of the inner loops does: `PageEnd`, `Record`
and `ScanEnd` for the scan that is read (the first in `open` of the join, the
second in `next`), `Match` and `NoMoreMatches` for the loop of `HashJoin::next`
with the test of `Selection`, `GetOutput` for `Projection` and `Print`.
`heap` holds the registers that have been made; tuples are places in it, as the
code hands on pointers. The bytes of values matter in one respect only: where a
`Char` ends. What an exception, an assertion or an access out of bounds leads to
is `pc`.

Segments stand still in `Operators`; a scan beside a writer is in
`SlottedSegment`, where `call[t].scan` keeps a page shared between two calls of
`next`, and `due` has the slots whose records the scan owes its client.

### Parser and schema segment

`Arrows` is the machine: the state, the class of the token, the next state.
`Adds` and `Extended` are what a token adds to the last relation. A word that is
a number is a name as well, a keyword is none, as in the code (`isIdentifier`;
`ParserAssumption`). `text` keeps the
tokens read, so that `SchemaSaysText` can compare the schema with what the file
says, told from its parentheses and commas and not from the machine.
`state` and `unclosed` (an exception has left the file open) outlive a call, the
schema does not.

A page of the schema segment is a sequence of cells, a name being one. Writing
and loading are one step each; what happens to the page afterwards is `Evict`,
`Restart(FALSE)` (the destructor) and `Restart(TRUE)` (a kill: what is not in
the file is gone). The parser and the segment meet in `schema` only, so files
are parsed before the first segment is made.

## 4. Runs

| run | instance | question and result |
|---|---|---|
| `lru_list` | 4 frames, at most 2 users each | Is the list well linked, and does it implement the queue? Holds. |
| `threads` | 2 threads, any mode, 3 pages in 2 segments, 2 frames, fair scheduling | Does a pinned frame stay, do counts, queue and map agree, is memory bounded, does `fixPage` never fail, does the manager as a whole always go on? Holds. |
| `store` | 1 shared reader, 1 exclusive writer, 3 pages, 1 frame, 2 values, `flush` called too, `open` may fail | Is it the abstract page store, through eviction, reload, restart and exceptions, does `getData` return the page as it stands, are dirty pages written back, and not before they are unfixed, and does the invariant of the proofs hold? Holds. |
| `shared_load` | as `threads`, 2 values | `getData` of two shared holders: violated, uninitialised memory is returned. |
| `segment` | a writer that inserts, removes and updates, a reader that looks up and scans, 2 pages of 9 units, records of length 0, 1 and 3 | Do headers tell the truth, do records lie apart, is every slot accounted for, is it the abstract store of records, does `lookup` find the record while others move, does a table scan return what nobody touches? Holds. |
| `segment_two_inserts` | two inserting threads, 2 pages | No TID is handed out while in use: violated at the end of the segment. |
| `tree` | 2 threads, 4 keys, leaves of two entries, nodes of three children, fair scheduling | Does every call find its leaf whatever is being split, is the tree the dictionary, are changes unfixed as dirty, locks given up, parents of split nodes never full, and does nobody get stuck? Holds. |
| `sort` | every input of up to 8 values out of 2, three of 18 out of 3, memories of 0, 2, 4, 6, 7, 8 values, every call failing or not | With buffers that fit (room for two values in each, every chunk a whole number of them) and no call failing, is the output the sorted input, and is nothing lost or out of order on the way? Is the output in order, without a value more than the input has, whatever the sizes and whatever fails? Holds. |
| `sort_example` | 68 values in a memory of 17, no call fails | Is the input sorted for every size? Violated: the merge reads a file it has closed. |
| `operators` | 36 plans and 8 ways to spoil each, 2 calls of `open` | Are the rows those of the query, are all pages given back, has what goes wrong a cause in the plan? Holds, with each row once for every `open` so far. |
| `schema` | files of up to 15 tokens, 2 calls of `parse`, 2 segments written, pages of 24 cells | Is the schema what the file says, do key columns exist, is `back()` safe, is what is loaded what was written? Holds; an attribute that a client has made nullable is loaded as not null. |
| `schema_flush` | as `schema` | Is the schema in the file once `writeToDisk` has called `flush`? Violated by a kill afterwards. |

**Bounds, buffer manager.** Two threads produce every race of two calls on the
latch, a frame lock, the counts and the lazy load; the proofs of section 5 cover
any number. Three pages and two frames make eviction happen while the other
thread holds, awaits, or is about to lock a frame; one frame makes `fixPage`
fail. Two segments make one `open` shared by two pages and one not. Two values
tell a current page from a stale one; there is one value where no property reads
contents. `LRUList` with four frames has inner members on both sides of a
removed one.

**Bounds, segment.** A page of 9 units has room for a long record (and an empty
one), for two short ones, which fill it exactly, or for three empty ones: a record
that grows must compact its page, move in its page, or move to another. On two
pages a record moves away and comes back, so that chains of two indirections occur
with both of their slots on one page and on two. Empty records share their offsets
with others. In `segment_two_inserts` a page has 10 units and only `insert` is
called. `MaxLive` bounds the records kept at a time, `PageIDs` the pages of the
segment (`Place` has the guard). `SizeModulus` stands for 2^64. Section 5 has
the properties of run `segment` for any number of pages, records and readers.

**Bounds, tree.** With two entries a leaf and three children a node four keys
give a tree of three levels, in which leaves, inner nodes and the root are split,
the root twice, and a node of one child and no key occurs (three children divide
into two and one). Neighbouring keys have different TIDs and one key is inserted
with either, so that a TID in the wrong place shows. Two of the keys are erased
and looked up. The largest of these trees has ten pages, so the bound stops no
call.

**Bounds, sort.** Eight values in memories of two to eight give one to four
chunks, last chunks of any length, and buffers of none to four values. The inputs
of 18 values add merges of three chunks, and in a memory of eight of three that
fit (8, 8 and 2 values in buffers of two). Two values make ties. `sort_example`
divides as the example of the repository's README does (4 MiB in 1 MiB): four
chunks, five buffers in one, and two values left of each chunk.

**Bounds, operators.** Tables have up to three records on up to two pages, with
empty pages, free slots and indirections between them, and none on none; joins
have none, one and several matches. `Span` (the pages a segment may have) stands
for 2^48, page numbers wrap round at four times that.

**Bounds, schema.** Fifteen tokens are enough for a relation with two attributes
and a key of one column, for two relations, and for every transition of the
machine; with two calls of `parse` the second begins wherever the first may end.
The built schemas have two relations, a key of two columns, nullable attributes,
and one is larger than the page.

**Deadlock** is checked except in `store`, where a thread that ran into an
exception keeps the latch and the others wait for ever (section 6), and in the
segment runs, where a thread stops when a new page would be one too many, and
where an unlock without a lock may make a lock unusable. Sort, operators and
schema stutter where the program has ended (`Returned`, `Finished`) or where
anything may happen (`Undefined`).

**Symmetry.** In `store` two pages of one segment are interchangeable. Runs with
liveness properties use none.

**Fairness** (`threads`, `tree`). `FairSpec` assumes weak fairness of each
thread's own steps: the operating system schedules a thread that can run, and a
client unfixes what it has fixed (all callers under `src/` do so without waiting
for anything but other pages). No fairness among waiters of a lock is assumed -
the default pthread lock prefers readers and may starve a writer - so the
property is progress of the system and not of each thread. Nobody is obliged to
call.

## 5. Proofs

The assumptions are the named ones at the head of the modules; others are said.

`BufferManagerProofs` proves for any finite set of threads and pages, any set of
values, any `MaxSize > 0`, with and without faults and joined threads:

* `TypeCorrectness`: `Spec => []TypeOK`;
* `FramesStay`: `Spec => []NoDanglingFrame`, no frame is destroyed under a
  thread that has a pointer to it;
* `PinsAreCounted`: `Spec => []PinAccounting`;
* `MemoryIsBounded`: `Spec => []BoundedFrames`;
* `RoomForEveryThread`: with `Cardinality(Threads) <= MaxSize` and no failing
  `open`, `Spec => []NeverFails`.

The inductive invariant is `TypeOK /\ PinInv`. `NoDanglingFrame` alone is not
inductive: that a victim has no user follows from the agreement of counts and
queue (`PinAccounting`), which is kept by `removeLRU` only because no other
thread has a victim in hand, which follows from who holds the latch (`LatchInv`),
as does that the page of a miss is still missing when its frame is made
(`CallInv`), and that the room found is still there (`RoomInv`). `GoneInv` is the
state between a destructor and the next constructor, `DataInv` says that frames
that are written have a buffer. There is a lemma per action; the steps that leave
map, queue and counts alone share `PinsKept`, and the arithmetic of the counts is
in `UserAdded` and `UserRemoved`. `NeverFails` is a counting argument: a thread
that misses has no page fixed, so the others have fixed fewer than `MaxSize`
frames.

`BufferManagerProofs` also proves, when the threads are joined before the
destructor runs (`JoinFirst`) and no `pwrite` fails,

* `ManagerImplementsPageStore`: `Spec => ImplementsPageStore`, the refinement of
  the page store by the manager, for any threads, pages and modes;
* `DirtyFramesReachTheFile` and `NobodyWritesAPageInUse`:
  `Spec => DirtyWrittenBack` and `Spec => NoEarlyWriteBack`;
* `GetDataReturnsThePage`: `Spec => []ReadsActualData`, when moreover at most one
  thread fixes pages shared (`OneSharer`), and `StoreStaysSound`:
  `Spec => []StoreInv`, the invariant itself, which run `store` checks.

A page of the abstract store is the buffer of a dirty or changing frame and the
disk otherwise, so a load, an eviction and a flush must stutter. They do because
the holders of a frame's lock are those the threads' labels say (`HolderInv`,
which needs that a frame without references is unlocked when it is destroyed,
from `PinAccounting`), because nobody loads a frame that is dirty and a writer's
pointer is the frame's buffer (`LoadInv`), and because a page without a frame has
nothing to write (`UnusedInv`). This holds with any number of sharers: the lazy
load breaks what a sharer is given, never what is stored. For what `getData`
returns one more invariant is needed, that a clean frame's buffer has what the
file has (`LoadedInv`), and that fails when two threads load one frame; hence
`OneSharer`, and the run `shared_load`.

`LRUListProofs` proves for any finite set of frames

* `ListTypeCorrect`: `Spec => []TypeOK`;
* `ListStaysLinked`: `Spec => []WellLinked`;
* `ListImplementsQueue`: `Spec => ImplementsLRUQueue`, the refinement of the
  queue by the doubly linked list.

`WellLinked` says that some sequence without duplicates has the ends and links
the variables have. That sequence is unique (two of them cannot differ at a
least index, since the links decide what follows), so the refinement mapping,
which chooses it, is what each operation makes it: appended to, without its
first member, or without one in the middle. The inductive invariant adds to
`TypeOK` and `WellLinked` that a frame with users is in the map (`UsersInMap`);
there is a lemma per operation.

`DataLemmas` proves what `Append`, `Tail` and `RemoveAt` do to the members of a
sequence without duplicates, induction over the subsets of a finite set (a set of
subsets that has each set all of whose one-smaller subsets it has, has them all:
`SubsetInduction`, from a minimal counterexample), and from it that the recursive
function behind `FoldSet` and `MapThenFoldSet` exists and is typed (`FoldExists`).

`BTreeProofs` proves for any set of threads, keys, TIDs and pages and any orders
of at least two

* `TreeTypesCorrect`: `Spec => []TypeOK`;
* `NoLockLeaks`: `Spec => []LocksInHand`;
* `ParentsAreSafe`: `Spec => []SafeParents`;
* `NoChangeForgotten`: `Spec => []ChangesSaved`;
* `AlwaysBalanced`: there are levels, 0 at the leaves and nowhere else and one
  less at each child than at its parent.

The inductive invariant `TreeInv` needs all five at once. That a step changes only
pages no other call has in hand follows from the locks (`NotShared`). That a thread
never asks for a lock it has, which it would be refused without noticing, follows
from the levels: the child a call goes down to is on another level than the pages
it holds (`ChildUnder`). That no node is split under a full parent needs, for a
parent that has been filled by the last split, that the half the call goes on with
has room (`RoomOK`). Who will unfix an unsaved page as dirty is said by `Owns`, in
terms of the two flags and of what is held. `StepKeeps` is what a step of one
thread has to show so that the whole of the invariant is kept for the others; there
is a lemma per action, and the operators on nodes have theirs (`LeafInsertOK`,
`InnerInsertOK`, `HalvesOK`).

`BTreeProofs` also proves

* `TreeIsADictionary`: `Spec => ImplementsDictionary`, the refinement of the
  dictionary by the tree, when clients erase keys that are in it
  (`~EraseAbsent`);
* `EntriesAreReached`: `Spec => []EntriesInReach`;
* `CallsNeverStray`: `Spec => []OnTheWay`, these two whatever is erased.

A search is at a page because separators sent it there, and other threads move
separators and entries while it waits for the page. What stays true meanwhile is
said by a range of keys for every page (`SearchInv`, on top of `TreeInv`):

* the keys of a node are in order and in its range, and the range of a child is
  the part of its parent's that has its index (`NodeRange`, `ChildRanges`);
* the upper half of a node that is split has a range of its own at once, which
  counts as the node's until the parent has the new child (`InReach`); nobody
  else can be at either half, since both are held;
* pages of one level share no keys (`Apart`), the root reaches all keys;
* a call is at a page whose range has its key (`CallRange`).

So a call that comes to a leaf is at the one leaf that may hold its key
(`SoleLeaf`, `LeafSpeaks`), and what it finds or changes there is what the
dictionary has for the key. Only `Split` and `Grow` change ranges: `SplitRanges`
divides a page's at the separator, `GrowRanges` gives the root's to the new page
and all keys to the root; every other step leaves them as they are
(`RangesKept`), `LinkRanges` because the parent's separators now say what
`InReach` said. Splits change no entry (`SplitMaps`, `GrowMaps`, `LinkMaps`).
That a key which is being erased stays in the tree until then (`ErasesKnown`)
comes from the clients: nobody else erases it.

`EntriesInReach` and `OnTheWay` speak of the way from the root, a recursive
function on `0..size` (`WayIs`: there is one). Every page on the way of a key has
the key in reach, and each step leads a level down or to the upper half of a page
that is being split, where the key then is (`NextInReach`); so the distance to the
leaf shrinks until it is 0 (`WayGoesDown`). `size` steps are enough, because
`size` pages in use cannot be met more than once each before that (`MetTwice`,
the pigeonhole principle), and the way ends in the leaf that has the key in its
range (`WayEnds`). Conversely a page that has the key in reach is met
(`ReachMet`): on its level the way meets the root or a child with the key in
reach (`LevelMet`), pages of a level share no keys, and an upper half that is not
linked is no node's child (`HalfNotLinked`).

`SlottedSegmentProofs` begins with lemmas about one page, for any sizes of block,
header and slot that `SlottedPage` assumes. A page is in order (`PageOK`) when each slot is
free, an indirection or a record, the cached slot is the first free one
(`CacheOK`), the free space is what slots and records leave (`SpaceOK`, a sum by
`FoldSet`), and records lie apart above `dataStart` (`LayoutOK`). For each operator
there is a lemma that it keeps the page in order and says what it does to the
slots as clients see them (`ViewOf`: free, a way to another slot, or a record with
its content), all others staying what they were: `FreedSlotOK`,
`RecordRemovedOK`, `ReplacedOK`, `DroppedOK`, `RedirectedOK`, `MovedOK`,
`InsertedOK` and `CompactedOK`. The last is the longest: in the loop the records
moved so far lie above the one that is moved next, since the queue gives the
highest first (`LastMovedIs`), so a move overwrites nothing that is still to be
moved (`MovedUpStep`, `LoopOK`), and afterwards all free space is in one piece
(`RoomInOnePiece`). That is what `insert` relies on when it compacts: `Fits` before
is room in one piece (`HasRoom`) after.

It then proves, for any threads of which at most one inserts and updates
(`OneWriter`) while the others remove, look up and scan, and any pages and records,

* `SegmentInvariant`: `Spec => []Inv`, and with it `TypeCorrect`:
  `Spec => []TypeOK`;
* `SpaceIsAccounted`, `FirstFreeIsRight`, `RecordsLieApart`:
  `Spec => []SpaceAccounted`, `[]FirstFreeRight`, `[]RecordsApart`;
* `NoSlotLost`: `Spec => []NothingLost`;
* `TidsAreFresh`: `Spec => []TidsNotOverwritten`;
* `LookupIsRight`: `Spec => LookupReturnsRecord`;
* `ScanIsComplete`: `Spec => ScanSeesUntouched`;
* `SegmentStoresRecords`: `Spec => ImplementsRecordStore`, the refinement of the
  store of records by the segment.

`OneWriter` is needed and not a convenience: with two threads that insert
`TidsNotOverwritten` does not hold (run `segment_two_inserts`), and a call of
`update` inserts whenever a record grows. One thread that removes beside the
writer only makes room, so the room the writer has found stays (`RoomStays`).

None of these properties is inductive by itself. The invariant (`SegmentInv`) has

* `PagesOK`: pages are in order, those behind the end are empty;
* `Calls`: which locals a call has at which label, that two calls are about
  different TIDs, and which slots only a call knows of (`RootsOf`): one that it is
  about to free or has just made;
* `Forest`: how slots hang together while calls are under way. Every TID of a client
  and every slot only a call knows of is taken; every other slot that is taken is
  where exactly one indirection leads; no indirection leads to one of the former.
  An indirection that leads to another is being looked after by the update that
  made it so (`DeepOf`), and one that is about to be freed does not count
  (`LeavingOf`). With no call under way this is `NothingLost`. It is a statement on
  slots as clients see them, and the lemmas on it (`ForestInsert`, `ForestMove`,
  `ForestPoint`, `ForestSkip`, ...) know nothing of pages;
* `Contents`: from each TID nobody updates one comes to the client's record, and at
  each label of an update how far it has got (`UpdateOK`): the old record up to
  `update`, an empty one while the new one is inserted, the new one afterwards;
* `RoomOK`: the page `insert` has found still has room when it is fixed again, and
  the header pointer points into it. This is where `OneWriter` is used; it rules
  out that a call of `insert` or `update` comes to a slot behind its page or a
  pointer nobody has set;
* `ScansOK`: a slot a scan owes its client is ahead of the scan, and has the record
  of a TID nobody updates (`DueOK`).

There is a lemma per action; those that change one page share what the page's
lemma says of its view. The store's map is `StoredRecords`; under the invariant it
equals `values` for the records clients keep, so the steps of `Return` and of the
clients' calls are the store's and all others stutter.

`OperatorsProofs` proves for any plans, which are what the constructors of the
operators can be given (`PlansAssumption`),

* `ScansLetGo`: `Spec => []NothingLeftFixed`;
* `FailuresHaveCauses`: `Spec => []GoesWrongOnlyIf`;
* `PassesAnswer`: `Spec => []PassYieldsAnswer`.

For the first: the first scan has a page fixed only while the hash table is built or
after that has gone wrong, the second only from then on to its end (`FixInv`). For
the second (`CauseInv`): a scan stays between the bounds of its segment (`ScanOK`),
which are those of its pages unless page numbers wrap round (`Bounds`); a tuple of
the hash table has the registers of its table, the tuple of the other side those
of the second, and a match both (`OpenInv`). What the last pass has left (a range
of matches, its tuple) is still there while the hash table is built again, when
nobody looks at it; the invariant says nothing of it then, because it may no longer
be true. For the third (`PassInv`): where a scan stands says which records it has
returned (`Returned`, `ReturnedMoves`), the entries of the hash table correspond
one to one to the records of the first table times the opens (`IsMap`, `Tokens`),
and the rows printed one to one to the hits among what has been read, without
those still waiting in the range or just returned (`IsRows`, `Pending`). At the
end nothing waits and all has been read, and `TimesOver` counts: each row is
printed `opens` times as often as it is in the answer. A table whose columns can
never be loaded (`Hopeless`) never gets as far.

`SchemaProofs` proves for any words, files and number of calls

* `KeyColumnsExist`: `Spec => []KeysExist`;
* `FreshParserIsSafe`: `Spec => []BackExists`;
* `ParserReadsTheText`: `Spec => []SchemaSaysText`;
* `LoadsAreRight`: `Spec => []LoadsWhatWasWritten`.

For the first two, what is inductive (`SchemaInv`) is that a schema is typed, that its key columns
exist, and that a parser that began between two statements has a relation
whenever the machine is inside one, with an attribute whenever the machine is
past an attribute's name (`BackInv`). The machine comes into the argument by two
facts about its arrows (`ArrowKinds`): only `create table name` enters a
statement, and only a name enters the states of an attribute. `NamedIsPlace`
is what `find_if` returns, `ExtendedRelation` what a token does to a relation.

The third compares the machine with the text. The property knows nothing of the
machine: it tells from parentheses, commas and the words `table` and `key` where the
names of relations, attributes and key columns stand (`RelationPlaces`,
`AttributePlaces`, `KeyPlaces`), counts them (`Rank`) and asks for the relation,
attribute or column of that number. The invariant (`TextInv`) is that the schema says
what has been read so far, and that the machine stands where the text tells
(`StandsAfter`: as deep in parentheses, inside a list of keys or not, just after a
name, a `char`). So a token adds to the schema exactly when a place is added to the
text (`PlacesRead`), always after the others and in the last relation
(`PlacesOfAfterAppend`). What was said of an attribute is said still
(`AttributeKept`), unless its type or length was to come (`Pending`): then it is the
last attribute of the last relation (`PendingIsLast`), and that is the one the
machine fills in (`TypeSaid`, `LengthSaid`). `LastRelationSaid`, `OtherRelationSaid`
and `NewRelationSaid` put this together for a relation, `TokenSaid` for the schema.

The fourth is about the page. `LaidOut` says that cells are those of a schema, with
the cell each relation begins at; it leaves out the cells of `notNull`, because
`loadFromDisk` writes them. `CellsLaidOut` is what `writeToDisk` does (the cells come
from `FlattenSeq`; `FlattenParts` of `DataLemmas` says where a part of it lies),
`TouchedStaysLaidOut` that a load changes no other cell, and `SchemaLoaded` that a
load finds the relations of the schema with every attribute not null: the recursive
function that walks along the page comes to the cell where each relation begins
(`StartOfRelation`). The invariant (`SegmentInv`) then follows the page through
memory and file (`StoreSays`): a page in memory has the schema written last, a clean
one is in the file as well, and what the file has is one of the schemas `kept`.

`ExternalSortProofs` proves for any input, any memory size and any set of calls of
the operating system that may fail,

* `SortsWhenBuffersFit`: `Spec => []SortsWhatFits`;
* `OnlyWhatFitsIsReadToTheEnd`: if no call has failed and the sort ends with all
  files closed, the buffers fit, or there was nothing to sort;
* `MergesInOrder`: `Spec => []MergedInOrder`;
* `MergeLosesNothing`: `Spec => []NothingLost`.

All four speak of a sort in which no call has failed so far, noticed or not
(`AllWell`); some calls may fail without a message, and then what the first, third
and fourth say does not hold (section 6).

`Sorted`, the reference the output is compared with, gives the k-th value as the
least that has k values not above it. So two sequences are compared by counting
(`Count`): those with as many values up to any number have the same sorted sequence
(`SortedSame`), and an ascending sequence is the beginning of it when what is
missing is not less than what is there (`SortedBegins`). The values of the input
are told apart as pairs of a chunk and a place in it (`Tokens`): sorting the chunks
neither loses nor doubles one (`InputTokens`).

The invariant (`SortInv`) holds until a call fails. While the chunks are
written and the buffers filled it says what there is (`Chunking`, `Filling`). In
the merge `MergeShape` holds for all sizes: each chunk has at most one value in the
queue, and if it has none its buffer is empty, or it is the one whose turn it is; a
file that is open has been read up to a number of whole buffers, and one that is
closed up to its end (`BufferOf`; `LastRead` says whether the last read got
anything). From that alone follows that a sort that has come to its end with its
files closed had buffers that fit (`UsedUpFits`), and that with buffers that fit no
closed file is read (`ClosedIsUsed`). `MergeData` holds when the buffers fit: what a
buffer has is what follows in its chunk (`Loaded`), though all of them and the output
buffer are shares of one memory (`BuffersApart`), the output buffer never runs over,
and what has been merged is in ascending order, has exactly the values that have
left the queue (`popped`), and none above one that has not (`Merges`). The head that
is popped is the least of all that are left (`HeadIsLeast`), so that stays true
(`OneMerged`); at the end nothing is left and the output is the sorted input
(`AllMerged`). `NothingLost` says where the rest is; its folds are taken apart by
`GatheredIsFold` and `GatheredCount`.

Only model-checked: progress of the buffer manager and of the tree, since liveness
under fairness is out of the prover's reach; and `OutputInOrder`.

## 6. Where the code does less than its comments say

Four disagreements have a run and a finding (`shared_load`,
`segment_two_inserts`, `sort_example`, `schema_flush`). Of the following some are in the models as
the code has them, others are left out of the models as section 7 says.

* Exceptions leave `fixPage` and `getSegmentFd` with the latch locked
  (`BufferManager.cpp:75`, `:125`): every other thread waits for ever. What the
  exceptions leave behind is otherwise sound (`store`).
* A failing `pwrite` goes unnoticed and the frame becomes clean
  (`BufferFrame.cpp:84`; `Faults` with "pwrite" violates `DirtyWrittenBack`).
* `flush` of a page its holder has just changed writes nothing, because only
  `unfixPage` marks the frame dirty (`BufferFrame.cpp:59`). The repository's
  README says that "`flush()` can be called manually on BufferFrames to write
  back the data"; `SchemaSegment::writeToDisk` does so (line 111) and the schema
  is not in the file when the program is killed afterwards (run `schema_flush`;
  `LoadsWhatWasWritten` says which schemas may be found).
* The destructor ("wait until all tasks are finished") waits for threads inside
  the map, not for those that have pages fixed.
* `update` behind two indirections may fix a page it holds
  (`SPSegment.cpp:199`): the lock call fails, unnoticed, the unlock gives up the
  lock held and the second unlock is one too many (`Skip`, `Free`, `broken`).
* In the middle of an `update` that moves a record a lookup returns an empty
  record (`SPSegment.cpp:243`).
* `LeafNode::remove` takes the entry at the lower bound of the key without a look at
  the key (`BTree.hpp:171`), so `erase` of a key that is not in the tree removes the
  next key of the leaf and returns true, where the comment says "returns false if
  the key was not found" (line 168). With `EraseAbsent = TRUE` TLC finds
  `ImplementsDictionary` violated; two threads that erase one key do the same.
* The example of the repository's README sorts 4 MiB in 1 MiB: five buffers of
  26214 values, and chunks of 131072 = 5 * 26214 + 2, so the refill that gets two
  values closes the file and the next one reads a closed file
  (run `sort_example`; `BuffersFit` has the sizes that work). The last `resize` of
  `memBuf` is smaller than what the merge uses of the memory; the vector keeps
  its storage, so that goes well.
* A refill that fails is taken for the end of the file (`sort.cpp:175`): the file is
  closed, the rest of the chunk is lost and nothing is reported. Nor is an `fwrite`
  that fails only when its buffer is written out (line 99), if what is missing is a
  number of whole buffers.
* `HashJoin::open` adds to the hash table of the passes before
  (`PassYieldsAnswer` counts each row once for every `open`).
* A `Char` that fills its attribute is loaded together with what follows it.
* The parser sets `notNull` for every attribute (the constructor's default is
  true), leaves the type of a `numeric` attribute unset, returns what it has when
  a file ends inside a statement, begins the next file in the middle of one, and
  after an error reads nothing the next time, since the file is still open.
* `loadFromDisk` stores the default of `notNull` to the page instead of reading
  it: what a client has made nullable comes back as not null (schemas of the parser
  have no such attributes, so `schema_test.cpp` finds "inserted == loaded"). It
  leaves the segment's own `size` at zero. "segment is assigned on first
  write" (`Schema.hpp`) is done nowhere.
* Pages of a tree and of a schema segment are numbered without a segment prefix
  that keeps them apart from each other's and from those of segment 0.

## 7. Not modelled, and why

* `Record`, `TID`, `Types`, `Segment`: data without behaviour; they appear as
  values. `Schema::toString` and `Print`'s formatting only read.
* I/O errors other than a failing `open` and a failing `pwrite` in the buffer
  manager: a short or failing `pread` leaves part of a buffer as `malloc`
  returned it, which happens in practice only behind the end of a file, for a
  page its first user initialises.
* Memory exhaustion, `pthread_rwlock_init` failing; crashes other than in the
  schema segment: the code has no recovery (the header of a slotted page says
  "LSN for recovery" and has no LSN), so nothing is promised after one.
* In the segment: two threads that update, records that do not fit a page, the
  eviction of a page `insert` keeps a pointer into, lookups of a record under
  update.
* Two trees, or a tree and a segment, on one buffer manager.
* Tests and the generator under `test/` and `bin/`: read, not modelled.

## 8. What could follow

* Several updating threads in `SlottedSegment`, with clients that share records.
