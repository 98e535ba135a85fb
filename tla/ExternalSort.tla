---------------------------- MODULE ExternalSort ----------------------------
(***************************************************************************)
(* externalSort: the input is read in chunks that fit the memory, each     *)
(* chunk is sorted and put in a temporary file, and the files are merged   *)
(* through a priority queue of their heads.  The memory of the chunks is   *)
(* divided among one input buffer for each file and one output buffer.     *)
(*                                                                         *)
(* Sizes count values.  Calls of the operating system that fail are those  *)
(* in Faults.  Where the code's behaviour is undefined the sort goes to    *)
(* "undefined" and stays there.                                            *)
(***************************************************************************)
EXTENDS Integers, Sequences, FiniteSetsExt

CONSTANTS Values,    \* what is sorted, a set of numbers
          Inputs,    \* the contents of input files
          Memories,  \* memory sizes
          Faults     \* SUBSET {"read", "tmpfile", "fwrite", "lateFwrite", "fread", "write"}

ASSUME SortAssumption == /\ Values \subseteq Nat
                         /\ Inputs \subseteq Seq(Values)
                         /\ Memories \subseteq Nat

VARIABLES input, memory,  \* the arguments
          pc,
          files,          \* the chunk files, Seq(File)
          memBuf,         \* the memory
          inBufs,         \* the input buffers: values left and place of the next
          queue,          \* the heads of the chunks, [value, srcIndex]
          srcIndex,       \* the chunk the last value came from
          outLength,      \* the number of values in the output buffer
          output,         \* what has been written
          reported,       \* has an error message been printed?
          unnoticed       \* what has happened: has a call failed that nobody looks at?

vars == <<input, memory, pc, files, memBuf, inBufs, queue, srcIndex, outLength,
          output, reported, unnoticed>>

-----------------------------------------------------------------------------
size      == Len(input)
chunkSize == IF memory < size THEN memory ELSE size
numChunks == IF chunkSize = 0 THEN 0 ELSE (size + chunkSize - 1) \div chunkSize
bufSize   == chunkSize \div (numChunks + 1)

Places == 0..(chunkSize - 1)

\* Where the buffers are in the memory; the output buffer is the last.
Buffer(i) == i * bufSize
OutBuf    == Buffer(numChunks)

\* In ascending order: the k-th value is the least with k not above it.
Sorted(s) ==
    [k \in DOMAIN s |->
        Min({v \in Values : Cardinality({j \in DOMAIN s : s[j] <= v}) >= k})]

\* The i-th chunk of the input, sorted.
ChunkEnd(i) == IF (i + 1) * chunkSize < size THEN (i + 1) * chunkSize ELSE size
Chunk(i) == Sorted(SubSeq(input, i * chunkSize + 1, ChunkEnd(i)))

\* memBuf with the values of s from place p on.
Filled(p, s) == [k \in DOMAIN memBuf |->
                    IF k \in p..(p + Len(s) - 1) THEN s[k - p + 1] ELSE memBuf[k]]

\* What fread reads of a file into a buffer if it does not fail.
MinLen(a, b) == IF a < b THEN a ELSE b
NextOf(f) == SubSeq(f.data, f.pos + 1, MinLen(f.pos + bufSize, Len(f.data)))

\* The values in the output buffer.
Pending == [k \in 1..outLength |-> memBuf[OutBuf + k - 1]]

Init == /\ input \in Inputs /\ memory \in Memories
        /\ pc = "start"
        /\ files = << >> /\ inBufs = << >> /\ queue = {}
        /\ memBuf = << >>
        /\ srcIndex = 0 /\ outLength = 0 /\ output = << >>
        /\ reported = FALSE /\ unnoticed = FALSE

\* The call ends with a message.
Fail == /\ pc' = "failed" /\ reported' = TRUE
        /\ UNCHANGED <<input, memory, files, memBuf, inBufs, queue, srcIndex,
                       outLength, output, unnoticed>>

-----------------------------------------------------------------------------
Start ==
    /\ pc = "start"
    /\ \/ /\ size > 0 /\ memory = 0
          /\ Fail
       \/ /\ size = 0 \/ memory > 0
          /\ pc' = IF size = 0 THEN "done" ELSE "chunk"
          /\ memBuf' = IF size = 0 THEN << >> ELSE [k \in Places |-> 0]
          /\ UNCHANGED <<input, memory, files, inBufs, queue, srcIndex, outLength,
                         output, reported, unnoticed>>

\* One chunk: read, sorted, written to a new temporary file.  A failed fwrite
\* is reported and ignored; one that fails only when the file's buffer is
\* flushed (by rewind) goes unnoticed.
ReadChunk ==
    /\ pc = "chunk"
    /\ LET chunk == Chunk(Len(files)) IN
       \E n \in 0..Len(chunk), failed \in {"none", "fwrite", "lateFwrite"} :
          /\ IF failed = "none" THEN n = Len(chunk)
                                ELSE failed \in Faults /\ n < Len(chunk)
          /\ memBuf' = Filled(0, chunk)
          /\ files' = Append(files, [data |-> SubSeq(chunk, 1, n), pos |-> 0, open |-> TRUE])
          /\ reported' = (reported \/ failed = "fwrite")
          /\ unnoticed' = (unnoticed \/ failed = "lateFwrite")
    /\ pc' = IF Len(files') = numChunks THEN "fill" ELSE "chunk"
    /\ UNCHANGED <<input, memory, inBufs, queue, srcIndex, outLength, output>>

ChunkFails == /\ pc = "chunk"
              /\ {"read", "tmpfile"} \cap Faults # {}
              /\ Fail

\* The first read of an input buffer must fill it.  (A buffer without room
\* for a value has length 2^64 - 1 afterwards: the merge runs off the memory.)
Fill ==
    /\ pc = "fill"
    /\ LET i   == Len(inBufs)
           f   == files[i + 1]
           new == NextOf(f)
       IN  /\ Len(new) = bufSize
           /\ \/ /\ bufSize = 0
                 /\ pc' = "undefined"
                 /\ UNCHANGED <<files, memBuf, inBufs, queue>>
              \/ /\ bufSize > 0
                 /\ files' = [files EXCEPT ![i + 1].pos = @ + bufSize]
                 /\ memBuf' = Filled(Buffer(i), new)
                 /\ queue' = queue \cup {[value |-> new[1], srcIndex |-> i]}
                 /\ inBufs' = Append(inBufs, [length |-> bufSize - 1, index |-> 1])
                 /\ pc' = IF i + 1 = numChunks THEN "merge" ELSE "fill"
    /\ UNCHANGED <<input, memory, srcIndex, outLength, output, reported, unnoticed>>

\* It does not, because the file has not enough or the read fails.
FillFails == /\ pc = "fill"
             /\ \/ Len(NextOf(files[Len(inBufs) + 1])) < bufSize
                \/ bufSize > 0 /\ "fread" \in Faults
             /\ Fail

-----------------------------------------------------------------------------
\* Faulty variant: the order of the queue is the wrong way round.
Heads_Greatest == {item \in queue : \A other \in queue : item.value >= other.value}

\* The least head goes to the output buffer; which one, if several are equal,
\* is up to the priority queue.
Heads == {item \in queue : \A other \in queue : item.value <= other.value}

Pop(item) ==
    /\ pc = "merge"
    /\ item \in Heads
    /\ IF OutBuf + outLength \in Places
       THEN /\ memBuf' = [memBuf EXCEPT ![OutBuf + outLength] = item.value]
            /\ pc' = IF outLength + 1 = bufSize - 1 THEN "flush" ELSE "advance"
       ELSE /\ pc' = "undefined"
            /\ UNCHANGED memBuf
    /\ queue' = queue \ {item}
    /\ srcIndex' = item.srcIndex
    /\ outLength' = outLength + 1
    /\ UNCHANGED <<input, memory, files, inBufs, output, reported, unnoticed>>

\* Faulty variant: the output buffer is not emptied.
Written_Kept == /\ output' = output \o Pending
                /\ UNCHANGED <<outLength, reported, unnoticed>>

\* write of the output buffer; what a failed write should have written is lost.
Written == /\ \/ /\ output' = output \o Pending
                 /\ UNCHANGED reported
              \/ /\ "write" \in Faults
                 /\ \E n \in 0..(outLength - 1) : output' = output \o SubSeq(Pending, 1, n)
                 /\ reported' = TRUE
           /\ outLength' = 0
           /\ UNCHANGED unnoticed

Flush == /\ pc = "flush"
         /\ Written
         /\ pc' = "advance"
         /\ UNCHANGED <<input, memory, files, memBuf, inBufs, queue, srcIndex>>

\* Faulty variant: the refilled buffer is read from where the old one ended.
Advance_IndexKept ==
    /\ pc = "advance"
    /\ LET i   == srcIndex
           b   == inBufs[i + 1]
           f   == files[i + 1]
           new == NextOf(f)
       IN  \/ /\ b.length = 0
              /\ pc' = "merge"
              /\ UNCHANGED <<files, memBuf, inBufs, queue, unnoticed>>
           \/ /\ b.length > 0
              /\ queue' = queue \cup {[value |-> memBuf[Buffer(i) + b.index], srcIndex |-> i]}
              /\ \/ /\ b.length > 1
                    /\ inBufs' = [inBufs EXCEPT ![i + 1] = [length |-> b.length - 1,
                                                            index |-> b.index + 1]]
                    /\ pc' = "merge"
                    /\ UNCHANGED <<files, memBuf, unnoticed>>
                 \/ /\ b.length = 1 /\ f.open
                    /\ \E n \in 0..Len(new) :
                          /\ n = Len(new) \/ "fread" \in Faults
                          /\ inBufs' = [inBufs EXCEPT ![i + 1] = [length |-> n, index |-> b.index]]
                          /\ memBuf' = Filled(Buffer(i), SubSeq(new, 1, n))
                          /\ files' = [files EXCEPT ![i + 1].pos = @ + n,
                                                    ![i + 1].open = n = bufSize]
                          /\ unnoticed' = (unnoticed \/ n < Len(new))
                    /\ pc' = "merge"
                 \/ /\ b.length = 1 /\ ~f.open
                    /\ pc' = "undefined"
                    /\ UNCHANGED <<files, memBuf, inBufs, unnoticed>>
    /\ UNCHANGED <<input, memory, srcIndex, outLength, output, reported>>

\* Faulty variant: the buffer is taken for full whatever was read.
Advance_TakenForFull ==
    /\ pc = "advance"
    /\ LET i   == srcIndex
           b   == inBufs[i + 1]
           f   == files[i + 1]
           new == NextOf(f)
       IN  \/ /\ b.length = 0
              /\ pc' = "merge"
              /\ UNCHANGED <<files, memBuf, inBufs, queue, unnoticed>>
           \/ /\ b.length > 0
              /\ queue' = queue \cup {[value |-> memBuf[Buffer(i) + b.index], srcIndex |-> i]}
              /\ \/ /\ b.length > 1
                    /\ inBufs' = [inBufs EXCEPT ![i + 1] = [length |-> b.length - 1,
                                                            index |-> b.index + 1]]
                    /\ pc' = "merge"
                    /\ UNCHANGED <<files, memBuf, unnoticed>>
                 \/ /\ b.length = 1 /\ f.open
                    /\ \E n \in 0..Len(new) :
                          /\ n = Len(new) \/ "fread" \in Faults
                          /\ inBufs' = [inBufs EXCEPT ![i + 1] = [length |-> bufSize, index |-> 0]]
                          /\ memBuf' = Filled(Buffer(i), SubSeq(new, 1, n))
                          /\ files' = [files EXCEPT ![i + 1].pos = @ + n,
                                                    ![i + 1].open = n = bufSize]
                          /\ unnoticed' = (unnoticed \/ n < Len(new))
                    /\ pc' = "merge"
                 \/ /\ b.length = 1 /\ ~f.open
                    /\ pc' = "undefined"
                    /\ UNCHANGED <<files, memBuf, inBufs, unnoticed>>
    /\ UNCHANGED <<input, memory, srcIndex, outLength, output, reported>>

\* The next value of the chunk is queued, and its buffer refilled when that
\* was the last one there.  A refill that does not fill the buffer, at the end
\* of the file or because the read fails, closes the file without a message; to
\* read a closed file is undefined.
Advance ==
    /\ pc = "advance"
    /\ LET i   == srcIndex
           b   == inBufs[i + 1]
           f   == files[i + 1]
           new == NextOf(f)
       IN  \/ /\ b.length = 0
              /\ pc' = "merge"
              /\ UNCHANGED <<files, memBuf, inBufs, queue, unnoticed>>
           \/ /\ b.length > 0
              /\ queue' = queue \cup {[value |-> memBuf[Buffer(i) + b.index], srcIndex |-> i]}
              /\ \/ /\ b.length > 1
                    /\ inBufs' = [inBufs EXCEPT ![i + 1] = [length |-> b.length - 1,
                                                            index |-> b.index + 1]]
                    /\ pc' = "merge"
                    /\ UNCHANGED <<files, memBuf, unnoticed>>
                 \/ /\ b.length = 1 /\ f.open
                    /\ \E n \in 0..Len(new) :
                          /\ n = Len(new) \/ "fread" \in Faults
                          /\ inBufs' = [inBufs EXCEPT ![i + 1] = [length |-> n, index |-> 0]]
                          /\ memBuf' = Filled(Buffer(i), SubSeq(new, 1, n))
                          /\ files' = [files EXCEPT ![i + 1].pos = @ + n,
                                                    ![i + 1].open = n = bufSize]
                          /\ unnoticed' = (unnoticed \/ n < Len(new))
                    /\ pc' = "merge"
                 \/ /\ b.length = 1 /\ ~f.open
                    /\ pc' = "undefined"
                    /\ UNCHANGED <<files, memBuf, inBufs, unnoticed>>
    /\ UNCHANGED <<input, memory, srcIndex, outLength, output, reported>>

Finish == /\ pc = "merge"
          /\ queue = {}
          /\ IF outLength > 0 THEN Written ELSE UNCHANGED <<output, outLength, reported, unnoticed>>
          /\ pc' = "done"
          /\ UNCHANGED <<input, memory, files, memBuf, inBufs, queue, srcIndex>>

Ended == {"done", "failed", "undefined"}

Returned == pc \in Ended /\ UNCHANGED vars

Next == \/ Start \/ ReadChunk \/ ChunkFails \/ Fill \/ FillFails
        \/ \E item \in queue : Pop(item)
        \/ Flush \/ Advance \/ Finish
        \/ Returned

Spec == Init /\ [][Next]_vars

-----------------------------------------------------------------------------

File == [data : Seq(Values), pos : Nat, open : BOOLEAN]

TypeOK ==
    /\ input \in Inputs /\ memory \in Memories
    /\ pc \in Ended \cup {"start", "chunk", "fill", "merge", "flush", "advance"}
    /\ files \in Seq(File)
    /\ DOMAIN memBuf \subseteq Places
    /\ \A k \in DOMAIN memBuf : memBuf[k] \in Values \cup {0}
    /\ inBufs \in Seq([length : 0..bufSize, index : 0..bufSize])
    /\ queue \subseteq [value : Values, srcIndex : 0..(numChunks - 1)]
    /\ srcIndex \in Nat /\ outLength \in Nat
    /\ output \in Seq(Values)
    /\ reported \in BOOLEAN /\ unnoticed \in BOOLEAN

(***************************************************************************)
(* The sizes for which the merge works: every buffer has room for two      *)
(* values at least, and every chunk fills the input buffer a whole number  *)
(* of times.                                                               *)
(***************************************************************************)
BuffersFit ==
    /\ memory > 0
    /\ bufSize >= 2
    /\ \A i \in 0..(numChunks - 1) : Len(Chunk(i)) % bufSize = 0

\* No call has failed.
AllWell == ~reported /\ ~unnoticed

(***************************************************************************)
(* A sort in which no call fails ends with the whole input written in      *)
(* order, and its files closed, if the buffers fit (or there is nothing to *)
(* sort).                                                                  *)
(***************************************************************************)
SortsWhatFits ==
    pc \in Ended /\ AllWell /\ (size = 0 \/ BuffersFit) =>
        /\ pc = "done"
        /\ output = Sorted(input)
        /\ \A i \in DOMAIN files : ~files[i].open

(***************************************************************************)
(* It does so for every size, as externalSort is called and tested         *)
(* (README.md, sort_test.cpp).  The code does not: a last chunk shorter    *)
(* than a buffer stops it, buffers of no or one value lose the rest of     *)
(* their chunks, and a chunk that is not a number of whole buffers makes   *)
(* it read a file that is closed.                                          *)
(***************************************************************************)
SortsAnySize == pc \in Ended /\ AllWell => pc = "done" /\ output = Sorted(input)

(***************************************************************************)
(* What has been merged so far, in the file and in the output buffer, is   *)
(* the beginning of the sorted input, as long as no call has failed.       *)
(***************************************************************************)
MergedInOrder ==
    BuffersFit /\ AllWell /\ pc \in {"merge", "flush", "advance", "done"} =>
        LET merged == output \o Pending
        IN  merged = SubSeq(Sorted(input), 1, Len(merged))

(***************************************************************************)
(* During a merge in which no call has failed no value of the input is     *)
(* lost or doubled: each is written, in a buffer not yet read, in the      *)
(* queue, or still in a file; and each chunk that is not used up has its   *)
(* least value in the queue.                                               *)
(***************************************************************************)
Unread(i) == [k \in 1..inBufs[i + 1].length |-> memBuf[Buffer(i) + inBufs[i + 1].index + k - 1]]
InFile(i) == SubSeq(files[i + 1].data, files[i + 1].pos + 1, Len(files[i + 1].data))
Queued(i) == {item \in queue : item.srcIndex = i}

RestOf(i) == FoldSet(LAMBDA item, rest : <<item.value>> \o rest, Unread(i) \o InFile(i), Queued(i))

NothingLost ==
    BuffersFit /\ AllWell /\ pc = "merge" =>
        /\ Sorted(FoldSet(LAMBDA i, all : all \o RestOf(i), output \o Pending,
                           0..(numChunks - 1))) = Sorted(input)
        /\ \A i \in 0..(numChunks - 1) :
              /\ Queued(i) = {} => Unread(i) = << >> /\ InFile(i) = << >>
              /\ RestOf(i) = Sorted(RestOf(i))

(***************************************************************************)
(* Whatever the sizes and whatever fails, noticed or not: the output file  *)
(* is in ascending order and has no value more often than the input.  What *)
(* a refill that fails leaves in its buffer is not merged again.           *)
(***************************************************************************)
Times(v, s) == Cardinality({k \in DOMAIN s : s[k] = v})

OutputInOrder ==
    /\ \A k \in 2..Len(output) : output[k - 1] <= output[k]
    /\ \A v \in Values : Times(v, output) <= Times(v, input)
=============================================================================
