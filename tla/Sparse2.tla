------------------------------- MODULE Sparse2 -------------------------------
(***************************************************************************)
(* A sparse file of two files, NewSparse2 and writeAt2 of                  *)
(* sparse/sparse.go: the records of offsets are appended to a second file  *)
(* after the data.                                                         *)
(***************************************************************************)
EXTENDS Sparse

VARIABLES offsets   \* the offsets file

vars2 == <<data, offsets, up, memory, writes, history>>

Init2 == SparseInit /\ offsets = << >>

\* The record of writeAt2, after the data at dataSize.
NewRecord2(w) == Record(w.off, dataSize, Len(w.bytes))

\* Mutant: the differences are from the start, not from the record before.
NextPrev_Kept(r) == prev

\* writeOffsets leaves the record for the next one.
NextPrev(r) == r

WriteAt2(p, off) ==
  /\ MayWrite /\ ~Skipped(p, off)
  /\ writes' = writes + 1
  /\ LET w == Trimmed(p, off)
         r == NewRecord2(w)
     IN /\ data' = data \o w.bytes
        /\ offsets' = offsets \o Differences(prev, r)
        /\ prev' = NextPrev(r)
        /\ index' = Write(index, r.off, r.diskStart, r.length)
        /\ dataSize' = dataSize + r.length
  /\ Acknowledged(p, off)
  /\ UNCHANGED <<up, broken>>

\* The first append of writeAt2 fails.
FailData(p, off) ==
  /\ MayWrite /\ ~Skipped(p, off)
  /\ writes' = writes + 1
  /\ FailAppend(data, Trimmed(p, off).bytes)
  /\ Spoil
  /\ Failed(p, off)
  /\ UNCHANGED <<offsets, up, index, prev, dataSize>>

\* The second one fails, or the process dies before it.
FailOffsets(p, off) ==
  /\ MayWrite /\ ~Skipped(p, off)
  /\ writes' = writes + 1
  /\ LET w == Trimmed(p, off)
         r == NewRecord2(w)
     IN /\ data' = data \o w.bytes
        /\ FailAppend(offsets, Differences(prev, r))
        /\ prev' = NextPrev(r)
  /\ Spoil
  /\ Failed(p, off)
  /\ UNCHANGED <<up, index, dataSize>>

Loaded2 == PutOffsets([index |-> {}, prev |-> NoRecord], offsets)

\* The check at the end of NewSparse2.
SizesAgree == Len(data) = Loaded2.prev.diskStart + Loaded2.prev.length

Opens2 == WholeRecords(offsets) /\ SizesAgree

\* NewSparse2; when it refuses the files, nothing changes.
Open2 ==
  /\ ~up /\ Opens2
  /\ Reopened(Loaded2)
  /\ UNCHANGED offsets

Next2 ==
  \/ \E p \in Payloads, off \in 0 .. Size - 1 :
       /\ off + Len(p) <= Size
       /\ \/ SkipZeros(p, off) /\ UNCHANGED offsets
          \/ WriteAt2(p, off)
          \/ FailData(p, off)
          \/ FailOffsets(p, off)
  \/ Close /\ UNCHANGED offsets
  \/ Open2

===============================================================================
