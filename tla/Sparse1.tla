------------------------------- MODULE Sparse1 -------------------------------
(***************************************************************************)
(* A sparse file of one file (NewSparse1 and writeAt1 of sparse/sparse.go, *)
(* and sparse/chain.go).  A write appends one entry,                       *)
(*                                                                         *)
(*   length, bytes, parent pointer, length of offsets, offsets, tail       *)
(*                                                                         *)
(* whose offsets repeat all records since its parent: the k-th entry has   *)
(* those of as many writes as the lowest bit of k says, so that the file   *)
(* is opened by walking from its end over as many entries as k has bits.   *)
(* The tail is four cells, little endian.                                  *)
(***************************************************************************)
EXTENDS Sparse

VARIABLES
  offsetsBytes,   \* all records
  chain,          \* chain.chain
  nPushed         \* chain.nPushed

chainVars == <<offsetsBytes, chain, nPushed>>
vars1 == <<data, up, memory, chainVars, writes, history>>

Elem(inOffsets, inData) == [inOffsets |-> inOffsets, inData |-> inData]
NoElem == Elem(0, 0)

Init1 ==
  /\ SparseInit
  /\ offsetsBytes = << >> /\ chain = << >> /\ nPushed = 0

-----------------------------------------------------------------------------
(* The chain                                                               *)

\* 1, doubled j times.
pow2[j \in Nat] == IF j = 0 THEN 1 ELSE 2 * pow2[j - 1]

countZeroBits(i) == Max({n \in 0 .. i : i % pow2[n] = 0})

\* Mutant: the element goes to its own level only.
Pushed_OneLevel(c, n, e) ==
  LET affected == countZeroBits(n)
  IN [i \in 1 .. Max({Len(c), affected}) |-> IF i = affected THEN e ELSE c[i]]

\* push of the n-th element.
Pushed(c, n, e) ==
  LET affected == countZeroBits(n)
  IN [i \in 1 .. Max({Len(c), affected}) |-> IF i <= affected THEN e ELSE c[i]]

\* Mutant: the level below.
Level_Below == IF nPushed = 0 THEN 0 ELSE countZeroBits(nPushed)

\* The index in parent, from 0.
Level == countZeroBits(nPushed + 1)

\* parent
Parent ==
  IF nPushed = 0 \/ Level >= Len(chain) THEN NoElem ELSE chain[Level + 1]

\* The panics of push and parent, before an element is pushed.
ChainPanics ==
  \/ Len(chain) < countZeroBits(nPushed + 1) - 1
  \/ nPushed > 0 /\ (Level = Len(chain) \/ Level > Len(chain) + 1)

\* restore does not refuse the sizes.
SizesFit(sizes) ==
  /\ \A i \in DOMAIN sizes : \E j \in 0 .. MaxWrites : sizes[i] = pow2[j]
  /\ \A i \in 2 .. Len(sizes) : sizes[i - 1] >= sizes[i]

\* restore: the level for 2^j has the last of the entries that are as large.
RestoredChain(elems, sizes) ==
  [j \in {l \in 1 .. MaxWrites : pow2[l] <= sizes[1]} |->
     elems[Max({i \in DOMAIN sizes : sizes[i] >= pow2[j]})]]

-----------------------------------------------------------------------------
(* WriteAt1                                                                 *)

\* The record of the bytes, after their length.
NewRecord1(w) == Record(w.off, dataSize + 1, Len(w.bytes))

\* Where the parent pointer of the entry of w will be.
ParentPtr(w) == dataSize + 1 + Len(w.bytes)

AllOffsets(w) == offsetsBytes \o Differences(prev, NewRecord1(w))

TailOf(n) == <<n, 0, 0, 0>>

\* The cells of the entry of w.
Entry(w) ==
  LET offs == SubSeq(AllOffsets(w), Parent.inOffsets + 1, Len(AllOffsets(w)))
  IN <<Len(w.bytes)>> \o w.bytes
       \o <<IF Parent.inData # 0 THEN ParentPtr(w) - Parent.inData ELSE 0, Len(offs)>>
       \o offs \o TailOf(2 + Len(offs))

WriteAt1(p, off) ==
  /\ MayWrite /\ ~Skipped(p, off)
  /\ writes' = writes + 1
  /\ LET w == Trimmed(p, off)
         r == NewRecord1(w)
     IN /\ data' = data \o Entry(w)
        /\ dataSize' = dataSize + Len(Entry(w))
        /\ offsetsBytes' = AllOffsets(w)
        /\ prev' = r
        /\ nPushed' = nPushed + 1
        /\ chain' = Pushed(chain, nPushed + 1, Elem(Len(AllOffsets(w)), ParentPtr(w)))
        /\ index' = Write(index, r.off, r.diskStart, r.length)
  /\ Acknowledged(p, off)
  /\ UNCHANGED <<up, broken>>

\* The append fails, or the process dies in it.
FailWrite(p, off) ==
  /\ MayWrite /\ ~Skipped(p, off)
  /\ writes' = writes + 1
  /\ LET w == Trimmed(p, off)
     IN /\ FailAppend(data, Entry(w))
        /\ offsetsBytes' = AllOffsets(w)
        /\ prev' = NewRecord1(w)
  /\ Spoil
  /\ Failed(p, off)
  /\ UNCHANGED <<up, index, dataSize, chain, nPushed>>

-----------------------------------------------------------------------------
(* NewSparse1; pointers count from 0, cells from 1                         *)

LastPtr ==
  LET n == Len(data)
      tail == data[n - 3] + 256 * data[n - 2] + 65536 * data[n - 1] + 16777216 * data[n]
  IN IF tail < 5 THEN -1 ELSE n - 4 - tail

\* Where a header can be: with its offsets before the last tail.
Headers ==
  {p \in 0 .. Len(data) - 6 :
     data[p + 1] >= 0 /\ data[p + 2] >= 0 /\ p + 2 + data[p + 2] <= Len(data) - 4}

OffsetsAt(p) == SubSeq(data, p + 3, p + 2 + data[p + 2])

\* What is read back along the parents, from the oldest entry to the one whose
\* header is at p: the loop that follows the pointers and the one that parses the
\* offsets, or that one of the two fails.
Refused == [ok |-> FALSE]
Nothing == [ok |-> TRUE, offsets |-> << >>, elements |-> << >>, sizes |-> << >>]

ReadBack[p \in Headers] ==
  LET older == IF data[p + 1] = 0 THEN Nothing
               ELSE IF p - data[p + 1] \in Headers THEN ReadBack[p - data[p + 1]]
               ELSE Refused
      o == OffsetsAt(p)
  IN IF ~older.ok \/ ~WholeRecords(o) THEN Refused
     ELSE [ok       |-> TRUE,
           offsets  |-> older.offsets \o o,
           elements |-> Append(older.elements, Elem(Len(older.offsets) + Len(o), p)),
           sizes    |-> Append(older.sizes, Len(o) \div 3)]

Walk == IF LastPtr \in Headers THEN ReadBack[LastPtr] ELSE Refused

Loaded1 == PutOffsets([index |-> {}, prev |-> NoRecord], Walk.offsets)

Opens1 == data = << >> \/ (Len(data) >= 4 /\ Walk.ok /\ SizesFit(Walk.sizes))

OpenEmpty1 ==
  /\ ~up /\ data = << >>
  /\ Reopened([index |-> {}, prev |-> NoRecord])
  /\ offsetsBytes' = << >> /\ chain' = << >> /\ nPushed' = 0

\* The sizes add up to the number of records.
Open1 ==
  /\ ~up /\ data # << >> /\ Opens1
  /\ Reopened(Loaded1)
  /\ offsetsBytes' = Walk.offsets
  /\ chain' = RestoredChain(Walk.elements, Walk.sizes)
  /\ nPushed' = Len(Walk.offsets) \div 3

Next1 ==
  \/ \E p \in Payloads, off \in 0 .. Size - 1 :
       /\ off + Len(p) <= Size
       /\ \/ SkipZeros(p, off) /\ UNCHANGED chainVars
          \/ WriteAt1(p, off)
          \/ FailWrite(p, off)
  \/ Close /\ UNCHANGED chainVars
  \/ OpenEmpty1
  \/ Open1

===============================================================================
