-------------------------------- MODULE Sparse --------------------------------
(***************************************************************************)
(* A sparse file (sparse/sparse.go): bytes are appended to a data file and *)
(* an index says where the last version of each is.  This module has what  *)
(* the two kinds of file share: the state, what WriteAt decides before it  *)
(* appends, and the records of offsets.  Sparse2 keeps the records in a    *)
(* file of their own, Sparse1 in the data file; SparseFiles has both.      *)
(*                                                                         *)
(* A file is a sequence of cells; a varint is one cell, a byte is one.     *)
(***************************************************************************)
EXTENDS SparseIndex, Sequences, FiniteSets, SequencesExt

CONSTANTS
  Size,       \* bound: bytes 0 .. Size - 1 of the file are looked at
  Payloads,   \* bound: the byte sequences that are written
  TrimOver,   \* zeros worth leaving out, 100 in WriteAt
  MaxWrites   \* bound: calls of WriteAt

\* Bytes are numbers; a write of none would spoil the index.
ASSUME SparseAssumption ==
  /\ Size \in Nat /\ TrimOver \in Nat /\ MaxWrites \in Nat
  /\ \A p \in Payloads : p \in Seq(Nat) /\ p # << >>

VARIABLES
  data,       \* the data file
  up,         \* the file is open
  index, prev, dataSize, broken,   \* the fields of Sparse
  writes,
  written,    \* history: the bytes that acknowledged writes have left
  limbo,      \* history: the same with the write that failed, if one did
  zeroed,     \* history: bytes last written as zeros, which WriteAt may leave out
  failed      \* history: a write has failed since the file was opened

memory  == <<index, prev, dataSize, broken>>
history == <<written, limbo, zeroed, failed>>

NoRecord == [off |-> 0, diskStart |-> 0, length |-> 0]

SparseInit ==
  /\ data = << >> /\ up = TRUE
  /\ index = {} /\ prev = NoRecord /\ dataSize = 0 /\ broken = FALSE
  /\ writes = 0
  /\ written = [x \in 0 .. Size - 1 |-> 0] /\ limbo = written
  /\ zeroed = {} /\ failed = FALSE

-----------------------------------------------------------------------------
(* Records of offsets: each holds differences from the one before.         *)

Record(off, diskStart, length) == [off |-> off, diskStart |-> diskStart, length |-> length]

\* writeOffsets
Differences(p, r) == <<r.off - p.off, r.diskStart - p.diskStart, r.length - p.length>>

\* One record of putOffsets.
PutRecord(s, d) ==
  LET r == Record(s.prev.off + d[1], s.prev.diskStart + d[2], s.prev.length + d[3])
  IN [index |-> Write(s.index, r.off, r.diskStart, r.length), prev |-> r]

\* putOffsets; a cell that is missing is a bad varint.
WholeRecords(cells) == Len(cells) % 3 = 0
PutOffsets(s, cells) ==
  FoldLeft(PutRecord, s, [i \in 1 .. Len(cells) \div 3 |-> SubSeq(cells, 3 * i - 2, 3 * i)])

-----------------------------------------------------------------------------
(* ReadAt and WriteAt                                                      *)

\* What ReadAt gives for each byte; gaps are zeroed.
ContentOf(ix) ==
  [x \in 0 .. Size - 1 |->
     LET at == Read(ix, x) IN IF at.length = 0 THEN 0 ELSE data[at.diskStart + 1]]

Content == ContentOf(index)

AllZeros(p) == \A i \in DOMAIN p : p[i] = 0
PrefixZeros(p) == Cardinality({i \in DOMAIN p : AllZeros(SubSeq(p, 1, i))})
SuffixZeros(p) == Cardinality({i \in DOMAIN p : AllZeros(SubSeq(p, i, Len(p)))})

\* The condition of "writing to new place": nothing is stored from off on, or
\* the gap that follows what is stored at off is longer than p.
NewPlace(p, off) ==
  LET at == Read(index, off) IN (at.length = 0 /\ at.gap = -1) \/ at.gap > Len(p)

Skipped(p, off) == NewPlace(p, off) /\ AllZeros(p)

\* Mutant: the offset stays when zeros are left out before the bytes.
Trimmed_SameOff(p, off) ==
  LET pz == PrefixZeros(p)
      sz == SuffixZeros(p)
  IN IF NewPlace(p, off) /\ pz + sz > TrimOver
     THEN [bytes |-> SubSeq(p, pz + 1, Len(p) - sz), off |-> off]
     ELSE [bytes |-> p, off |-> off]

\* The bytes that are appended, and their place.
Trimmed(p, off) ==
  LET pz == PrefixZeros(p)
      sz == SuffixZeros(p)
  IN IF NewPlace(p, off) /\ pz + sz > TrimOver
     THEN [bytes |-> SubSeq(p, pz + 1, Len(p) - sz), off |-> off + pz]
     ELSE [bytes |-> p, off |-> off]

Overlay(content, p, off) ==
  [x \in DOMAIN content |->
     IF x \in off .. off + Len(p) - 1 THEN p[x - off + 1] ELSE content[x]]

MayWrite == up /\ ~broken /\ writes < MaxWrites

ZerosOf(p, off) == {off + i - 1 : i \in {j \in DOMAIN p : p[j] = 0}}

Acknowledged(p, off) ==
  /\ written' = Overlay(written, p, off)
  /\ limbo' = written'
  /\ zeroed' = (zeroed \ (off .. off + Len(p) - 1)) \cup ZerosOf(p, off)
  /\ UNCHANGED failed

\* The data of failing writes may be on disk all the same.
Failed(p, off) ==
  /\ limbo' = Overlay(written, p, off)
  /\ zeroed' = zeroed \cup ZerosOf(p, off)
  /\ failed' = TRUE
  /\ UNCHANGED written

\* WriteAt has nothing to store.
SkipZeros(p, off) ==
  /\ MayWrite /\ Skipped(p, off)
  /\ writes' = writes + 1
  /\ Acknowledged(p, off)
  /\ UNCHANGED <<data, up, memory>>

Spoil == broken' = TRUE

\* A part of the cells is appended, or all of them, and an error returned.
FailAppend(file, cells) == \E k \in 0 .. Len(cells) : file' = file \o SubSeq(cells, 1, k)

\* The process ends, in the middle of a write if one has failed.
Close ==
  /\ up
  /\ up' = FALSE
  /\ UNCHANGED <<data, memory, writes, history>>

\* NewSparse1 and NewSparse2 have read the index and prev.  (Until then the
\* variables of memory hold what the process had when it ended.)
Reopened(s) ==
  /\ up' = TRUE /\ broken' = FALSE /\ failed' = FALSE
  /\ index' = s.index /\ prev' = s.prev /\ dataSize' = Len(data)
  /\ written' = IF ContentOf(s.index) = Content THEN written ELSE limbo
  /\ limbo' = written'
  /\ UNCHANGED <<data, writes, zeroed>>

-----------------------------------------------------------------------------
(* Properties                                                              *)

\* A read gives the last bytes written, whatever has failed and however often
\* the file was reopened; after a failed write and a reopening it gives the
\* bytes before or after that write, all of them.  Only zeros may be missing:
\* those written over data are left out when a longer gap follows the data.
ReadsLastWrite ==
  up => \A x \in DOMAIN written \ zeroed : Content[x] = written[x]

\* Chunks never overlap, and the index names bytes the data file has.
IndexIsSound ==
  Disjoint(index) /\ \A c \in index : c.diskStart + c.length <= Len(data)

=============================================================================
