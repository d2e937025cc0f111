------------------------------ MODULE DevInDir ------------------------------
(***************************************************************************)
(* A file of fixed size in a directory of block files                      *)
(* (devindir/devindir.go), as FUSE reads and writes it.  A block file is   *)
(* created by the first write to its block and opened with O_EXCL, so that *)
(* a block is written once.                                                *)
(***************************************************************************)
EXTENDS Integers, Sequences, FiniteSets, SequencesExt

CONSTANTS
  BlockSize,   \* f.bs
  Size,        \* f.size, and bound of the ranges
  Bytes,       \* what is written, other than 0
  MaxLength    \* bound: bytes of a request

VARIABLES
  blocks,    \* the block files, by number
  written,   \* history: the bytes that were acknowledged
  crashed    \* a slice was out of range

vars == <<blocks, written, crashed>>

Offsets == 0 .. Size - 1

Init == blocks = << >> /\ written = [x \in Offsets |-> 0] /\ crashed = FALSE

\* blocks, the blocks of a range
BlocksOf(off, size) == off \div BlockSize .. (off + size - 1) \div BlockSize

\* coords: the place of a block in the request, how much of it, and the place
\* in the block.
Coords(b, off, size) ==
  LET destBegin == Max({0, b * BlockSize - off})
  IN [dest   |-> destBegin,
      opSize |-> Min({size, (b + 1) * BlockSize - off}) - destBegin,
      file   |-> Max({0, off - b * BlockSize})]

\* What Read and Write make of it: the slice from dest to opSize.
SliceLength(c) == c.opSize - c.dest
SlicePanics(c) == c.opSize < c.dest

-----------------------------------------------------------------------------

\* Blocks before the first that stops the loop of Write, an existing one (EIO)
\* or one whose slice panics.
Stops(b, off, size) == b \in DOMAIN blocks \/ SlicePanics(Coords(b, off, size))
Passed(off, size) ==
  {b \in BlocksOf(off, size) :
     \A a \in BlocksOf(off, size) : a <= b => ~Stops(a, off, size)}

\* The file that the write of block b makes; what is before is a hole.
NewBlock(b, off, data) ==
  LET c == Coords(b, off, Len(data))
  IN IF SliceLength(c) = 0 THEN << >>
     ELSE [i \in 1 .. c.file |-> 0] \o SubSeq(data, c.dest + 1, c.opSize)

Write(off, data) ==
  LET size == Len(data)
      passed == Passed(off, size)
      rest == BlocksOf(off, size) \ passed
      n == FoldSet(LAMBDA b, sum : sum + SliceLength(Coords(b, off, size)), 0, passed)
  IN /\ off < Size
     /\ blocks' = [b \in DOMAIN blocks \cup passed \cup
                       {r \in rest : r \notin DOMAIN blocks /\ r = Min(rest)} |->
                     IF b \in DOMAIN blocks THEN blocks[b]
                     ELSE IF b \in passed THEN NewBlock(b, off, data) ELSE << >>]
     /\ crashed' = (rest # {} /\ Min(rest) \notin DOMAIN blocks)
     /\ written' = IF rest # {} THEN written
                   ELSE [x \in Offsets |-> IF x \in off .. off + n - 1 THEN data[x - off + 1]
                                           ELSE written[x]]

\* What Read gives for size bytes: missing blocks are zeros, and so is what is
\* after the end of a block file.
ReadBytes(off, size) ==
  [i \in 1 .. size |->
     LET b == (off + i - 1) \div BlockSize
         c == Coords(b, off, size)
         at == c.file + (i - c.dest)
     IN IF b \in DOMAIN blocks /\ i - 1 \in c.dest .. c.opSize - 1 /\ at <= Len(blocks[b])
        THEN blocks[b][at] ELSE 0]

Next ==
  /\ ~crashed
  /\ \E off \in Offsets, size \in 1 .. MaxLength :
       \E byte \in Bytes :
         off + size <= Size /\ Write(off, [i \in 1 .. size |-> byte + i - 1])

Spec == Init /\ [][Next]_vars

-----------------------------------------------------------------------------
(* Properties                                                              *)

Acknowledged(off, size) ==
  \A x \in off .. off + size - 1 : written[x] # 0

\* What FUSE was told is written is read, "first block" and "last block" of a
\* request included.
ReadsAcrossBlocks ==
  \A off \in Offsets : \A size \in 1 .. Size - off :
    Acknowledged(off, size)
      => ReadBytes(off, size) = [i \in 1 .. size |-> written[off + i - 1]]

=============================================================================
