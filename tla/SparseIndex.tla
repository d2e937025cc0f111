----------------------------- MODULE SparseIndex -----------------------------
(***************************************************************************)
(* The index of a sparse file (sparse/llrbindex/llrbindex.go): which bytes *)
(* are where in the data file.  The tree of chunks, ordered by their start *)
(* and with at most one chunk for a start, is the set of its chunks.       *)
(***************************************************************************)
EXTENDS Integers

Chunk(start, diskStart, length) ==
  [start |-> start, diskStart |-> diskStart, length |-> length]

Chunks == [start : Nat, diskStart : Nat, length : Nat]

End(c) == c.start + c.length

\* Tree.Insert, which replaces the chunk with the same start.
Insert(index, c) == {d \in index : d.start # c.start} \cup {c}

\* guide.Compare gives 0.
Overlaps(index, start, length) ==
  {c \in index : c.start < start + length /\ start < End(c)}

\* Mutant: the chunk keeps its length.
Left_Uncut(c, start) == c

\* What a write leaves of a chunk on its left and on its right.
Left(c, start) == Chunk(c.start, c.diskStart, start - c.start)
Right(c, end)  == Chunk(end, c.diskStart + (end - c.start), End(c) - end)

Remainders(index, start, length) ==
  LET old == Overlaps(index, start, length)
  IN {Left(c, start) : c \in {d \in old : d.start < start}}
       \cup {Right(c, start + length) : c \in {d \in old : start + length < End(d)}}

Write(index, start, diskStart, length) ==
  Insert((index \ Overlaps(index, start, length)) \cup Remainders(index, start, length),
         Chunk(start, diskStart, length))

\* Tree.Floor and Tree.Ceil.
Floor(index, x) ==
  {c \in index : c.start <= x /\ \A d \in index : d.start <= x => d.start <= c.start}
Ceil(index, x) ==
  {c \in index : c.start >= x /\ \A d \in index : d.start >= x => d.start >= c.start}

Covering(index, x) == {c \in Floor(index, x) : x < End(c)}

\* What is stored of x: where, how much in one piece, and how much nothing
\* follows (-1: nothing at all is stored after it).
Read(index, x) ==
  LET slice == {[diskStart |-> c.diskStart + (x - c.start), length |-> End(c) - x] :
                  c \in Covering(index, x)}
      at == IF slice = {} THEN [diskStart |-> 0, length |-> 0]
            ELSE CHOOSE s \in slice : TRUE
  IN [diskStart |-> at.diskStart,
      length    |-> at.length,
      gap       |-> IF Ceil(index, x + 1) = {} THEN -1
                    ELSE (CHOOSE c \in Ceil(index, x + 1) : TRUE).start - (x + at.length)]

\* Chunks share no byte.
Disjoint(index) ==
  \A c, d \in index : c # d => End(c) <= d.start \/ End(d) <= c.start

=============================================================================
