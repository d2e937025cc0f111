------------------------------ MODULE SparseProofs ------------------------------
(***************************************************************************)
(* Proofs about sparse files, for any size, payloads and number of writes. *)
(* The index: Write keeps chunks apart and overlays exactly the bytes it   *)
(* was given, and Read finds what is stored; all of it needs a write of at *)
(* least one byte.  Files of two files: the index names bytes that the     *)
(* data file has, reads give what was written last, and only a write that  *)
(* failed can leave files that a start refuses.  Files of one file: the    *)
(* data file is a log of entries, the k-th of which has the parent whose   *)
(* number is k without its lowest bit, and the records since; reading back *)
(* along the parents gives all records, and restore the chain of all       *)
(* entries.  So the same holds of them, as long as no torn entry is taken  *)
(* for a whole one, which depends on the bytes that are written.           *)
(***************************************************************************)
EXTENDS SparseFiles, TLAPS, FiniteSetTheorems, SequenceTheorems,
        NaturalsInduction, WellFoundedInduction

\* What the index of a file is, as long as no empty write was made.
WellFormed(ix) ==
  /\ ix \subseteq [start : Int, diskStart : Int, length : Nat \ {0}]
  /\ Disjoint(ix)

\* Byte x of the file is byte d of the data file.
Stores(ix, x, d) ==
  \E c \in ix : c.start <= x /\ x < End(c) /\ d = c.diskStart + (x - c.start)

InRange(x, start, length) == start <= x /\ x < start + length

\* A part of a chunk, at the place it has in it.
PartOf(p, c) ==
  /\ p \in [start : Int, diskStart : Int, length : Nat \ {0}]
  /\ c.start <= p.start /\ End(p) <= End(c)
  /\ p.diskStart - c.diskStart = p.start - c.start

-----------------------------------------------------------------------------
(* What is left of the chunks                                              *)

\* What is left of a chunk before a write is a part of it.
LEMMA LeftPart ==
  ASSUME NEW c \in [start : Int, diskStart : Int, length : Nat \ {0}],
         NEW start \in Int, c.start < start, start < End(c)
  PROVE  PartOf(Left(c, start), c) /\ End(Left(c, start)) = start
                                   /\ Left(c, start).start = c.start
  BY DEF PartOf, Left, Chunk, End

\* And what is left behind it.
LEMMA RightPart ==
  ASSUME NEW c \in [start : Int, diskStart : Int, length : Nat \ {0}],
         NEW end \in Int, c.start < end, end < End(c)
  PROVE  PartOf(Right(c, end), c) /\ Right(c, end).start = end
                                  /\ End(Right(c, end)) = End(c)
  BY DEF PartOf, Right, Chunk, End

\* The chunks that are there before the new one is inserted.
Kept(ix, start, length) ==
  (ix \ Overlaps(ix, start, length)) \cup Remainders(ix, start, length)

\* What a write keeps of the index are parts of chunks outside its bytes.
LEMMA KeptIsPart ==
  ASSUME NEW ix, WellFormed(ix), NEW start \in Int, NEW length \in Nat \ {0},
         NEW k \in Kept(ix, start, length)
  PROVE  /\ \E c \in ix : PartOf(k, c)
         /\ End(k) <= start \/ start + length <= k.start
<1>1. CASE k \in ix \ Overlaps(ix, start, length)
  BY <1>1 DEF WellFormed, PartOf, Overlaps, End
<1>2. CASE k \in Remainders(ix, start, length)
  <2>1. CASE \E c \in Overlaps(ix, start, length) : c.start < start /\ k = Left(c, start)
    <3>1. PICK c \in Overlaps(ix, start, length) : c.start < start /\ k = Left(c, start)
      BY <2>1
    <3>2. c \in [start : Int, diskStart : Int, length : Nat \ {0}] /\ start < End(c) /\ c \in ix
      BY <3>1 DEF Overlaps, WellFormed
    <3>3. PartOf(k, c) /\ End(k) = start
      BY <3>1, <3>2, LeftPart
    <3> QED BY <3>2, <3>3
  <2>2. CASE \E c \in Overlaps(ix, start, length) :
                start + length < End(c) /\ k = Right(c, start + length)
    <3>1. PICK c \in Overlaps(ix, start, length) :
                 start + length < End(c) /\ k = Right(c, start + length)
      BY <2>2
    <3>2. /\ c \in [start : Int, diskStart : Int, length : Nat \ {0}]
          /\ c.start < start + length /\ c \in ix
      BY <3>1 DEF Overlaps, WellFormed
    <3>3. PartOf(k, c) /\ k.start = start + length
      BY <3>1, <3>2, RightPart
    <3> QED BY <3>2, <3>3
  <2> QED BY <1>2, <2>1, <2>2 DEF Remainders
<1> QED BY <1>1, <1>2 DEF Kept

\* Insert replaces nothing: whatever is kept starts elsewhere.
LEMMA WriteIsKeptAndNew ==
  ASSUME NEW ix, WellFormed(ix), NEW start \in Int, NEW diskStart \in Int,
         NEW length \in Nat \ {0}
  PROVE  Write(ix, start, diskStart, length)
           = Kept(ix, start, length) \cup {Chunk(start, diskStart, length)}
<1>1. \A k \in Kept(ix, start, length) : k.start # start
  <2> TAKE k \in Kept(ix, start, length)
  <2>1. PICK c \in ix : PartOf(k, c)
    BY KeptIsPart
  <2>2. End(k) <= start \/ start + length <= k.start
    BY KeptIsPart
  <2> QED BY <2>1, <2>2 DEF PartOf, End
<1> QED BY <1>1 DEF Write, Insert, Kept, Chunk

\* Two different parts of chunks that are kept share no byte.
LEMMA KeptDisjoint ==
  ASSUME NEW ix, WellFormed(ix), NEW start \in Int, NEW length \in Nat \ {0}
  PROVE  Disjoint(Kept(ix, start, length))
<1> SUFFICES ASSUME NEW k \in Kept(ix, start, length), NEW l \in Kept(ix, start, length),
                    k # l
             PROVE  End(k) <= l.start \/ End(l) <= k.start
  BY DEF Disjoint
<1>1. PICK c \in ix : PartOf(k, c)
  BY KeptIsPart
<1>2. PICK d \in ix : PartOf(l, d)
  BY KeptIsPart
<1>3. /\ End(k) <= start \/ start + length <= k.start
      /\ End(l) <= start \/ start + length <= l.start
  BY KeptIsPart
<1>4. CASE c # d
  <2>1. End(c) <= d.start \/ End(d) <= c.start
    BY <1>4 DEF WellFormed, Disjoint
  <2>2. /\ c \in [start : Int, diskStart : Int, length : Nat \ {0}]
        /\ d \in [start : Int, diskStart : Int, length : Nat \ {0}]
    BY DEF WellFormed
  <2> QED BY <1>1, <1>2, <2>1, <2>2 DEF PartOf, End
<1>5. CASE c = d
  \* Both are remainders of one chunk, its left and its right.
  <2>1. ASSUME NEW m \in Kept(ix, start, length), NEW e \in ix, PartOf(m, e)
        PROVE  \/ m = e /\ e \notin Overlaps(ix, start, length)
               \/ e \in Overlaps(ix, start, length) /\ m = Left(e, start)
               \/ e \in Overlaps(ix, start, length) /\ m = Right(e, start + length)
    <3>1. ASSUME NEW b \in ix, PartOf(m, b) PROVE b = e
      <4>1. End(b) <= e.start \/ End(e) <= b.start \/ b = e
        BY DEF WellFormed, Disjoint
      <4>2. /\ b \in [start : Int, diskStart : Int, length : Nat \ {0}]
            /\ e \in [start : Int, diskStart : Int, length : Nat \ {0}]
        BY DEF WellFormed
      <4> QED BY <2>1, <3>1, <4>1, <4>2 DEF PartOf, End
    <3>2. CASE m \in ix \ Overlaps(ix, start, length)
      <4>1. PartOf(m, m)
        BY <3>2 DEF WellFormed, PartOf, End
      <4> QED BY <3>1, <3>2, <4>1
    <3>3. CASE \E b \in Overlaps(ix, start, length) : b.start < start /\ m = Left(b, start)
      <4>1. PICK b \in Overlaps(ix, start, length) : b.start < start /\ m = Left(b, start)
        BY <3>3
      <4>2. b \in [start : Int, diskStart : Int, length : Nat \ {0}] /\ start < End(b) /\ b \in ix
        BY <4>1 DEF Overlaps, WellFormed
      <4>3. PartOf(m, b)
        BY <4>1, <4>2, LeftPart
      <4> QED BY <3>1, <4>1, <4>2, <4>3
    <3>4. CASE \E b \in Overlaps(ix, start, length) :
                  start + length < End(b) /\ m = Right(b, start + length)
      <4>1. PICK b \in Overlaps(ix, start, length) :
                   start + length < End(b) /\ m = Right(b, start + length)
        BY <3>4
      <4>2. /\ b \in [start : Int, diskStart : Int, length : Nat \ {0}]
            /\ b.start < start + length /\ b \in ix
        BY <4>1 DEF Overlaps, WellFormed
      <4>3. PartOf(m, b)
        BY <4>1, <4>2, RightPart
      <4> QED BY <3>1, <4>1, <4>2, <4>3
    <3> QED BY <3>2, <3>3, <3>4 DEF Kept, Remainders
  <2>2. \/ k = Left(c, start) /\ l = Right(c, start + length)
        \/ k = Right(c, start + length) /\ l = Left(c, start)
    BY <1>1, <1>2, <1>5, <2>1
  <2>3. c \in [start : Int, diskStart : Int, length : Nat \ {0}]
    BY DEF WellFormed
  <2> QED BY <2>2, <2>3, <1>3 DEF Left, Right, Chunk, End
<1> QED BY <1>4, <1>5

-----------------------------------------------------------------------------

\* Whatever is written over whatever chunks, Index.Write leaves chunks that
\* share no byte, so that a byte of the file has one place at most.
THEOREM WriteKeepsChunksApart ==
  ASSUME NEW ix, WellFormed(ix), NEW start \in Int, NEW diskStart \in Int,
         NEW length \in Nat \ {0}
  PROVE  WellFormed(Write(ix, start, diskStart, length))
<1> DEFINE new == Chunk(start, diskStart, length)
<1>1. Write(ix, start, diskStart, length) = Kept(ix, start, length) \cup {new}
  BY WriteIsKeptAndNew
<1>2. \A k \in Kept(ix, start, length) :
        /\ k \in [start : Int, diskStart : Int, length : Nat \ {0}]
        /\ End(k) <= start \/ start + length <= k.start
  BY KeptIsPart DEF PartOf
<1>3. new \in [start : Int, diskStart : Int, length : Nat \ {0}]
      /\ new.start = start /\ End(new) = start + length
  BY DEF Chunk, End
<1>4. Disjoint(Kept(ix, start, length))
  BY KeptDisjoint
<1>5. Disjoint(Kept(ix, start, length) \cup {new})
  BY <1>2, <1>3, <1>4 DEF Disjoint
<1> QED BY <1>1, <1>2, <1>3, <1>5 DEF WellFormed

\* Index.Write overlays: in the range it was given the file is at the new
\* place, and everywhere else where it was.
THEOREM WriteOverlays ==
  ASSUME NEW ix, WellFormed(ix), NEW start \in Int, NEW diskStart \in Int,
         NEW length \in Nat \ {0}, NEW x \in Int, NEW d \in Int
  PROVE  Stores(Write(ix, start, diskStart, length), x, d)
           <=> IF InRange(x, start, length) THEN d = diskStart + (x - start)
               ELSE Stores(ix, x, d)
<1> DEFINE new == Chunk(start, diskStart, length)
           kept == Kept(ix, start, length)
<1>1. Write(ix, start, diskStart, length) = kept \cup {new}
  BY WriteIsKeptAndNew
<1>2. new.start = start /\ End(new) = start + length /\ new.diskStart = diskStart
  BY DEF Chunk, End
<1>3. \A k \in kept : \E c \in ix : PartOf(k, c)
  BY KeptIsPart
<1>4. \A k \in kept : End(k) <= start \/ start + length <= k.start
  BY KeptIsPart
<1>5. CASE InRange(x, start, length)
  <2>1. \A k \in kept : ~(k.start <= x /\ x < End(k))
    BY <1>3, <1>4, <1>5 DEF InRange, PartOf, End
  <2> QED BY <1>1, <1>2, <1>5, <2>1 DEF Stores, InRange
<1>6. CASE ~InRange(x, start, length)
  <2>1. Stores(kept \cup {new}, x, d) <=> Stores(kept, x, d)
    BY <1>2, <1>6 DEF Stores, InRange
  <2>2. ASSUME Stores(kept, x, d) PROVE Stores(ix, x, d)
    <3>1. PICK k \in kept : k.start <= x /\ x < End(k) /\ d = k.diskStart + (x - k.start)
      BY <2>2 DEF Stores
    <3>2. PICK c \in ix : PartOf(k, c)
      BY <1>3
    <3>3. c \in [start : Int, diskStart : Int, length : Nat \ {0}]
      BY DEF WellFormed
    <3> QED BY <3>1, <3>2, <3>3 DEF Stores, PartOf, End
  <2>3. ASSUME Stores(ix, x, d) PROVE Stores(kept, x, d)
    <3>1. PICK c \in ix : c.start <= x /\ x < End(c) /\ d = c.diskStart + (x - c.start)
      BY <2>3 DEF Stores
    <3>2. c \in [start : Int, diskStart : Int, length : Nat \ {0}]
      BY DEF WellFormed
    <3>3. CASE c \notin Overlaps(ix, start, length)
      BY <3>1, <3>3 DEF Stores, Kept
    <3>4. CASE c \in Overlaps(ix, start, length) /\ x < start
      <4>1. c.start < start /\ start < End(c)
        BY <3>1, <3>2, <3>4 DEF Overlaps, End
      <4>2. Left(c, start) \in kept
        BY <3>4, <4>1 DEF Kept, Remainders
      <4>3. /\ Left(c, start).start <= x /\ x < End(Left(c, start))
            /\ d = Left(c, start).diskStart + (x - Left(c, start).start)
        BY <3>1, <3>2, <3>4 DEF Left, Chunk, End
      <4> QED BY <4>2, <4>3 DEF Stores
    <3>5. CASE c \in Overlaps(ix, start, length) /\ start + length <= x
      <4>1. start + length < End(c)
        BY <3>1, <3>2, <3>5 DEF End
      <4>2. Right(c, start + length) \in kept
        BY <3>5, <4>1 DEF Kept, Remainders
      <4>3. /\ Right(c, start + length).start <= x /\ x < End(Right(c, start + length))
            /\ d = Right(c, start + length).diskStart + (x - Right(c, start + length).start)
        BY <3>1, <3>2, <3>5 DEF Right, Chunk, End
      <4> QED BY <4>2, <4>3 DEF Stores
    <3> QED BY <1>6, <3>3, <3>4, <3>5 DEF InRange
  <2> QED BY <1>1, <1>6, <2>1, <2>2, <2>3
<1> QED BY <1>5, <1>6

\* Index.Read, which looks at the one chunk that Tree.Floor gives, finds the
\* place of a byte whenever the index has one.
THEOREM ReadFindsStored ==
  ASSUME NEW ix, WellFormed(ix), NEW x \in Int, NEW d \in Int, Stores(ix, x, d)
  PROVE  Read(ix, x).length > 0 /\ Read(ix, x).diskStart = d
<1>1. PICK c \in ix : c.start <= x /\ x < End(c) /\ d = c.diskStart + (x - c.start)
  BY DEF Stores
<1>2. c \in [start : Int, diskStart : Int, length : Nat \ {0}]
  BY DEF WellFormed
<1>3. ASSUME NEW b \in ix, b.start <= x, b # c PROVE b.start < c.start
  <2>1. End(b) <= c.start \/ End(c) <= b.start
    BY <1>3 DEF WellFormed, Disjoint
  <2>2. b \in [start : Int, diskStart : Int, length : Nat \ {0}]
    BY DEF WellFormed
  <2> QED BY <1>1, <1>2, <1>3, <2>1, <2>2 DEF End
<1>4. Covering(ix, x) = {c}
  <2>1. c \in Floor(ix, x)
    <3>1. \A b \in ix : b.start <= x => b.start <= c.start
      BY <1>2, <1>3 DEF WellFormed
    <3> QED BY <1>1, <3>1 DEF Floor
  <2>2. \A b \in Floor(ix, x) : b = c
    <3> TAKE b \in Floor(ix, x)
    <3>1. b \in ix /\ b.start <= x /\ c.start <= b.start
      BY <1>1 DEF Floor
    <3>2. b.start \in Int
      BY <3>1 DEF WellFormed
    <3> QED BY <1>2, <1>3, <3>1, <3>2
  <2> QED BY <1>1, <2>1, <2>2 DEF Covering
<1> DEFINE place == [diskStart |-> c.diskStart + (x - c.start), length |-> End(c) - x]
<1>5. {[diskStart |-> e.diskStart + (x - e.start), length |-> End(e) - x] :
         e \in Covering(ix, x)} = {place}
  BY <1>4
<1>6. {place} # {} /\ (CHOOSE s \in {place} : TRUE) = place
  OBVIOUS
<1>7. Read(ix, x).diskStart = place.diskStart /\ Read(ix, x).length = place.length
  BY <1>5, <1>6 DEF Read
<1> QED BY <1>1, <1>2, <1>7 DEF End

-----------------------------------------------------------------------------
(* The least and the greatest of some numbers                              *)

\* A set of numbers that is not empty has a least one.
LEMMA LeastOfNat ==
  ASSUME NEW S, S \subseteq Nat, S # {}
  PROVE  \E x \in S : \A y \in S : x <= y
<1> DEFINE R == OpToRel(<, Nat)
<1>1. IsWellFoundedOn(R, Nat)
  BY NatLessThanWellFounded
<1>2. R = {ss \in Nat \X Nat : ss[1] < ss[2]}
  BY Zenon DEF OpToRel
<1> HIDE DEF R
<1>3. PICK x \in S : \A y \in S : ~(<<y, x>> \in R)
  BY <1>1, WFMin
<1>4. ASSUME NEW y \in S PROVE x <= y
  <2>1. x \in Nat /\ y \in Nat /\ ~(<<y, x>> \in {ss \in Nat \X Nat : ss[1] < ss[2]})
    BY <1>2, <1>3
  <2>2. QED
    BY ONLY <2>1
<1>5. QED
  BY <1>4

\* And, when it is bounded, a greatest one.
LEMMA GreatestOfNat ==
  ASSUME NEW S, NEW n \in Nat, S \subseteq 0 .. n, S # {}
  PROVE  \E x \in S : \A y \in S : y <= x
<1> DEFINE T == {n - y : y \in S}
<1>1. T \subseteq Nat /\ T # {}
  <2>1. \A y \in S : y \in 0 .. n
    OBVIOUS
  <2>2. \A y \in 0 .. n : n - y \in Nat
    OBVIOUS
  <2>3. QED
    BY <2>1, <2>2
<1>2. PICK t \in T : \A u \in T : t <= u
  BY <1>1, LeastOfNat
<1>3. PICK x \in S : t = n - x
  BY <1>2
<1>4. ASSUME NEW y \in S PROVE y <= x
  <2>1. n - x <= n - y /\ x \in 0 .. n /\ y \in 0 .. n
    BY <1>2, <1>3
  <2>2. QED
    BY ONLY <2>1, n \in Nat
<1>5. QED
  BY <1>4

-----------------------------------------------------------------------------
(* What is shown of a file                                                 *)

\* Like ContentOf, of any data.
Shown(cells, ix) ==
  [x \in 0 .. Size - 1 |->
     LET at == Read(ix, x) IN IF at.length = 0 THEN 0 ELSE cells[at.diskStart + 1]]

\* The chunks share no byte and name the first n cells of the data.
Sound(ix, n) ==
  /\ WellFormed(ix)
  /\ \A c \in ix : 0 <= c.diskStart /\ c.diskStart + c.length <= n

\* Read gives length 0 where nothing is stored.
LEMMA NothingStored ==
  ASSUME NEW ix, WellFormed(ix), NEW x \in Int, ~ \E d \in Int : Stores(ix, x, d)
  PROVE  Read(ix, x).length = 0
<1>1. Covering(ix, x) = {}
  <2>1. ASSUME NEW c \in Covering(ix, x) PROVE FALSE
    <3>1. c \in ix /\ c.start <= x /\ x < End(c)
      BY <2>1 DEF Covering, Floor
    <3>2. c.diskStart + (x - c.start) \in Int
      BY <3>1 DEF WellFormed
    <3>3. QED
      BY <3>1, <3>2 DEF Stores
  <2>2. QED
    BY <2>1
<1>2. {[diskStart |-> c.diskStart + (x - c.start), length |-> End(c) - x] :
         c \in Covering(ix, x)} = {}
  BY <1>1
<1>3. QED
  BY <1>2 DEF Read

\* A byte that is shown is the one stored for it, or 0.
LEMMA ShownIs ==
  ASSUME NEW cells, NEW ix, WellFormed(ix), NEW x \in 0 .. Size - 1
  PROVE  /\ \A d \in Int : Stores(ix, x, d) => Shown(cells, ix)[x] = cells[d + 1]
         /\ (~ \E d \in Int : Stores(ix, x, d)) => Shown(cells, ix)[x] = 0
<1>1. ASSUME NEW d \in Int, Stores(ix, x, d) PROVE Shown(cells, ix)[x] = cells[d + 1]
  <2>1. Read(ix, x).length > 0 /\ Read(ix, x).diskStart = d
    BY <1>1, ReadFindsStored
  <2>2. Read(ix, x).length # 0
    BY <2>1
  <2>3. QED
    BY <2>1, <2>2 DEF Shown
<1>2. ASSUME ~ \E d \in Int : Stores(ix, x, d) PROVE Shown(cells, ix)[x] = 0
  <2>1. Read(ix, x).length = 0
    BY <1>2, NothingStored
  <2>2. QED
    BY <2>1 DEF Shown
<1>3. QED
  BY <1>1, <1>2

\* What is stored is among the cells that the chunks name.
LEMMA StoredPlace ==
  ASSUME NEW ix, NEW n \in Nat, Sound(ix, n), NEW x \in Int, NEW d, Stores(ix, x, d)
  PROVE  d \in 0 .. n - 1
<1>1. PICK c \in ix : c.start <= x /\ x < End(c) /\ d = c.diskStart + (x - c.start)
  BY DEF Stores
<1>2. /\ c \in [start : Int, diskStart : Int, length : Nat \ {0}]
      /\ 0 <= c.diskStart /\ c.diskStart + c.length <= n
  BY DEF Sound, WellFormed
<1>3. QED
  BY <1>1, <1>2 DEF End

\* A write of bytes that the data has keeps the index sound.
LEMMA SoundWrite ==
  ASSUME NEW ix, NEW n \in Nat, Sound(ix, n), NEW start \in Int, NEW at \in Nat,
         NEW len \in Nat \ {0}, NEW m \in Nat, n <= m, at + len <= m
  PROVE  Sound(Write(ix, start, at, len), m)
<1>1. WellFormed(ix) /\ WellFormed(Write(ix, start, at, len))
  BY WriteKeepsChunksApart DEF Sound
<1>2. Write(ix, start, at, len) = Kept(ix, start, len) \cup {Chunk(start, at, len)}
  BY <1>1, WriteIsKeptAndNew
<1>3. ASSUME NEW k \in Kept(ix, start, len)
      PROVE  0 <= k.diskStart /\ k.diskStart + k.length <= m
  <2>1. PICK c \in ix : PartOf(k, c)
    BY <1>1, KeptIsPart
  <2>2. /\ c \in [start : Int, diskStart : Int, length : Nat \ {0}]
        /\ 0 <= c.diskStart /\ c.diskStart + c.length <= n
    BY <1>1 DEF Sound, WellFormed
  <2>3. QED
    BY <2>1, <2>2 DEF PartOf, End
<1>4. Chunk(start, at, len).diskStart = at /\ Chunk(start, at, len).length = len
  BY DEF Chunk
<1>5. QED
  BY <1>1, <1>2, <1>3, <1>4 DEF Sound

\* The first n cells are the same; n cells of b are after the first ones.
Keeps(more, cells, n) == \A i \in 1 .. n : more[i] = cells[i]
Holds(more, at, b, n) == \A j \in 1 .. n : more[at + j] = b[j]

\* Data that is appended shows nowhere before it is in the index.
LEMMA ShownGrows ==
  ASSUME NEW cells, NEW more, NEW ix, NEW n \in Nat, Sound(ix, n),
         Keeps(more, cells, n)
  PROVE  Shown(more, ix) = Shown(cells, ix)
<1>1. ASSUME NEW x \in 0 .. Size - 1 PROVE Shown(more, ix)[x] = Shown(cells, ix)[x]
  <2>0. WellFormed(ix)
    BY DEF Sound
  <2>1. CASE \E d \in Int : Stores(ix, x, d)
    <3>1. PICK d \in Int : Stores(ix, x, d)
      BY <2>1
    <3>2. d + 1 \in 1 .. n
      BY <3>1, StoredPlace
    <3>3. QED
      BY <2>0, <3>1, <3>2, ShownIs DEF Keeps
  <2>2. CASE ~ \E d \in Int : Stores(ix, x, d)
    BY <2>0, <2>2, ShownIs
  <2>3. QED
    BY <2>1, <2>2
<1>2. QED
  BY <1>1 DEF Shown

\* g shows n bytes of b from start on, and elsewhere what f shows.
Overlaid(g, f, b, start, n) ==
  \A x \in 0 .. Size - 1 :
    /\ InRange(x, start, n) => g[x] = b[x - start + 1]
    /\ ~InRange(x, start, n) => g[x] = f[x]

\* A write shows its bytes and leaves the others.
LEMMA ShownWrite ==
  ASSUME NEW cells, NEW more, NEW ix, NEW n \in Nat, Sound(ix, n), Keeps(more, cells, n),
         NEW start \in Int, NEW at \in Nat, NEW b, NEW len \in Nat \ {0},
         Holds(more, at, b, len)
  PROVE  Overlaid(Shown(more, Write(ix, start, at, len)), Shown(cells, ix), b, start, len)
<1> DEFINE new == Write(ix, start, at, len)
<1> SUFFICES ASSUME NEW x \in 0 .. Size - 1
             PROVE  /\ InRange(x, start, len) => Shown(more, new)[x] = b[x - start + 1]
                    /\ ~InRange(x, start, len) => Shown(more, new)[x] = Shown(cells, ix)[x]
  BY DEF Overlaid
<1>1. WellFormed(ix) /\ WellFormed(new)
  BY WriteKeepsChunksApart DEF Sound
<1>2. \A d \in Int : Stores(new, x, d)
        <=> IF InRange(x, start, len) THEN d = at + (x - start) ELSE Stores(ix, x, d)
  BY <1>1, WriteOverlays
<1> HIDE DEF new
<1>3. CASE InRange(x, start, len)
  <2>1. at + (x - start) \in Int /\ x - start + 1 \in 1 .. len
    BY <1>3 DEF InRange
  <2>2. Shown(more, new)[x] = more[at + (x - start) + 1]
    BY <1>1, <1>2, <1>3, <2>1, ShownIs
  <2>3. at + (x - start) + 1 = at + (x - start + 1)
    OBVIOUS
  <2>4. QED
    BY <1>3, <2>1, <2>2, <2>3 DEF Holds
<1>4. CASE ~InRange(x, start, len)
  <2>1. Shown(more, ix)[x] = Shown(cells, ix)[x]
    BY ShownGrows
  <2>2. CASE \E d \in Int : Stores(ix, x, d)
    BY <1>1, <1>2, <1>4, <2>1, <2>2, ShownIs
  <2>3. CASE ~ \E d \in Int : Stores(ix, x, d)
    <3>1. Shown(more, new)[x] = 0 /\ Shown(more, ix)[x] = 0
      BY <1>1, <1>2, <1>4, <2>3, ShownIs
    <3>2. QED
      BY <1>4, <2>1, <3>1
  <2>4. QED
    BY <2>2, <2>3
<1>5. QED
  BY <1>3, <1>4

-----------------------------------------------------------------------------
(* What WriteAt stores of a payload                                        *)

\* A part is all zeros when each of its bytes is.
LEMMA ZerosOfPart ==
  ASSUME NEW p \in Seq(Nat), NEW a \in 1 .. Len(p) + 1, NEW b \in 0 .. Len(p)
  PROVE  AllZeros(SubSeq(p, a, b)) <=> \A j \in a .. b : p[j] = 0
<1>0. DOMAIN p = 1 .. Len(p) /\ Len(p) \in Nat
  BY LenProperties
<1>1. \A i \in a .. b : p[i] \in Nat
  BY <1>0, ElementOfSeq
<1>2. /\ SubSeq(p, a, b) \in Seq(Nat)
      /\ Len(SubSeq(p, a, b)) = IF a <= b THEN b - a + 1 ELSE 0
      /\ \A i \in 1 .. b - a + 1 : SubSeq(p, a, b)[i] = p[a + i - 1]
  BY <1>0, <1>1, SubSeqProperties
<1>3. DOMAIN SubSeq(p, a, b) = 1 .. b - a + 1
  BY <1>0, <1>2, LenProperties
<1>4. ASSUME AllZeros(SubSeq(p, a, b)), NEW j \in a .. b PROVE p[j] = 0
  <2>1. j - a + 1 \in 1 .. b - a + 1 /\ a + (j - a + 1) - 1 = j
    BY <1>0
  <2>2. QED
    BY <1>2, <1>3, <1>4, <2>1 DEF AllZeros
<1>5. ASSUME \A j \in a .. b : p[j] = 0 PROVE AllZeros(SubSeq(p, a, b))
  <2>1. \A i \in 1 .. b - a + 1 : a + i - 1 \in a .. b
    BY <1>0
  <2>2. QED
    BY <1>2, <1>3, <1>5, <2>1 DEF AllZeros
<1>6. QED
  BY <1>4, <1>5

\* The zeros that are counted end at the first and the last byte that is none.
LEMMA ZerosAround ==
  ASSUME NEW p \in Seq(Nat), ~AllZeros(p)
  PROVE  /\ PrefixZeros(p) \in Nat /\ SuffixZeros(p) \in Nat
         /\ PrefixZeros(p) + SuffixZeros(p) < Len(p)
         /\ \A j \in 1 .. PrefixZeros(p) : p[j] = 0
         /\ \A j \in Len(p) - SuffixZeros(p) + 1 .. Len(p) : p[j] = 0
<1> DEFINE n == Len(p)
           Others == {j \in 1 .. n : p[j] # 0}
<1>1. n \in Nat /\ DOMAIN p = 1 .. n
  BY LenProperties
<1>2. Others # {} /\ Others \subseteq Nat /\ Others \subseteq 0 .. n
  BY <1>1 DEF AllZeros
<1>3. PICK a \in Others : \A y \in Others : a <= y
  BY <1>2, LeastOfNat
<1>4. PICK b \in Others : \A y \in Others : y <= b
  BY <1>1, <1>2, GreatestOfNat
<1>5. a \in 1 .. n /\ b \in 1 .. n /\ a <= b
  BY <1>3, <1>4
<1>6. {i \in DOMAIN p : AllZeros(SubSeq(p, 1, i))} = 1 .. a - 1
  <2>1. \A i \in 1 .. n : AllZeros(SubSeq(p, 1, i)) <=> \A j \in 1 .. i : p[j] = 0
    BY <1>1, ZerosOfPart
  <2>2. \A i \in 1 .. n : (\A j \in 1 .. i : p[j] = 0) <=> i < a
    <3>1. ASSUME NEW i \in 1 .. n, \A j \in 1 .. i : p[j] = 0 PROVE i < a
      <4>1. a \notin 1 .. i
        BY <1>3, <3>1
      <4>2. QED
        BY <1>5, <4>1
    <3>2. ASSUME NEW i \in 1 .. n, i < a, NEW j \in 1 .. i PROVE p[j] = 0
      <4>1. j \in 1 .. n /\ ~(a <= j)
        BY <1>1, <1>5, <3>2
      <4>2. QED
        BY <1>3, <4>1
    <3>3. QED
      BY <3>1, <3>2
  <2>3. \A i \in 1 .. n : AllZeros(SubSeq(p, 1, i)) <=> i < a
    BY <2>1, <2>2
  <2>4. \A i : i \in 1 .. a - 1 <=> i \in 1 .. n /\ i < a
    BY <1>1, <1>5
  <2>5. QED
    BY <1>1, <2>3, <2>4
<1>7. {i \in DOMAIN p : AllZeros(SubSeq(p, i, Len(p)))} = b + 1 .. n
  <2>1. ASSUME NEW i \in 1 .. n
        PROVE  AllZeros(SubSeq(p, i, n)) <=> \A j \in i .. n : p[j] = 0
    <3>1. i \in 1 .. n + 1 /\ n \in 0 .. n
      BY <1>1
    <3>2. QED
      BY <3>1, ZerosOfPart
  <2>2. \A i \in 1 .. n : (\A j \in i .. n : p[j] = 0) <=> b < i
    <3>1. ASSUME NEW i \in 1 .. n, \A j \in i .. n : p[j] = 0 PROVE b < i
      <4>1. b \notin i .. n
        BY <1>4, <3>1
      <4>2. QED
        BY <1>5, <4>1
    <3>2. ASSUME NEW i \in 1 .. n, b < i, NEW j \in i .. n PROVE p[j] = 0
      <4>1. j \in 1 .. n /\ ~(j <= b)
        BY <1>1, <1>5, <3>2
      <4>2. QED
        BY <1>4, <4>1
    <3>3. QED
      BY <3>1, <3>2
  <2>3. \A i \in 1 .. n : AllZeros(SubSeq(p, i, n)) <=> b < i
    BY <2>1, <2>2
  <2>4. \A i : i \in b + 1 .. n <=> i \in 1 .. n /\ b < i
    BY <1>1, <1>5
  <2>5. QED
    BY <1>1, <2>3, <2>4
<1>8. PrefixZeros(p) = a - 1
  <2>1. Cardinality(1 .. a - 1) = a - 1
    BY <1>5, FS_Interval
  <2>2. QED
    BY <1>6, <2>1 DEF PrefixZeros
<1>9. SuffixZeros(p) = n - b
  <2>1. Cardinality(b + 1 .. n) = n - b
    BY <1>1, <1>5, FS_Interval
  <2>2. QED
    BY <1>7, <2>1 DEF SuffixZeros
<1>10. ASSUME NEW j \in 1 .. a - 1 PROVE p[j] = 0
  <2>1. j \in 1 .. n /\ ~(a <= j)
    BY <1>1, <1>5
  <2>2. QED
    BY <1>3, <2>1
<1>11. ASSUME NEW j \in b + 1 .. n PROVE p[j] = 0
  <2>1. j \in 1 .. n /\ ~(j <= b)
    BY <1>1, <1>5
  <2>2. QED
    BY <1>4, <2>1
<1>12. n - (n - b) + 1 = b + 1 /\ a - 1 \in Nat /\ n - b \in Nat /\ (a - 1) + (n - b) < n
  BY <1>1, <1>5
<1>13. QED
  BY <1>8, <1>9, <1>10, <1>11, <1>12

\* The bytes left out are zeros, and some are left.
LEMMA TrimmedBytes ==
  ASSUME NEW p \in Payloads, NEW off \in Nat, ~Skipped(p, off)
  PROVE  LET w == Trimmed(p, off)
         IN /\ w.bytes \in Seq(Nat) /\ Len(w.bytes) \in Nat \ {0} /\ w.off \in Nat
            /\ off <= w.off /\ w.off + Len(w.bytes) <= off + Len(p)
            /\ \A x \in off .. off + Len(p) - 1 :
                 IF InRange(x, w.off, Len(w.bytes))
                 THEN w.bytes[x - w.off + 1] = p[x - off + 1]
                 ELSE p[x - off + 1] = 0
<1> DEFINE w == Trimmed(p, off)
           n == Len(p)
           a == PrefixZeros(p)
           z == SuffixZeros(p)
<1>1. p \in Seq(Nat) /\ p # << >> /\ n \in Nat \ {0}
  BY SparseAssumption, EmptySeq
<1>2. CASE NewPlace(p, off) /\ a + z > TrimOver
  <2>1. ~AllZeros(p)
    BY <1>2 DEF Skipped
  <2>2. /\ a \in Nat /\ z \in Nat /\ a + z < n
        /\ \A j \in 1 .. a : p[j] = 0
        /\ \A j \in n - z + 1 .. n : p[j] = 0
    BY <1>1, <2>1, ZerosAround
  <2>3. w = [bytes |-> SubSeq(p, a + 1, n - z), off |-> off + a]
    BY <1>2 DEF Trimmed
  <2>4. \A i \in a + 1 .. n - z : p[i] \in Nat
    BY <1>1, <2>2, ElementOfSeq
  <2> HIDE DEF w, a, z, n
  <2>5. a + 1 <= n - z /\ (n - z) - (a + 1) + 1 = n - z - a /\ n - z - a \in Nat \ {0}
    BY <1>1, <2>2
  <2>6. /\ w.bytes \in Seq(Nat) /\ Len(w.bytes) = n - z - a
        /\ \A i \in 1 .. n - z - a : w.bytes[i] = p[a + 1 + i - 1]
    BY <1>1, <2>2, <2>3, <2>4, <2>5, SubSeqProperties
  <2>7. ASSUME NEW x \in off .. off + n - 1
        PROVE  IF InRange(x, w.off, Len(w.bytes))
               THEN w.bytes[x - w.off + 1] = p[x - off + 1]
               ELSE p[x - off + 1] = 0
    <3>1. CASE InRange(x, off + a, n - z - a)
      <4>1. x - (off + a) + 1 \in 1 .. n - z - a /\ a + 1 + (x - (off + a) + 1) - 1 = x - off + 1
        BY <1>1, <2>2, <3>1 DEF InRange
      <4>2. QED
        BY <2>3, <2>6, <3>1, <4>1
    <3>2. CASE ~InRange(x, off + a, n - z - a)
      <4>1. x - off + 1 \in 1 .. a \/ x - off + 1 \in n - z + 1 .. n
        BY <1>1, <2>2, <3>2 DEF InRange
      <4>2. QED
        BY <2>2, <2>3, <2>6, <3>2, <4>1
    <3>3. QED
      BY <3>1, <3>2
  <2>8. w.off \in Nat /\ off <= w.off /\ w.off + Len(w.bytes) <= off + n
    BY <1>1, <2>2, <2>3, <2>6
  <2>9. QED
    BY <2>5, <2>6, <2>7, <2>8 DEF w, n
<1>3. CASE ~(NewPlace(p, off) /\ a + z > TrimOver)
  <2>1. w = [bytes |-> p, off |-> off]
    BY <1>3 DEF Trimmed
  <2> HIDE DEF w
  <2>2. \A x \in off .. off + n - 1 : InRange(x, off, n)
    BY <1>1 DEF InRange
  <2>3. QED
    BY <1>1, <2>1, <2>2 DEF w
<1>4. QED
  BY <1>2, <1>3

\* f shows the bytes w, except in z.
Agrees(f, w, z) == \A x \in 0 .. Size - 1 : x \notin z => f[x] = w[x]

\* A write that shows the bytes left of the payload shows all of it but zeros.
LEMMA WriteAgrees ==
  ASSUME NEW p \in Payloads, NEW off \in Nat, ~Skipped(p, off),
         NEW f, NEW g, NEW w \in [0 .. Size - 1 -> Nat], NEW z, Agrees(f, w, z),
         Overlaid(g, f, Trimmed(p, off).bytes, Trimmed(p, off).off, Len(Trimmed(p, off).bytes))
  PROVE  Agrees(g, Overlay(w, p, off), (z \ (off .. off + Len(p) - 1)) \cup ZerosOf(p, off))
<1> DEFINE t == Trimmed(p, off)
           n == Len(p)
<1>1. /\ t.bytes \in Seq(Nat) /\ Len(t.bytes) \in Nat \ {0} /\ t.off \in Nat
      /\ off <= t.off /\ t.off + Len(t.bytes) <= off + n
      /\ \A x \in off .. off + n - 1 :
           IF InRange(x, t.off, Len(t.bytes))
           THEN t.bytes[x - t.off + 1] = p[x - off + 1]
           ELSE p[x - off + 1] = 0
  BY TrimmedBytes
<1>2. \A x \in 0 .. Size - 1 :
        g[x] = IF InRange(x, t.off, Len(t.bytes)) THEN t.bytes[x - t.off + 1] ELSE f[x]
  BY DEF Overlaid
<1> HIDE DEF t
<1>3. n \in Nat /\ DOMAIN p = 1 .. n
  BY SparseAssumption, LenProperties
<1>4. \A x \in 0 .. Size - 1 :
        Overlay(w, p, off)[x] = IF x \in off .. off + n - 1 THEN p[x - off + 1] ELSE w[x]
  BY DEF Overlay
<1>5. ASSUME NEW x \in 0 .. Size - 1, x \notin (z \ (off .. off + n - 1)) \cup ZerosOf(p, off)
      PROVE  g[x] = Overlay(w, p, off)[x]
  <2>1. CASE x \in off .. off + n - 1
    <3>1. x - off + 1 \in 1 .. n /\ off + (x - off + 1) - 1 = x
      BY <1>3, <2>1
    <3>2. p[x - off + 1] # 0
      BY <1>3, <1>5, <3>1 DEF ZerosOf
    <3>3. QED
      BY <1>1, <1>2, <1>4, <2>1, <3>2
  <2>2. CASE x \notin off .. off + n - 1
    <3>1. ~InRange(x, t.off, Len(t.bytes))
      BY <1>1, <1>3, <2>2 DEF InRange
    <3>2. g[x] = f[x] /\ f[x] = w[x]
      BY <1>2, <1>5, <2>2, <3>1 DEF Agrees
    <3>3. QED
      BY <1>4, <2>2, <3>2
  <2>3. QED
    BY <2>1, <2>2
<1>6. QED
  BY <1>5 DEF Agrees

-----------------------------------------------------------------------------
(* putOffsets, a fold of the community modules                             *)

NoRecords == [index |-> {}, prev |-> NoRecord]

\* The function on sets of places that the fold is defined by.
PutStep(f, q, s) == IF s = {} THEN NoRecords ELSE PutRecord(f[s \ {Max(s)}], q[Max(s)])
Puts(f, q, D) == f = [s \in SUBSET D |-> PutStep(f, q, s)]
Put(q, D) == CHOOSE f : Puts(f, q, D)

\* FoldLeft takes such a function.
LEMMA FoldIsPut ==
  ASSUME NEW q
  PROVE  FoldLeft(PutRecord, NoRecords, q) = Put(q, DOMAIN q)[DOMAIN q]
BY DEF FoldLeft, MapThenFoldSet, Put, Puts, PutStep

\* One step of it.
LEMMA PutUnfolds ==
  ASSUME NEW f, NEW q, NEW D, Puts(f, q, D), NEW s \in SUBSET D
  PROVE  f[s] = PutStep(f, q, s)
<1>1. f = [t \in SUBSET D |-> PutStep(f, q, t)]
  BY DEF Puts
<1>2. QED
  BY <1>1

\* The last of some places.
LEMMA MaxOfPlaces ==
  ASSUME NEW n \in Nat, NEW s \in SUBSET (1 .. n), s # {}
  PROVE  Max(s) \in s /\ \A y \in s : y <= Max(s)
<1>1. s \subseteq 0 .. n
  OBVIOUS
<1>2. \E x \in s : \A y \in s : y <= x
  BY <1>1, GreatestOfNat
<1>3. \E x \in s : \A y \in s : x >= y
  BY <1>2
<1>4. Max(s) \in s /\ \A y \in s : Max(s) >= y
  BY <1>3 DEF Max
<1>5. QED
  BY <1>4

\* A function for n places gives one for n + 1.
LEMMA PutOneMore ==
  ASSUME NEW q, NEW n \in Nat, NEW f, Puts(f, q, 1 .. n)
  PROVE  \E g : Puts(g, q, 1 .. n + 1)
<1> DEFINE g == [s \in SUBSET (1 .. n + 1) |->
                   IF n + 1 \in s THEN PutRecord(f[s \ {n + 1}], q[n + 1]) ELSE f[s]]
           body(s) == PutStep(g, q, s)
<1>0. n + 1 \in Nat
  OBVIOUS
<1>1. ASSUME NEW s \in SUBSET (1 .. n + 1) PROVE g[s] = body(s)
  <2>1. s # {} => Max(s) \in s /\ \A y \in s : y <= Max(s)
    BY <1>0, MaxOfPlaces
  <2>2. \A t \in SUBSET (1 .. n + 1) :
          g[t] = IF n + 1 \in t THEN PutRecord(f[t \ {n + 1}], q[n + 1]) ELSE f[t]
    OBVIOUS
  <2> HIDE DEF g
  <2>3. CASE n + 1 \in s
    <3>1. Max(s) = n + 1
      <4>1. Max(s) \in 1 .. n + 1 /\ n + 1 <= Max(s)
        BY <2>1, <2>3
      <4>2. QED
        BY ONLY <4>1, n \in Nat
    <3>2. s \ {n + 1} \in SUBSET (1 .. n + 1) /\ n + 1 \notin s \ {n + 1}
      OBVIOUS
    <3>3. g[s \ {n + 1}] = f[s \ {n + 1}]
      BY <2>2, <3>2
    <3>4. g[s] = PutRecord(f[s \ {n + 1}], q[n + 1])
      BY <2>2, <2>3
    <3>5. QED
      BY <2>3, <3>1, <3>3, <3>4 DEF PutStep
  <2>4. CASE n + 1 \notin s
    <3>1. s \in SUBSET (1 .. n)
      <4>1. \A y \in s : y \in 1 .. n + 1 /\ y # n + 1
        BY <2>4
      <4>2. QED
        BY <4>1
    <3>2. f[s] = PutStep(f, q, s)
      <4> DEFINE D == 1 .. n
      <4>1. Puts(f, q, D) /\ s \in SUBSET D
        BY <3>1
      <4> HIDE DEF D
      <4>2. QED
        BY <4>1, PutUnfolds
    <3>3. g[s] = f[s] /\ g[s \ {Max(s)}] = f[s \ {Max(s)}]
      <4>1. s \ {Max(s)} \in SUBSET (1 .. n + 1) /\ n + 1 \notin s \ {Max(s)}
        BY <2>4
      <4>2. QED
        BY <2>2, <2>4, <4>1
    <3>4. QED
      BY <3>2, <3>3 DEF PutStep
  <2>5. QED
    BY <2>3, <2>4
<1>2. g = [s \in SUBSET (1 .. n + 1) |-> g[s]]
  OBVIOUS
<1> HIDE DEF g
<1>3. g = [s \in SUBSET (1 .. n + 1) |-> body(s)]
  BY <1>1, <1>2, Zenon
<1>4. QED
  BY <1>3 DEF Puts

\* There is one for any number of places: the least number without one follows
\* one that has one.
LEMMA PutExists ==
  ASSUME NEW q, NEW n \in Nat
  PROVE  Puts(Put(q, 1 .. n), q, 1 .. n)
<1> DEFINE Bad == {m \in Nat : ~ \E f : Puts(f, q, 1 .. m)}
<1>1. Bad = {}
  <2> SUFFICES ASSUME Bad # {} PROVE FALSE
    OBVIOUS
  <2>2. PICK m \in Bad : \A y \in Bad : m <= y
    BY LeastOfNat
  <2>3. m # 0
    <3>1. ASSUME m = 0 PROVE FALSE
      <4> DEFINE f == [s \in SUBSET {} |-> NoRecords]
                 body(s) == PutStep(f, q, s)
      <4>1. \A s \in SUBSET {} : body(s) = NoRecords
        BY DEF PutStep
      <4> HIDE DEF body
      <4>2. f = [s \in SUBSET {} |-> body(s)]
        BY <4>1
      <4> HIDE DEF f
      <4>3. Puts(f, q, {})
        BY <4>2 DEF Puts, body
      <4>4. 1 .. m = {}
        BY <3>1
      <4>5. QED
        BY <2>2, <4>3, <4>4
    <3>2. QED
      BY <3>1
  <2>4. m - 1 \in Nat /\ (m - 1) + 1 = m /\ ~(m <= m - 1)
    BY <2>3
  <2>5. m - 1 \notin Bad
    BY <2>2, <2>4
  <2>6. PICK f : Puts(f, q, 1 .. m - 1)
    BY <2>4, <2>5
  <2>7. \E g : Puts(g, q, 1 .. (m - 1) + 1)
    BY <2>4, <2>6, PutOneMore
  <2>8. QED
    BY <2>2, <2>4, <2>7
<1>2. \E f : Puts(f, q, 1 .. n)
  BY <1>1
<1>3. QED
  BY <1>2 DEF Put

\* Places beyond those folded change nothing.
LEMMA PutLocal ==
  ASSUME NEW q, NEW r, NEW n \in Nat, \A i \in 1 .. n : r[i] = q[i]
  PROVE  Put(r, 1 .. n + 1)[1 .. n] = Put(q, 1 .. n)[1 .. n]
<1> DEFINE f == Put(q, 1 .. n)
           g == Put(r, 1 .. n + 1)
           Bad == {m \in Nat : m <= n /\ g[1 .. m] # f[1 .. m]}
<1>1. \A s \in SUBSET (1 .. n) : f[s] = PutStep(f, q, s)
  BY PutExists, PutUnfolds
<1>2. \A s \in SUBSET (1 .. n + 1) : g[s] = PutStep(g, r, s)
  <2>1. n + 1 \in Nat
    OBVIOUS
  <2>2. Puts(Put(r, 1 .. n + 1), r, 1 .. n + 1)
    BY <2>1, PutExists
  <2>3. QED
    BY <2>2, PutUnfolds
<1> HIDE DEF f, g
<1>3. Bad = {}
  <2> SUFFICES ASSUME Bad # {} PROVE FALSE
    OBVIOUS
  <2>1. PICK m \in Bad : \A y \in Bad : m <= y
    BY LeastOfNat
  <2>2. 1 .. m \in SUBSET (1 .. n) /\ 1 .. m \in SUBSET (1 .. n + 1)
    OBVIOUS
  <2>3. f[1 .. m] = PutStep(f, q, 1 .. m) /\ g[1 .. m] = PutStep(g, r, 1 .. m)
    BY <1>1, <1>2, <2>2
  <2>4. CASE m = 0
    <3>1. 1 .. m = {}
      BY <2>4
    <3>2. QED
      BY <2>3, <3>1 DEF PutStep
  <2>5. CASE m # 0
    <3>1. m - 1 \in Nat /\ m - 1 <= n /\ ~(m <= m - 1) /\ m \in 1 .. n
      BY <2>5
    <3>2. g[1 .. m - 1] = f[1 .. m - 1]
      <4>1. m - 1 \notin Bad
        BY <2>1, <3>1
      <4>2. QED
        BY <3>1, <4>1
    <3>3. Max(1 .. m) = m
      <4>1. 1 .. m # {} /\ m \in 1 .. m
        BY <3>1
      <4>2. Max(1 .. m) \in 1 .. m /\ m <= Max(1 .. m)
        BY <4>1, MaxOfPlaces
      <4>3. QED
        BY <4>2
    <3>4. (1 .. m) \ {m} = 1 .. m - 1 /\ 1 .. m # {}
      <4>1. \A i : i \in 1 .. m /\ i # m <=> i \in 1 .. m - 1
        BY <3>1
      <4>2. m \in 1 .. m
        BY <3>1
      <4>3. QED
        BY <4>1, <4>2
    <3>5. r[m] = q[m]
      BY <3>1
    <3>6. QED
      BY <2>3, <3>2, <3>3, <3>4, <3>5 DEF PutStep
  <2>6. QED
    BY <2>4, <2>5
<1>4. QED
  BY <1>3 DEF f, g

\* Folding one more record is putting it.
LEMMA PutAppended ==
  ASSUME NEW q, NEW r, NEW n \in Nat, \A i \in 1 .. n : r[i] = q[i],
         DOMAIN q = 1 .. n, DOMAIN r = 1 .. n + 1
  PROVE  FoldLeft(PutRecord, NoRecords, r)
           = PutRecord(FoldLeft(PutRecord, NoRecords, q), r[n + 1])
<1> DEFINE g == Put(r, 1 .. n + 1)
<1>1. g[1 .. n + 1] = PutStep(g, r, 1 .. n + 1)
  <2>1. n + 1 \in Nat
    OBVIOUS
  <2>2. Puts(Put(r, 1 .. n + 1), r, 1 .. n + 1)
    BY <2>1, PutExists
  <2>3. QED
    BY <2>2, PutUnfolds
<1>2. g[1 .. n] = Put(q, 1 .. n)[1 .. n]
  BY PutLocal
<1> HIDE DEF g
<1>3. Max(1 .. n + 1) = n + 1
  <2>0. n + 1 \in 1 .. n + 1 /\ n + 1 \in Nat
    OBVIOUS
  <2>1. 1 .. n + 1 # {}
    BY <2>0
  <2>2. Max(1 .. n + 1) \in 1 .. n + 1 /\ n + 1 <= Max(1 .. n + 1)
    BY <2>0, <2>1, MaxOfPlaces
  <2>3. QED
    BY <2>2
<1>4. (1 .. n + 1) \ {n + 1} = 1 .. n /\ 1 .. n + 1 # {}
  OBVIOUS
<1>5. g[1 .. n + 1] = PutRecord(g[1 .. n], r[n + 1])
  BY <1>1, <1>3, <1>4 DEF PutStep
<1>6. QED
  BY <1>2, <1>5, FoldIsPut DEF g

PutNothing == PutOffsets(NoRecords, << >>)

\* Without records there is nothing in the index.
LEMMA NothingPut == PutNothing = NoRecords
<1> DEFINE q == [i \in 1 .. Len(<< >>) \div 3 |-> SubSeq(<< >>, 3 * i - 2, 3 * i)]
<1>1. DOMAIN q = 1 .. 0
  OBVIOUS
<1>2. FoldLeft(PutRecord, NoRecords, q) = Put(q, 1 .. 0)[1 .. 0]
  BY <1>1, FoldIsPut
<1>3. Put(q, 1 .. 0)[1 .. 0] = PutStep(Put(q, 1 .. 0), q, 1 .. 0)
  BY PutExists, PutUnfolds
<1>4. 1 .. 0 = {}
  OBVIOUS
<1>5. QED
  BY <1>2, <1>3, <1>4 DEF PutNothing, PutOffsets, PutStep

\* putOffsets of cells with one more record.
LEMMA OffsetsAppended ==
  ASSUME NEW cells \in Seq(Int), NEW d \in Seq(Int), WholeRecords(cells), Len(d) = 3
  PROVE  /\ WholeRecords(cells \o d)
         /\ PutOffsets(NoRecords, cells \o d) = PutRecord(PutOffsets(NoRecords, cells), d)
<1>1. PICK n \in Nat : Len(cells) = 3 * n /\ Len(cells) \div 3 = n
  <2>1. Len(cells) \in Nat
    BY LenProperties
  <2>2. Len(cells) \div 3 \in Nat /\ Len(cells) = 3 * (Len(cells) \div 3)
    BY <2>1 DEF WholeRecords
  <2>3. QED
    BY <2>2
<1>2. /\ cells \o d \in Seq(Int)
      /\ Len(cells \o d) = Len(cells) + Len(d)
      /\ \A i \in 1 .. Len(cells) + Len(d) :
           (cells \o d)[i] = IF i <= Len(cells) THEN cells[i] ELSE d[i - Len(cells)]
  BY ConcatProperties
<1>3. PICK more : more = cells \o d
  OBVIOUS
<1>4. /\ more \in Seq(Int) /\ Len(more) = 3 * (n + 1)
      /\ \A i \in 1 .. 3 * n + 3 : more[i] = IF i <= 3 * n THEN cells[i] ELSE d[i - 3 * n]
  BY <1>1, <1>2, <1>3
<1>5. Len(more) \div 3 = n + 1 /\ Len(more) % 3 = 0
  BY <1>4
<1> DEFINE q == [i \in 1 .. n |-> SubSeq(cells, 3 * i - 2, 3 * i)]
           r == [i \in 1 .. n + 1 |-> SubSeq(more, 3 * i - 2, 3 * i)]
<1>6. ASSUME NEW i \in 1 .. n PROVE r[i] = q[i]
  <2>1. r[i] = SubSeq(more, 3 * i - 2, 3 * i) /\ q[i] = SubSeq(cells, 3 * i - 2, 3 * i)
    OBVIOUS
  <2>2. 3 * i - 2 \in 1 .. Len(cells) /\ 3 * i \in 1 .. Len(cells)
    BY <1>1
  <2>3. QED
    BY <1>3, <2>1, <2>2, SubSeqOfConcat1
<1>7. r[n + 1] = d
  <2>1. n + 1 \in 1 .. n + 1 /\ 3 * (n + 1) - 2 = 3 * n + 1 /\ 3 * (n + 1) = 3 * n + 3
    OBVIOUS
  <2>2. r[n + 1] = SubSeq(more, 3 * n + 1, 3 * n + 3)
    BY <2>1
  <2>3. \A i \in 3 * n + 1 .. 3 * n + 3 : more[i] \in Int
    BY <1>4, ElementOfSeq
  <2>4. /\ 3 * n + 1 \in Int /\ 3 * n + 3 \in Int /\ 3 * n + 1 <= 3 * n + 3
        /\ (3 * n + 3) - (3 * n + 1) + 1 = 3
    OBVIOUS
  <2>5. /\ SubSeq(more, 3 * n + 1, 3 * n + 3) \in Seq(Int)
        /\ Len(SubSeq(more, 3 * n + 1, 3 * n + 3)) = 3
        /\ \A i \in 1 .. 3 : SubSeq(more, 3 * n + 1, 3 * n + 3)[i] = more[3 * n + 1 + i - 1]
    BY <2>3, <2>4, SubSeqProperties
  <2>6. \A i \in 1 .. 3 : more[3 * n + 1 + i - 1] = d[i]
    <3>1. \A i \in 1 .. 3 : /\ 3 * n + 1 + i - 1 \in 1 .. 3 * n + 3
                            /\ ~(3 * n + 1 + i - 1 <= 3 * n)
                            /\ (3 * n + 1 + i - 1) - 3 * n = i
      OBVIOUS
    <3>2. QED
      BY <1>4, <3>1
  <2>7. SubSeq(more, 3 * n + 1, 3 * n + 3) = d
    <3> DEFINE u == SubSeq(more, 3 * n + 1, 3 * n + 3)
    <3>1. u \in Seq(Int) /\ Len(u) = Len(d) /\ \A i \in 1 .. Len(u) : u[i] = d[i]
      BY <2>5, <2>6
    <3> HIDE DEF u
    <3>2. u = d
      BY <3>1, SeqEqual
    <3>3. QED
      BY <3>2 DEF u
  <2>8. QED
    BY <2>2, <2>7
<1>8. DOMAIN q = 1 .. n /\ DOMAIN r = 1 .. n + 1
  OBVIOUS
<1>9. /\ PutOffsets(NoRecords, cells) = FoldLeft(PutRecord, NoRecords, q)
      /\ PutOffsets(NoRecords, more) = FoldLeft(PutRecord, NoRecords, r)
  BY <1>1, <1>5 DEF PutOffsets
<1> HIDE DEF q, r
<1>10. FoldLeft(PutRecord, NoRecords, r) = PutRecord(FoldLeft(PutRecord, NoRecords, q), d)
  BY <1>6, <1>7, <1>8, PutAppended
<1>11. QED
  BY <1>3, <1>5, <1>9, <1>10 DEF WholeRecords

-----------------------------------------------------------------------------
(* What both kinds of file keep                                            *)

Records == [off : Int, diskStart : Int, length : Int]

\* Reads give what was written, and the index names data that was acknowledged.
Shared ==
  /\ data \in Seq(Int) /\ up \in BOOLEAN /\ broken \in BOOLEAN /\ failed = broken
  /\ prev \in Records
  /\ written \in [0 .. Size - 1 -> Nat] /\ limbo \in [0 .. Size - 1 -> Nat]
  /\ dataSize \in Nat /\ dataSize <= Len(data) /\ Sound(index, dataSize)
  /\ Agrees(Content, written, zeroed)
  /\ ~broken => dataSize = Len(data) /\ limbo = written

\* What a start would load: what the process has, or the same with the write
\* that failed.
LoadsFine(s) ==
  /\ s.prev \in Records /\ Sound(s.index, Len(data))
  /\ s.index = index \/ Agrees(ContentOf(s.index), limbo, zeroed)

\* Shown is what is read.
LEMMA ContentIsShown == \A ix : ContentOf(ix) = Shown(data, ix)
BY DEF ContentOf, Shown

\* And after a step.
LEMMA ContentIsShownNext == \A ix : ContentOf(ix)' = Shown(data', ix')
BY DEF ContentOf, Shown

\* Shared says what the runs check.
LEMMA SharedMeans == Shared => IndexIsSound /\ ReadsLastWrite
<1> SUFFICES ASSUME Shared PROVE IndexIsSound /\ ReadsLastWrite
  OBVIOUS
<1>1. ASSUME NEW c \in index PROVE c.diskStart + c.length <= Len(data)
  <2>1. c.diskStart + c.length <= dataSize /\ dataSize <= Len(data)
    BY DEF Shared, Sound
  <2>2. c.diskStart \in Int /\ c.length \in Int /\ dataSize \in Int /\ Len(data) \in Int
    BY LenProperties DEF Shared, Sound, WellFormed
  <2>3. QED
    BY ONLY <2>1, <2>2
<1>2. Disjoint(index)
  BY DEF Shared, Sound, WellFormed
<1>3. DOMAIN written = 0 .. Size - 1
  BY DEF Shared
<1>4. QED
  BY <1>1, <1>2, <1>3 DEF Shared, Agrees, IndexIsSound, ReadsLastWrite

\* New files.
LEMMA InitShared == SparseInit => Shared
<1> SUFFICES ASSUME SparseInit PROVE Shared
  OBVIOUS
<1>1. data = << >> /\ index = {} /\ prev = NoRecord /\ dataSize = 0 /\ broken = FALSE
  BY DEF SparseInit
<1>2. Len(data) = 0 /\ data \in Seq(Int)
  BY <1>1, EmptySeq
<1>3. Sound(index, dataSize)
  BY <1>1 DEF Sound, WellFormed, Disjoint
<1>4. Agrees(Content, written, zeroed)
  <2> SUFFICES ASSUME NEW x \in 0 .. Size - 1 PROVE Content[x] = written[x]
    BY DEF Agrees
  <2>1. WellFormed(index) /\ ~ \E d \in Int : Stores(index, x, d)
    BY <1>1, <1>3 DEF Sound, Stores
  <2>2. Content[x] = 0
    BY <2>1, ShownIs, ContentIsShown DEF Content
  <2>3. QED
    BY <2>2 DEF SparseInit
<1>5. /\ written \in [0 .. Size - 1 -> Nat] /\ limbo = written
      /\ up \in BOOLEAN /\ failed = FALSE
  BY DEF SparseInit
<1>6. prev \in Records
  BY <1>1 DEF NoRecord, Records
<1>7. dataSize \in Nat /\ dataSize <= Len(data) /\ dataSize = Len(data)
  BY <1>1, <1>2
<1>8. QED
  BY <1>1, <1>2, <1>3, <1>4, <1>5, <1>6, <1>7 DEF Shared

\* more is the data with the bytes left of a payload somewhere behind.
Extends(more, p, off, at) ==
  /\ more \in Seq(Int) /\ at \in Nat
  /\ Keeps(more, data, dataSize)
  /\ Holds(more, at, Trimmed(p, off).bytes, Len(Trimmed(p, off).bytes))
  /\ dataSize <= Len(more) /\ at + Len(Trimmed(p, off).bytes) <= Len(more)

\* The index with a write, over data with its bytes.
LEMMA IndexWritten ==
  ASSUME Shared, NEW p \in Payloads, NEW off \in Nat, ~Skipped(p, off),
         NEW more, NEW at, Extends(more, p, off, at)
  PROVE  LET w == Trimmed(p, off)
             new == Write(index, w.off, at, Len(w.bytes))
         IN /\ Sound(new, Len(more))
            /\ Agrees(Shown(more, new), Overlay(written, p, off),
                      (zeroed \ (off .. off + Len(p) - 1)) \cup ZerosOf(p, off))
<1> DEFINE w == Trimmed(p, off)
           new == Write(index, w.off, at, Len(w.bytes))
<1>1. w.bytes \in Seq(Nat) /\ Len(w.bytes) \in Nat \ {0} /\ w.off \in Nat
  BY TrimmedBytes
<1>2. /\ more \in Seq(Int) /\ at \in Nat
      /\ Keeps(more, data, dataSize) /\ Holds(more, at, w.bytes, Len(w.bytes))
      /\ dataSize <= Len(more) /\ at + Len(w.bytes) <= Len(more)
  BY DEF Extends
<1>3. Len(more) \in Nat
  BY <1>2, LenProperties
<1>4. dataSize \in Nat /\ Sound(index, dataSize) /\ Agrees(Shown(data, index), written, zeroed)
  BY ContentIsShown DEF Shared, Content
<1> HIDE DEF w
<1>5. Sound(new, Len(more))
  <2> DEFINE start == w.off
             len == Len(w.bytes)
  <2>1. start \in Int /\ len \in Nat \ {0} /\ at \in Nat /\ at + len <= Len(more)
        /\ dataSize <= Len(more)
    BY <1>1, <1>2
  <2> HIDE DEF start, len
  <2>2. Sound(Write(index, start, at, len), Len(more))
    BY <1>3, <1>4, <2>1, SoundWrite
  <2>3. QED
    BY <2>2 DEF start, len
<1>6. Overlaid(Shown(more, new), Shown(data, index), w.bytes, w.off, Len(w.bytes))
  <2> DEFINE start == w.off
             len == Len(w.bytes)
             b == w.bytes
  <2>1. start \in Int /\ len \in Nat \ {0} /\ at \in Nat
    BY <1>1, <1>2
  <2>2. Keeps(more, data, dataSize) /\ Holds(more, at, b, len)
    BY <1>2
  <2> HIDE DEF start, len, b
  <2>3. Overlaid(Shown(more, Write(index, start, at, len)), Shown(data, index), b, start, len)
    BY <1>4, <2>1, <2>2, ShownWrite
  <2>4. QED
    BY <2>3 DEF start, len, b
<1> HIDE DEF new
<1>7. Agrees(Shown(more, new), Overlay(written, p, off),
             (zeroed \ (off .. off + Len(p) - 1)) \cup ZerosOf(p, off))
  BY <1>4, <1>6, WriteAgrees DEF w, Shared
<1>8. QED
  BY <1>5, <1>7 DEF w, new

\* The history keeps its type.
LEMMA OverlayTyped ==
  ASSUME NEW c \in [0 .. Size - 1 -> Nat], NEW p \in Payloads, NEW off \in Nat
  PROVE  Overlay(c, p, off) \in [0 .. Size - 1 -> Nat]
<1>1. p \in Seq(Nat) /\ Len(p) \in Nat
  BY SparseAssumption, LenProperties
<1>2. ASSUME NEW x \in off .. off + Len(p) - 1 PROVE p[x - off + 1] \in Nat
  <2>1. x - off + 1 \in 1 .. Len(p)
    BY <1>1
  <2>2. QED
    BY <1>1, <2>1, ElementOfSeq
<1>3. QED
  BY <1>2 DEF Overlay

\* A write that succeeds.
LEMMA SharedWrite ==
  ASSUME Shared, NEW p \in Payloads, NEW off \in Nat, MayWrite, ~Skipped(p, off),
         NEW at, Extends(data', p, off, at), dataSize' = Len(data'),
         prev' \in Records, UNCHANGED <<up, broken>>, Acknowledged(p, off),
         index' = Write(index, Trimmed(p, off).off, at, Len(Trimmed(p, off).bytes))
  PROVE  Shared'
<1>1. data' \in Seq(Int) /\ Len(data') \in Nat
  BY LenProperties DEF Extends
<1>2. /\ Sound(index', Len(data'))
      /\ Agrees(Shown(data', index'), Overlay(written, p, off),
                (zeroed \ (off .. off + Len(p) - 1)) \cup ZerosOf(p, off))
  BY IndexWritten
<1>3. Content' = Shown(data', index')
  BY ContentIsShownNext DEF Content
<1>4. Overlay(written, p, off) \in [0 .. Size - 1 -> Nat]
  BY OverlayTyped DEF Shared
<1>5. QED
  BY <1>1, <1>2, <1>3, <1>4 DEF Shared, Acknowledged, MayWrite

\* Zeros at a new place, which are not stored.
LEMMA SharedSkip ==
  ASSUME Shared, NEW p \in Payloads, NEW off \in Nat, SkipZeros(p, off)
  PROVE  Shared'
<1>1. Content' = Content /\ UNCHANGED <<data, up, index, prev, dataSize, broken>>
  BY DEF SkipZeros, memory, Content, ContentOf
<1>2. p \in Seq(Nat) /\ Len(p) \in Nat /\ DOMAIN p = 1 .. Len(p)
  BY SparseAssumption, LenProperties
<1>3. Agrees(Content, Overlay(written, p, off),
             (zeroed \ (off .. off + Len(p) - 1)) \cup ZerosOf(p, off))
  <2> SUFFICES ASSUME NEW x \in 0 .. Size - 1,
                      x \notin (zeroed \ (off .. off + Len(p) - 1)) \cup ZerosOf(p, off)
               PROVE  Content[x] = Overlay(written, p, off)[x]
    BY DEF Agrees
  <2>1. x \notin off .. off + Len(p) - 1
    <3>1. ASSUME x \in off .. off + Len(p) - 1 PROVE FALSE
      <4>1. x - off + 1 \in 1 .. Len(p) /\ off + (x - off + 1) - 1 = x
        BY <1>2, <3>1
      <4>2. p[x - off + 1] = 0
        BY <1>2, <4>1 DEF SkipZeros, Skipped, AllZeros
      <4>3. x \in ZerosOf(p, off)
        BY <1>2, <4>1, <4>2 DEF ZerosOf
      <4>4. QED
        BY <4>3
    <3>2. QED
      BY <3>1
  <2>2. Content[x] = written[x]
    BY <2>1 DEF Shared, Agrees
  <2>3. Overlay(written, p, off)[x] = written[x]
    BY <2>1 DEF Overlay, Shared
  <2>4. QED
    BY <2>2, <2>3
<1>4. Overlay(written, p, off) \in [0 .. Size - 1 -> Nat]
  BY OverlayTyped DEF Shared
<1>5. QED
  BY <1>1, <1>3, <1>4 DEF Shared, SkipZeros, Acknowledged

\* A write that fails, with any data behind what is acknowledged.
LEMMA SharedFail ==
  ASSUME Shared, NEW p \in Payloads, NEW off \in Nat,
         data' \in Seq(Int), Len(data) <= Len(data'),
         Keeps(data', data, Len(data)),
         UNCHANGED <<up, index, dataSize>>, prev' \in Records, Spoil, Failed(p, off)
  PROVE  Shared' /\ Content' = Content
<1>1. Len(data) \in Nat /\ Len(data') \in Nat /\ dataSize \in Nat /\ dataSize <= Len(data)
  BY LenProperties DEF Shared
<1>2. Keeps(data', data, dataSize)
  BY <1>1 DEF Keeps
<1>3. Shown(data', index) = Shown(data, index)
  BY <1>1, <1>2, ShownGrows DEF Shared
<1>4. Content' = Content
  BY <1>3, ContentIsShown, ContentIsShownNext DEF Content
<1>5. Overlay(written, p, off) \in [0 .. Size - 1 -> Nat]
  BY OverlayTyped DEF Shared
<1>6. Agrees(Content, written, zeroed')
  BY DEF Shared, Agrees, Failed
<1>7. dataSize' \in Nat /\ dataSize' <= Len(data') /\ Sound(index', dataSize')
  BY <1>1 DEF Shared
<1>8. QED
  BY <1>4, <1>5, <1>6, <1>7 DEF Shared, Failed, Spoil

\* Closing leaves the files.
LEMMA SharedClose ==
  ASSUME Shared, Close
  PROVE  Shared'
<1>1. Content' = Content
  BY DEF Close, memory, Content, ContentOf
<1>2. QED
  BY <1>1 DEF Shared, Close, memory, history

\* A start on files that load fine.
LEMMA SharedReopen ==
  ASSUME Shared, NEW s, LoadsFine(s), Reopened(s)
  PROVE  Shared'
<1>1. Content' = ContentOf(s.index) /\ UNCHANGED <<data, zeroed>>
  BY DEF Content, ContentOf, Reopened
<1>2. Agrees(ContentOf(s.index), written', zeroed)
  <2>1. CASE ContentOf(s.index) = Content
    BY <2>1 DEF Reopened, Shared
  <2>2. CASE ContentOf(s.index) # Content
    <3>1. s.index # index
      BY <2>2 DEF Content
    <3>2. QED
      BY <2>2, <3>1 DEF Reopened, LoadsFine
  <2>3. QED
    BY <2>1, <2>2
<1>3. Len(data) \in Nat
  BY LenProperties DEF Shared
<1>4. written' \in [0 .. Size - 1 -> Nat] /\ limbo' = written'
  BY DEF Reopened, Shared
<1>5. /\ dataSize' = Len(data') /\ index' = s.index /\ prev' \in Records
      /\ up' \in BOOLEAN /\ broken' = FALSE /\ failed' = FALSE
  BY <1>1 DEF Reopened, LoadsFine
<1>6. Sound(index', dataSize') /\ dataSize' \in Nat /\ dataSize' <= Len(data')
  BY <1>1, <1>3, <1>5 DEF LoadsFine
<1>7. Agrees(Content', written', zeroed')
  BY <1>1, <1>2
<1>8. QED
  BY <1>1, <1>4, <1>5, <1>6, <1>7 DEF Shared

-----------------------------------------------------------------------------
(* Sparse files of two files                                               *)

\* Unless a write has failed the offsets are those of the index in memory.  What
\* one that failed has left is refused, or is what was before, or all of it.
Two ==
  /\ Shared /\ offsets \in Seq(Int)
  /\ ~broken => /\ WholeRecords(offsets) /\ Loaded2.index = index /\ Loaded2.prev = prev
                /\ prev.diskStart + prev.length = dataSize
  /\ broken /\ Opens2 => LoadsFine(Loaded2)

\* One more record of the differences is one more write.
LEMMA RecordPut ==
  ASSUME NEW r \in Records, NEW p \in Records, NEW s, s.prev = p
  PROVE  /\ Differences(p, r) \in Seq(Int) /\ Len(Differences(p, r)) = 3
         /\ PutRecord(s, Differences(p, r))
              = [index |-> Write(s.index, r.off, r.diskStart, r.length), prev |-> r]
<1> DEFINE d == Differences(p, r)
<1>1. d \in Seq(Int) /\ Len(d) = 3
  BY DEF Differences, Records
<1>2. d[1] = r.off - p.off /\ d[2] = r.diskStart - p.diskStart /\ d[3] = r.length - p.length
  BY DEF Differences
<1> HIDE DEF d
<1>3. Record(p.off + d[1], p.diskStart + d[2], p.length + d[3]) = r
  BY <1>2 DEF Record, Records
<1>4. QED
  BY <1>1, <1>3 DEF PutRecord, d

\* Appending a part of the cells, or all of them.
LEMMA AppendedPart ==
  ASSUME NEW cells \in Seq(Int), NEW d \in Seq(Int), NEW k \in 0 .. Len(d)
  PROVE  LET more == cells \o SubSeq(d, 1, k)
         IN /\ more \in Seq(Int) /\ Len(more) = Len(cells) + k
            /\ Keeps(more, cells, Len(cells))
            /\ \A j \in 1 .. k : more[Len(cells) + j] = d[j]
            /\ k = 0 => more = cells
            /\ k = Len(d) => more = cells \o d
<1> DEFINE part == SubSeq(d, 1, k)
<1>1. Len(cells) \in Nat /\ Len(d) \in Nat
  BY LenProperties
<1>2. \A i \in 1 .. k : d[i] \in Int
  BY <1>1, ElementOfSeq
<1>3. /\ part \in Seq(Int) /\ Len(part) = IF 1 <= k THEN k - 1 + 1 ELSE 0
      /\ \A i \in 1 .. k - 1 + 1 : part[i] = d[1 + i - 1]
  BY <1>1, <1>2, SubSeqProperties
<1>4. Len(part) = k /\ \A i \in 1 .. k : part[i] = d[i]
  BY <1>1, <1>3
<1>5. k = 0 => part = << >>
  BY <1>3, <1>4, EmptySeq
<1>6. k = Len(d) => part = d
  BY <1>3, <1>4, SeqEqual
<1> HIDE DEF part
<1>7. /\ cells \o part \in Seq(Int) /\ Len(cells \o part) = Len(cells) + Len(part)
      /\ \A i \in 1 .. Len(cells) + Len(part) :
           (cells \o part)[i] = IF i <= Len(cells) THEN cells[i] ELSE part[i - Len(cells)]
  BY <1>3, ConcatProperties
<1>8. Keeps(cells \o part, cells, Len(cells))
  BY <1>1, <1>4, <1>7 DEF Keeps
<1>9. ASSUME NEW j \in 1 .. k PROVE (cells \o part)[Len(cells) + j] = d[j]
  <2>1. Len(cells) + j \in 1 .. Len(cells) + Len(part) /\ ~(Len(cells) + j <= Len(cells))
        /\ (Len(cells) + j) - Len(cells) = j
    BY <1>1, <1>4
  <2>2. QED
    BY <1>4, <1>7, <2>1
<1>10. k = 0 => cells \o part = cells
  BY <1>5, ConcatEmptySeq
<1>11. QED
  BY <1>3, <1>4, <1>6, <1>7, <1>8, <1>9, <1>10 DEF part

\* All data of a write is behind what the process knows.
LEMMA DataAppended ==
  ASSUME Shared, ~broken, NEW p \in Payloads, NEW off \in Nat, ~Skipped(p, off)
  PROVE  LET w == Trimmed(p, off)
             more == data \o w.bytes
         IN /\ Extends(more, p, off, dataSize)
            /\ Len(more) = Len(data) + Len(w.bytes) /\ Len(w.bytes) \in Nat \ {0}
            /\ Keeps(more, data, Len(data))
            /\ Record(w.off, dataSize, Len(w.bytes)) \in Records
<1> DEFINE w == Trimmed(p, off)
           more == data \o w.bytes
<1>1. w.bytes \in Seq(Nat) /\ Len(w.bytes) \in Nat \ {0} /\ w.off \in Nat
  BY TrimmedBytes
<1>2. data \in Seq(Int) /\ Len(data) \in Nat /\ dataSize = Len(data)
  BY LenProperties DEF Shared
<1>3. w.bytes \in Seq(Int)
  BY <1>1, SeqMonotonic
<1> DEFINE b == w.bytes
<1> HIDE DEF w
<1>4. /\ data \o b \in Seq(Int) /\ Len(data \o b) = Len(data) + Len(b)
      /\ \A i \in 1 .. Len(data) + Len(b) :
           (data \o b)[i] = IF i <= Len(data) THEN data[i] ELSE b[i - Len(data)]
  BY <1>2, <1>3, ConcatProperties
<1>5. Keeps(data \o b, data, Len(data))
  BY <1>1, <1>2, <1>4 DEF Keeps
<1>6. Holds(data \o b, Len(data), b, Len(b))
  <2> SUFFICES ASSUME NEW j \in 1 .. Len(b) PROVE (data \o b)[Len(data) + j] = b[j]
    BY DEF Holds
  <2>1. Len(data) + j \in 1 .. Len(data) + Len(b) /\ ~(Len(data) + j <= Len(data))
        /\ (Len(data) + j) - Len(data) = j
    BY <1>1, <1>2
  <2>2. QED
    BY <1>4, <2>1
<1>7. Record(w.off, dataSize, Len(w.bytes)) \in Records
  BY <1>1, <1>2 DEF Record, Records
<1>8. dataSize <= Len(data \o b) /\ dataSize + Len(b) <= Len(data \o b)
  BY <1>1, <1>2, <1>4
<1>9. Extends(more, p, off, dataSize)
  BY <1>2, <1>4, <1>5, <1>6, <1>8 DEF Extends, w
<1>10. QED
  BY <1>1, <1>4, <1>5, <1>7, <1>9 DEF w

\* New files.
LEMMA InitTwo == SparseInit /\ offsets = << >> => Two
<1> SUFFICES ASSUME SparseInit, offsets = << >> PROVE Two
  OBVIOUS
<1>1. index = {} /\ prev = NoRecord /\ dataSize = 0 /\ broken = FALSE
  BY DEF SparseInit
<1>2. offsets \in Seq(Int) /\ Len(offsets) = 0
  BY EmptySeq
<1>3. Shared
  BY InitShared
<1>4. Loaded2 = NoRecords
  BY NothingPut DEF Loaded2, PutNothing, NoRecords
<1>5. Loaded2.index = index /\ Loaded2.prev = prev
  BY <1>1, <1>4 DEF NoRecords
<1>6. WholeRecords(offsets)
  <2>1. 0 % 3 = 0
    OBVIOUS
  <2>2. QED
    BY <1>2, <2>1 DEF WholeRecords
<1>7. prev.diskStart + prev.length = dataSize
  BY <1>1 DEF NoRecord
<1>8. QED
  BY <1>1, <1>2, <1>3, <1>5, <1>6, <1>7 DEF Two

\* A write: the record that is appended is the one the index gets.
LEMMA WriteTwo ==
  ASSUME Two, NEW p \in Payloads, NEW off \in Nat, WriteAt2(p, off)
  PROVE  Two'
<1> DEFINE w == Trimmed(p, off)
           r == Record(w.off, dataSize, Len(w.bytes))
<1>0. Shared /\ ~broken /\ ~Skipped(p, off) /\ MayWrite
  BY DEF Two, WriteAt2, MayWrite
<1>1. /\ data' = data \o w.bytes /\ offsets' = offsets \o Differences(prev, r)
      /\ prev' = r /\ index' = Write(index, w.off, dataSize, Len(w.bytes))
      /\ dataSize' = dataSize + Len(w.bytes)
      /\ Acknowledged(p, off) /\ UNCHANGED <<up, broken>>
  BY DEF WriteAt2, NewRecord2, NextPrev, Record
<1>2. /\ Extends(data \o w.bytes, p, off, dataSize)
      /\ Len(data \o w.bytes) = Len(data) + Len(w.bytes)
      /\ r \in Records
  BY <1>0, DataAppended
<1>3. dataSize = Len(data) /\ prev \in Records /\ offsets \in Seq(Int)
  BY <1>0 DEF Shared, Two
<1>4. Shared'
  BY <1>0, <1>1, <1>2, <1>3, SharedWrite
<1> HIDE DEF w
<1>5. /\ Differences(prev, r) \in Seq(Int) /\ Len(Differences(prev, r)) = 3
      /\ PutRecord(Loaded2, Differences(prev, r))
           = [index |-> Write(index, r.off, r.diskStart, r.length), prev |-> r]
  <2>1. Loaded2.index = index /\ Loaded2.prev = prev
    BY <1>0 DEF Two
  <2>2. r \in Records /\ prev \in Records
    BY <1>2, <1>3
  <2> HIDE DEF r
  <2>3. QED
    BY <2>1, <2>2, RecordPut
<1>6. WholeRecords(offsets) /\ PutOffsets(NoRecords, offsets) = Loaded2
  BY <1>0 DEF Two, Loaded2, NoRecords
<1>7. /\ WholeRecords(offsets')
      /\ PutOffsets(NoRecords, offsets') = [index |-> Write(index, r.off, r.diskStart, r.length), prev |-> r]
  BY <1>1, <1>3, <1>5, <1>6, OffsetsAppended
<1>8. r.off = w.off /\ r.diskStart = dataSize /\ r.length = Len(w.bytes)
  BY DEF Record
<1>9. Loaded2'.index = index' /\ Loaded2'.prev = prev' /\ prev'.diskStart + prev'.length = dataSize'
  BY <1>1, <1>7, <1>8 DEF Loaded2, NoRecords
<1>10. offsets' \in Seq(Int)
  BY <1>1, <1>3, <1>5, ConcatProperties
<1>11. QED
  BY <1>0, <1>1, <1>4, <1>7, <1>9, <1>10 DEF Two

\* Some data is behind what the index names; the offsets are as they were.
LEMMA FailDataTwo ==
  ASSUME Two, NEW p \in Payloads, NEW off \in Nat, FailData(p, off)
  PROVE  Two'
<1> DEFINE w == Trimmed(p, off)
<1>0. Shared /\ ~broken /\ ~Skipped(p, off)
  BY DEF Two, FailData, MayWrite
<1>1. w.bytes \in Seq(Int) /\ data \in Seq(Int)
  <2>1. w.bytes \in Seq(Nat)
    BY <1>0, TrimmedBytes
  <2> HIDE DEF w
  <2>2. QED
    BY <1>0, <2>1, SeqMonotonic DEF Shared
<1>2. PICK k \in 0 .. Len(w.bytes) : data' = data \o SubSeq(w.bytes, 1, k)
  BY DEF FailData, FailAppend
<1> HIDE DEF w
<1>3. data' \in Seq(Int) /\ Len(data') = Len(data) + k /\ Keeps(data', data, Len(data))
  BY <1>1, <1>2, AppendedPart
<1>4. Len(data) \in Nat /\ Len(data) <= Len(data')
  BY <1>1, <1>3, LenProperties
<1>5. UNCHANGED <<up, index, dataSize, prev, offsets>> /\ Spoil /\ Failed(p, off)
  BY DEF FailData
<1>6. Shared' /\ Content' = Content
  BY <1>0, <1>3, <1>4, <1>5, SharedFail DEF Shared
<1>7. Loaded2' = Loaded2 /\ Loaded2.index = index /\ Loaded2.prev = prev
  BY <1>0, <1>5 DEF Two, Loaded2
<1>8. LoadsFine(Loaded2)'
  <2>1. Sound(index, Len(data'))
    <3>1. dataSize <= Len(data') /\ Sound(index, dataSize) /\ Len(data') \in Nat /\ dataSize \in Nat
      BY <1>3, <1>5, <1>6, LenProperties DEF Shared
    <3>2. QED
      BY <3>1 DEF Sound, WellFormed
  <2>2. QED
    BY <1>0, <1>5, <1>7, <2>1 DEF LoadsFine, Shared
<1>9. QED
  BY <1>5, <1>6, <1>8 DEF Two, Spoil

\* All data is there; with the whole record a start finds the write, with less
\* of it the files are refused.
LEMMA FailOffsetsTwo ==
  ASSUME Two, NEW p \in Payloads, NEW off \in Nat, FailOffsets(p, off)
  PROVE  Two'
<1> DEFINE w == Trimmed(p, off)
           r == Record(w.off, dataSize, Len(w.bytes))
           d == Differences(prev, r)
<1>0. Shared /\ ~broken /\ ~Skipped(p, off)
  BY DEF Two, FailOffsets, MayWrite
<1>1. PICK k \in 0 .. Len(d) :
        /\ data' = data \o w.bytes /\ offsets' = offsets \o SubSeq(d, 1, k)
        /\ prev' = r /\ Spoil /\ Failed(p, off) /\ UNCHANGED <<up, index, dataSize>>
  BY DEF FailOffsets, FailAppend, NewRecord2, NextPrev
<1>2. /\ Extends(data \o w.bytes, p, off, dataSize)
      /\ Len(data \o w.bytes) = Len(data) + Len(w.bytes) /\ Len(w.bytes) \in Nat \ {0}
      /\ Keeps(data \o w.bytes, data, Len(data)) /\ r \in Records
  BY <1>0, DataAppended
<1>3. /\ dataSize = Len(data) /\ Len(data) \in Nat /\ prev \in Records
      /\ offsets \in Seq(Int) /\ Len(offsets) \in Nat
  BY <1>0, LenProperties DEF Shared, Two
<1>4. data' \in Seq(Int) /\ Len(data) <= Len(data')
  BY <1>1, <1>2, <1>3 DEF Extends
<1>5. Shared' /\ Content' = Content
  BY <1>0, <1>1, <1>2, <1>4, SharedFail
<1>6. /\ Sound(Write(index, w.off, dataSize, Len(w.bytes)), Len(data'))
      /\ Agrees(Shown(data', Write(index, w.off, dataSize, Len(w.bytes))),
                Overlay(written, p, off),
                (zeroed \ (off .. off + Len(p) - 1)) \cup ZerosOf(p, off))
  BY <1>0, <1>1, <1>2, IndexWritten
<1> HIDE DEF w
<1>7. /\ d \in Seq(Int) /\ Len(d) = 3
      /\ PutRecord(Loaded2, d)
           = [index |-> Write(index, r.off, r.diskStart, r.length), prev |-> r]
  BY <1>0, <1>2, <1>3, RecordPut DEF Two
<1>8. /\ WholeRecords(offsets) /\ prev.diskStart + prev.length = dataSize
      /\ PutOffsets(NoRecords, offsets) = Loaded2
      /\ Loaded2.index = index /\ Loaded2.prev = prev
  BY <1>0 DEF Two, Loaded2, NoRecords
<1>9. r.off = w.off /\ r.diskStart = dataSize /\ r.length = Len(w.bytes)
  BY DEF Record
<1> HIDE DEF d, r
<1>10. /\ offsets' \in Seq(Int) /\ Len(offsets') = Len(offsets) + k
       /\ k = 0 => offsets' = offsets
       /\ k = 3 => offsets' = offsets \o d
  <2>1. k \in 0 .. Len(d)
    BY <1>1
  <2> DEFINE more == offsets \o SubSeq(d, 1, k)
  <2>2. /\ more \in Seq(Int) /\ Len(more) = Len(offsets) + k
        /\ k = 0 => more = offsets
        /\ k = Len(d) => more = offsets \o d
    BY <1>3, <1>7, <2>1, AppendedPart
  <2>3. offsets' = more
    BY <1>1
  <2> HIDE DEF more
  <2>4. QED
    BY <1>7, <2>2, <2>3
<1>11. ASSUME Opens2' PROVE LoadsFine(Loaded2)'
  <2>1. k = 0 \/ k = 3
    <3>1. (Len(offsets) + k) % 3 = 0 /\ Len(offsets) % 3 = 0 /\ k \in 0 .. 3
      BY <1>7, <1>8, <1>10, <1>11 DEF Opens2, WholeRecords
    <3>2. QED
      BY ONLY <3>1, <1>3
  <2>2. k # 0
    <3>1. ASSUME k = 0 PROVE FALSE
      <4>1. Loaded2'.prev = prev
        BY <1>8, <1>10, <3>1 DEF Loaded2, NoRecords
      <4>2. Len(data') = prev.diskStart + prev.length
        BY <1>11, <4>1 DEF Opens2, SizesAgree
      <4>3. QED
        BY <1>1, <1>2, <1>3, <1>8, <4>2
    <3>2. QED
      BY <3>1
  <2>3. Loaded2' = [index |-> Write(index, w.off, dataSize, Len(w.bytes)), prev |-> r]
    BY <1>3, <1>7, <1>8, <1>9, <1>10, <2>1, <2>2, OffsetsAppended DEF Loaded2, NoRecords
  <2>4. Agrees(Shown(data', Write(index, w.off, dataSize, Len(w.bytes))), limbo', zeroed')
    BY <1>1, <1>6 DEF Failed, Agrees
  <2>5. ContentOf(Loaded2.index)' = Shown(data', Loaded2'.index)
    BY ContentIsShownNext
  <2>6. QED
    BY <1>2, <1>6, <2>3, <2>4, <2>5 DEF LoadsFine
<1>12. QED
  BY <1>1, <1>5, <1>10, <1>11 DEF Two, Spoil

\* A start: the index that is loaded is the one that was in memory, or has one
\* more write.
LEMMA OpenTwo ==
  ASSUME Two, Open2
  PROVE  Two'
<1>1. Shared /\ Opens2 /\ Reopened(Loaded2) /\ offsets' = offsets
  BY DEF Two, Open2
<1>2. LoadsFine(Loaded2)
  <2>1. CASE broken
    BY <1>1, <2>1 DEF Two
  <2>2. CASE ~broken
    <3>1. Loaded2.index = index /\ Loaded2.prev = prev /\ dataSize = Len(data)
      BY <1>1, <2>2 DEF Two, Shared
    <3>2. QED
      BY <1>1, <3>1 DEF LoadsFine, Shared
  <2>3. QED
    BY <1>1, <2>1, <2>2 DEF Shared
<1>3. Shared'
  BY <1>1, <1>2, SharedReopen
<1>4. Loaded2' = Loaded2
  BY <1>1 DEF Loaded2
<1>5. /\ WholeRecords(offsets) /\ Len(data) = Loaded2.prev.diskStart + Loaded2.prev.length
      /\ index' = Loaded2.index /\ prev' = Loaded2.prev /\ dataSize' = Len(data)
      /\ data' = data /\ broken' = FALSE
  BY <1>1 DEF Opens2, SizesAgree, Reopened
<1>6. QED
  BY <1>1, <1>3, <1>4, <1>5 DEF Two

\* Steps that leave the files and the index.
LEMMA SameTwo ==
  ASSUME Two, Shared', UNCHANGED <<data, offsets, index, prev, dataSize, broken, limbo, zeroed>>
  PROVE  Two'
<1>1. Loaded2' = Loaded2 /\ Opens2' = Opens2
  BY DEF Loaded2, Opens2, SizesAgree
<1>2. LoadsFine(Loaded2)' = LoadsFine(Loaded2)
  BY <1>1 DEF LoadsFine, ContentOf
<1>3. QED
  BY <1>1, <1>2 DEF Two

\* Steps that leave the offsets.
LEMMA OthersTwo ==
  ASSUME Two, UNCHANGED offsets,
         \/ Close
         \/ \E p \in Payloads, off \in Nat : SkipZeros(p, off)
         \/ UNCHANGED <<data, up, memory, writes, history>>
  PROVE  Two'
<1>1. CASE Close
  <2>1. Shared'
    BY <1>1, SharedClose DEF Two
  <2>2. UNCHANGED <<data, offsets, index, prev, dataSize, broken, limbo, zeroed>>
    BY <1>1 DEF Close, memory, history
  <2>3. QED
    BY <2>1, <2>2, SameTwo
<1>2. CASE \E p \in Payloads, off \in Nat : SkipZeros(p, off)
  <2>1. PICK p \in Payloads, off \in Nat : SkipZeros(p, off)
    BY <1>2
  <2>2. Shared'
    BY <2>1, SharedSkip DEF Two
  <2>3. UNCHANGED <<data, offsets, index, prev, dataSize, broken>> /\ ~broken
    BY <2>1 DEF SkipZeros, memory, MayWrite
  <2>4. QED
    BY <2>2, <2>3 DEF Two, Loaded2, WholeRecords
<1>3. CASE UNCHANGED <<data, up, memory, writes, history>>
  <2>1. UNCHANGED <<data, offsets, index, prev, dataSize, broken, limbo, zeroed, up, written, failed>>
    BY <1>3 DEF memory, history
  <2>2. Shared'
    BY <2>1 DEF Two, Shared, Content, ContentOf
  <2>3. QED
    BY <2>1, <2>2, SameTwo
<1>4. QED
  BY <1>1, <1>2, <1>3

\* Every step.
LEMMA NextIsTwo ==
  ASSUME Two, Next2
  PROVE  Two'
<1>1. ASSUME NEW p \in Payloads, NEW off \in 0 .. Size - 1,
             \/ SkipZeros(p, off) /\ UNCHANGED offsets
             \/ WriteAt2(p, off)
             \/ FailData(p, off)
             \/ FailOffsets(p, off)
      PROVE  Two'
  <2>1. off \in Nat
    BY SparseAssumption
  <2>2. QED
    BY <1>1, <2>1, OthersTwo, WriteTwo, FailDataTwo, FailOffsetsTwo
<1>2. CASE Close /\ UNCHANGED offsets
  BY <1>2, OthersTwo
<1>3. CASE Open2
  BY <1>3, OpenTwo
<1>4. QED
  BY <1>1, <1>2, <1>3 DEF Next2

\* Two files are kept in step: whatever is appended, fails or is opened again,
\* the index names bytes the data file has, reads give what was written last,
\* and only a failed write can leave files that are refused.
THEOREM TwoFilesInvariant == Spec => [](kind = 2 => Two)
<1>1. Init => (kind = 2 => Two)
  BY InitTwo DEF Init, Init2
<1>2. (kind = 2 => Two) /\ [Next]_vars => (kind = 2 => Two)'
  <2> SUFFICES ASSUME kind = 2 => Two, [Next]_vars, kind' = 2 PROVE Two'
    OBVIOUS
  <2>1. CASE Next
    <3>1. kind = 2 /\ Next2
      BY <2>1 DEF Next
    <3>2. QED
      BY <3>1, NextIsTwo
  <2>2. CASE UNCHANGED vars
    <3>1. kind = 2 /\ UNCHANGED offsets /\ UNCHANGED <<data, up, memory, writes, history>>
      BY <2>2 DEF vars
    <3>2. QED
      BY <3>1, OthersTwo
  <2>3. QED
    BY <2>1, <2>2
<1>3. QED
  BY <1>1, <1>2, PTL DEF Spec

\* Two says what the runs check.
LEMMA TwoMeans ==
  kind = 2 /\ Two => IndexIsSound /\ ReadsLastWrite /\ OpensUnlessTorn
<1> SUFFICES ASSUME kind = 2, Two PROVE IndexIsSound /\ ReadsLastWrite /\ OpensUnlessTorn
  OBVIOUS
<1>1. IndexIsSound /\ ReadsLastWrite
  BY SharedMeans DEF Two
<1>2. ~failed => Opens2
  BY DEF Two, Shared, Opens2, SizesAgree
<1>3. QED
  BY <1>1, <1>2 DEF OpensUnlessTorn

\* No two chunks of the index share a byte, and each names bytes that the data
\* file has, after any failure and any start.
THEOREM TwoFilesIndexed == Spec => [](kind = 2 => IndexIsSound)
BY TwoFilesInvariant, TwoMeans, PTL

\* Each byte reads as the last write that was acknowledged left it, or, after a
\* failed write and a start, as that one would have; zeros that WriteAt left out
\* are the only exception.
THEOREM TwoFilesReadWrites == Spec => [](kind = 2 => ReadsLastWrite)
BY TwoFilesInvariant, TwoMeans, PTL

\* Two files that no write has failed on are not refused by a start.
THEOREM TwoFilesOpen == Spec => [](kind = 2 => OpensUnlessTorn)
BY TwoFilesInvariant, TwoMeans, PTL

-----------------------------------------------------------------------------
(* Sparse files of one file                                                *)

-----------------------------------------------------------------------------
(* Powers of two                                                           *)

\* The function that the recursion defines, on numbers up to n.
Doubles(g, n) ==
  g \in [0 .. n -> Nat] /\ g[0] = 1 /\ \A j \in 1 .. n : g[j] = 2 * g[j - 1]

\* There is such a function for any n.
LEMMA DoublesExist ==
  ASSUME NEW n \in Nat
  PROVE  \E g : Doubles(g, n)
<1> DEFINE Bad == {m \in Nat : ~ \E g : Doubles(g, m)}
<1> SUFFICES ASSUME Bad # {} PROVE FALSE
  OBVIOUS
<1>1. PICK m \in Bad : \A y \in Bad : m <= y
  BY LeastOfNat
<1>2. m # 0
  <2>1. ASSUME m = 0 PROVE FALSE
    <3> DEFINE g == [j \in 0 .. 0 |-> 1]
    <3>1. g \in [0 .. 0 -> Nat] /\ g[0] = 1 /\ \A j \in 1 .. 0 : g[j] = 2 * g[j - 1]
      OBVIOUS
    <3>2. QED
      BY <1>1, <2>1, <3>1 DEF Doubles
  <2>2. QED
    BY <2>1
<1>3. m - 1 \in Nat /\ ~(m <= m - 1)
  BY <1>2
<1>4. PICK g : Doubles(g, m - 1)
  BY <1>1, <1>3
<1> DEFINE h == [j \in 0 .. m |-> IF j = m THEN 2 * g[m - 1] ELSE g[j]]
<1>5. h \in [0 .. m -> Nat] /\ h[0] = 1
  BY <1>2, <1>3, <1>4 DEF Doubles
<1>6. ASSUME NEW j \in 1 .. m PROVE h[j] = 2 * h[j - 1]
  <2>1. j - 1 \in 0 .. m /\ j - 1 # m /\ h[j - 1] = g[j - 1]
    OBVIOUS
  <2>2. CASE j = m
    BY <2>1, <2>2
  <2>3. CASE j # m
    <3>1. j \in 1 .. m - 1 /\ j \in 0 .. m
      BY <2>3
    <3>2. QED
      BY <1>4, <2>1, <2>3, <3>1 DEF Doubles
  <2>4. QED
    BY <2>2, <2>3
<1>7. QED
  BY <1>1, <1>5, <1>6 DEF Doubles

\* Two of them agree where both are defined.
LEMMA DoublesAgree ==
  ASSUME NEW n \in Nat, NEW m \in Nat, n <= m, NEW g, Doubles(g, n), NEW h, Doubles(h, m),
         NEW i \in 0 .. n
  PROVE  g[i] = h[i]
<1> DEFINE Bad == {j \in Nat : j <= n /\ g[j] # h[j]}
<1> SUFFICES ASSUME Bad # {} PROVE FALSE
  OBVIOUS
<1>1. PICK j \in Bad : \A y \in Bad : j <= y
  BY LeastOfNat
<1>2. j # 0
  BY <1>1 DEF Doubles
<1>3. j \in 1 .. n /\ j \in 1 .. m /\ j - 1 \in Nat /\ j - 1 <= n /\ ~(j <= j - 1)
  BY <1>1, <1>2
<1>4. g[j - 1] = h[j - 1]
  BY <1>1, <1>3
<1>5. QED
  BY <1>1, <1>3, <1>4 DEF Doubles

DoubleStep(f, j) == IF j = 0 THEN 1 ELSE 2 * f[j - 1]

\* There is a function on all numbers that solves the recursion.
LEMMA Pow2Exists == \E f : f = [j \in Nat |-> DoubleStep(f, j)]
<1> DEFINE G(j) == CHOOSE g : Doubles(g, j)
           f == [j \in Nat |-> G(j)[j]]
           body(j) == DoubleStep(f, j)
<1>1. \A j \in Nat : Doubles(G(j), j)
  BY DoublesExist
<1>2. \A j \in Nat : f[j] = G(j)[j]
  OBVIOUS
<1> HIDE DEF G
<1>3. ASSUME NEW j \in Nat PROVE f[j] = body(j)
  <2>1. CASE j = 0
    BY <1>1, <1>2, <2>1 DEF Doubles, DoubleStep
  <2>2. CASE j # 0
    <3>1. j - 1 \in Nat /\ j - 1 <= j /\ j - 1 \in 0 .. j - 1 /\ j \in 1 .. j
      BY <2>2
    <3>2. G(j - 1)[j - 1] = G(j)[j - 1]
      BY <1>1, <3>1, DoublesAgree
    <3>3. G(j)[j] = 2 * G(j)[j - 1]
      BY <1>1, <3>1 DEF Doubles
    <3>4. QED
      BY <1>2, <2>2, <3>1, <3>2, <3>3 DEF DoubleStep
  <2>3. QED
    BY <2>1, <2>2
<1>4. f = [j \in Nat |-> f[j]]
  OBVIOUS
<1> HIDE DEF f
<1>5. f = [j \in Nat |-> body(j)]
  BY <1>3, <1>4, Zenon
<1>6. QED
  BY <1>5

\* pow2 is one.
LEMMA Pow2Is == pow2 = [j \in Nat |-> DoubleStep(pow2, j)]
<1>1. pow2 = CHOOSE f : f = [j \in Nat |-> DoubleStep(f, j)]
  BY DEF pow2, DoubleStep
<1>2. QED
  BY <1>1, Pow2Exists

\* Powers are positive, and each is twice the one before.
LEMMA Pow2 ==
  /\ pow2[0] = 1
  /\ \A j \in Nat : pow2[j] \in Nat \ {0} /\ pow2[j + 1] = 2 * pow2[j]
<1>1. \A j \in Nat : pow2[j] = DoubleStep(pow2, j)
  BY Pow2Is
<1>2. pow2[0] = 1 /\ \A j \in Nat : pow2[j + 1] = 2 * pow2[j]
  <2>1. pow2[0] = 1
    BY <1>1 DEF DoubleStep
  <2>2. ASSUME NEW j \in Nat PROVE pow2[j + 1] = 2 * pow2[j]
    <3>1. j + 1 \in Nat /\ j + 1 # 0 /\ (j + 1) - 1 = j
      OBVIOUS
    <3>2. QED
      BY <1>1, <3>1 DEF DoubleStep
  <2>3. QED
    BY <2>1, <2>2
<1> DEFINE Bad == {j \in Nat : pow2[j] \notin Nat \ {0}}
<1>3. Bad = {}
  <2> SUFFICES ASSUME Bad # {} PROVE FALSE
    OBVIOUS
  <2>1. PICK j \in Bad : \A y \in Bad : j <= y
    BY LeastOfNat
  <2>2. j # 0
    BY <1>2, <2>1
  <2>3. j - 1 \in Nat /\ ~(j <= j - 1) /\ (j - 1) + 1 = j
    BY <2>2
  <2>4. pow2[j - 1] \in Nat \ {0} /\ pow2[j] = 2 * pow2[j - 1]
    BY <1>2, <2>1, <2>3
  <2>5. 2 * pow2[j - 1] \in Nat \ {0}
    BY <2>4
  <2>6. QED
    BY <2>1, <2>4, <2>5
<1>4. QED
  BY <1>2, <1>3

\* A later power is a multiple of an earlier one.
LEMMA Pow2Multiple ==
  ASSUME NEW i \in Nat, NEW j \in Nat, i <= j
  PROVE  \E q \in Nat \ {0} : pow2[j] = pow2[i] * q
<1> DEFINE Bad == {d \in Nat : ~ \E q \in Nat \ {0} : pow2[i + d] = pow2[i] * q}
<1>1. Bad = {}
  <2> SUFFICES ASSUME Bad # {} PROVE FALSE
    OBVIOUS
  <2>1. PICK d \in Bad : \A y \in Bad : d <= y
    BY LeastOfNat
  <2>2. pow2[i] \in Nat
    BY Pow2
  <2>3. d # 0
    <3>1. pow2[i + 0] = pow2[i] * 1
      BY <2>2
    <3>2. QED
      BY <2>1, <3>1
  <2>4. d - 1 \in Nat /\ ~(d <= d - 1) /\ i + (d - 1) \in Nat /\ (i + (d - 1)) + 1 = i + d
    BY <2>3
  <2>5. PICK q \in Nat \ {0} : pow2[i + (d - 1)] = pow2[i] * q
    BY <2>1, <2>4
  <2>6. pow2[i + d] = 2 * (pow2[i] * q)
    BY <2>4, <2>5, Pow2
  <2>7. 2 * (pow2[i] * q) = pow2[i] * (2 * q) /\ 2 * q \in Nat \ {0}
    BY <2>2
  <2>8. QED
    BY <2>1, <2>6, <2>7
<1>2. j - i \in Nat /\ i + (j - i) = j
  OBVIOUS
<1>3. QED
  BY <1>1, <1>2

\* Quotient and remainder are known by what they do.
LEMMA DivideIs ==
  ASSUME NEW a \in Int, NEW b \in Nat \ {0}, NEW q \in Int, NEW r \in Int,
         a = b * q + r, 0 <= r, r < b
  PROVE  a \div b = q /\ a % b = r
OBVIOUS

\* A number has a quotient and a remainder.
LEMMA DivideBy ==
  ASSUME NEW a \in Nat, NEW b \in Nat \ {0}
  PROVE  \E q \in Nat, r \in 0 .. b - 1 : a = b * q + r /\ a \div b = q /\ a % b = r
<1> DEFINE Bad == {m \in Nat : ~ \E q \in Nat, r \in 0 .. b - 1 : m = b * q + r}
<1>1. Bad = {}
  <2> SUFFICES ASSUME Bad # {} PROVE FALSE
    OBVIOUS
  <2>1. PICK m \in Bad : \A y \in Bad : m <= y
    BY LeastOfNat
  <2>2. m # 0
    <3>1. 0 = b * 0 + 0 /\ 0 \in 0 .. b - 1 /\ 0 \in Nat
      OBVIOUS
    <3>2. QED
      BY <2>1, <3>1
  <2>3. m - 1 \in Nat /\ ~(m <= m - 1)
    BY <2>2
  <2>4. PICK q \in Nat, r \in 0 .. b - 1 : m - 1 = b * q + r
    BY <2>1, <2>3
  <2>5. CASE r + 1 < b
    <3>1. m = b * q + (r + 1) /\ r + 1 \in 0 .. b - 1
      BY <2>1, <2>4, <2>5
    <3>2. QED
      BY <2>1, <3>1
  <2>6. CASE ~(r + 1 < b)
    <3>1. b * (q + 1) = b * q + b /\ b * q \in Nat
      OBVIOUS
    <3>2. m = b * (q + 1) + 0 /\ 0 \in 0 .. b - 1 /\ q + 1 \in Nat
      BY <2>1, <2>4, <2>6, <3>1
    <3>3. QED
      BY <2>1, <3>2
  <2>7. QED
    BY <2>5, <2>6
<1>2. PICK q \in Nat, r \in 0 .. b - 1 : a = b * q + r
  BY <1>1
<1>3. a \div b = q /\ a % b = r
  BY <1>2, DivideIs
<1>4. QED
  BY <1>2, <1>3

\* Powers grow.
LEMMA Pow2Grows ==
  ASSUME NEW i \in Nat, NEW j \in Nat, i < j
  PROVE  2 * pow2[i] <= pow2[j] /\ pow2[i] < pow2[j]
<1>1. i + 1 \in Nat /\ i + 1 <= j
  OBVIOUS
<1>2. PICK q \in Nat \ {0} : pow2[j] = pow2[i + 1] * q
  BY <1>1, Pow2Multiple
<1>3. pow2[i + 1] = 2 * pow2[i] /\ pow2[i] \in Nat \ {0}
  BY Pow2
<1>4. 2 * pow2[i] * 1 <= 2 * pow2[i] * q
  BY <1>3
<1>5. QED
  BY <1>2, <1>3, <1>4

\* A greater power has a greater exponent.
LEMMA Pow2Order ==
  ASSUME NEW i \in Nat, NEW j \in Nat
  PROVE  (pow2[i] <= pow2[j] <=> i <= j) /\ (pow2[i] < pow2[j] <=> i < j)
<1>1. pow2[i] \in Nat /\ pow2[j] \in Nat
  BY Pow2
<1>2. i < j \/ i = j \/ j < i
  OBVIOUS
<1>3. QED
  BY <1>1, <1>2, Pow2Grows

\* They outgrow their numbers.
LEMMA Pow2Large ==
  ASSUME NEW n \in Nat
  PROVE  n < pow2[n]
<1> DEFINE Bad == {m \in Nat : ~(m < pow2[m])}
<1>1. Bad = {}
  <2> SUFFICES ASSUME Bad # {} PROVE FALSE
    OBVIOUS
  <2>1. PICK m \in Bad : \A y \in Bad : m <= y
    BY LeastOfNat
  <2>2. m # 0
    BY <2>1, Pow2
  <2>3. m - 1 \in Nat /\ ~(m <= m - 1) /\ (m - 1) + 1 = m
    BY <2>2
  <2>4. m - 1 < pow2[m - 1] /\ pow2[m] = 2 * pow2[m - 1] /\ pow2[m - 1] \in Nat
    BY <2>1, <2>3, Pow2
  <2>5. QED
    BY <2>1, <2>3, <2>4
<1>2. QED
  BY <1>1

\* A number is between two of them.
LEMMA Pow2Around ==
  ASSUME NEW k \in Nat \ {0}
  PROVE  \E l \in Nat : l < k /\ pow2[l] <= k /\ k < pow2[l + 1]
<1> DEFINE Above == {m \in Nat : k < pow2[m]}
<1>1. k \in Above
  BY Pow2Large
<1>2. PICK m \in Above : \A y \in Above : m <= y
  BY <1>1, LeastOfNat
<1>3. m # 0 /\ m <= k
  BY <1>1, <1>2, Pow2
<1>4. m - 1 \in Nat /\ (m - 1) + 1 = m /\ ~(m <= m - 1) /\ m - 1 < k
  BY <1>3
<1>5. ~(k < pow2[m - 1]) /\ pow2[m - 1] \in Nat
  BY <1>2, <1>4, Pow2
<1>6. pow2[m - 1] <= k
  BY <1>5
<1>7. QED
  BY <1>2, <1>4, <1>6

-----------------------------------------------------------------------------
(* The lowest bit of a number                                              *)

\* As many records as the entry of a number repeats.
Low(m) == pow2[countZeroBits(m)]

\* A number is an odd multiple of its lowest bit.
LEMMA LowIs ==
  ASSUME NEW m \in Nat \ {0}
  PROVE  /\ countZeroBits(m) \in Nat /\ countZeroBits(m) < m
         /\ Low(m) \in Nat \ {0}
         /\ \E q \in Nat : m = Low(m) * (2 * q + 1)
<1> DEFINE S == {n \in 0 .. m : m % pow2[n] = 0}
           z == countZeroBits(m)
<1>1. 0 \in S
  <2>1. m % 1 = 0
    OBVIOUS
  <2>2. QED
    BY <2>1, Pow2
<1>2. \E x \in S : \A y \in S : y <= x
  BY <1>1, GreatestOfNat
<1>3. \E x \in S : \A y \in S : x >= y
  BY <1>2
<1>4. z \in S /\ \A y \in S : z >= y
  BY <1>3 DEF Max, countZeroBits
<1> HIDE DEF z
<1>5. z \in Nat /\ pow2[z] \in Nat \ {0} /\ pow2[z + 1] = 2 * pow2[z] /\ m % pow2[z] = 0
  BY <1>4, Pow2
<1>6. PICK s \in Nat : m = pow2[z] * s
  <2>0. m \in Nat /\ pow2[z] \in Nat \ {0}
    BY <1>5
  <2>1. PICK s \in Nat, r \in 0 .. pow2[z] - 1 :
          m = pow2[z] * s + r /\ m \div pow2[z] = s /\ m % pow2[z] = r
    BY <2>0, DivideBy, Zenon
  <2>2. r = 0
    BY <1>5, <2>1, Zenon
  <2>3. QED
    BY <1>5, <2>1, <2>2
<1>7. z < m
  <2>1. z < pow2[z]
    BY <1>5, Pow2Large
  <2>2. s # 0
    BY <1>5, <1>6
  <2>3. pow2[z] * 1 <= pow2[z] * s
    BY <1>5, <2>2
  <2>4. QED
    BY <1>5, <1>6, <2>1, <2>3
<1>8. PICK q \in Nat, b \in 0 .. 1 : s = 2 * q + b
  <2>1. \E q \in Nat, b \in 0 .. 2 - 1 : s = 2 * q + b /\ s \div 2 = q /\ s % 2 = b
    BY DivideBy
  <2>2. QED
    BY <2>1
<1>9. b # 0
  <2>1. ASSUME b = 0 PROVE FALSE
    <3>1. m = pow2[z] * (2 * q)
      BY <1>6, <1>8, <2>1
    <3>2. pow2[z] * (2 * q) = (2 * pow2[z]) * q
      BY <1>5
    <3>3. m = pow2[z + 1] * q + 0
      BY <1>5, <3>1, <3>2
    <3>4. m % pow2[z + 1] = 0
      BY <1>5, <3>3, DivideIs
    <3>5. z + 1 \in S
      BY <1>5, <1>7, <3>4
    <3>6. QED
      BY <1>4, <1>5, <3>5
  <2>2. QED
    BY <2>1
<1>10. m = pow2[z] * (2 * q + 1)
  BY <1>6, <1>8, <1>9
<1>11. QED
  BY <1>5, <1>7, <1>10 DEF Low, z

\* The lowest bit is the greatest power that divides the number.
LEMMA LowGreatest ==
  ASSUME NEW m \in Nat \ {0}, NEW n \in Nat, m % pow2[n] = 0, n <= m
  PROVE  n <= countZeroBits(m)
<1> DEFINE S == {y \in 0 .. m : m % pow2[y] = 0}
<1>1. n \in S
  OBVIOUS
<1>2. \E x \in S : \A y \in S : y <= x
  BY <1>1, GreatestOfNat
<1>3. \E x \in S : \A y \in S : x >= y
  BY <1>2
<1>4. countZeroBits(m) \in S /\ \A y \in S : countZeroBits(m) >= y
  BY <1>3 DEF Max, countZeroBits
<1>5. countZeroBits(m) >= n /\ countZeroBits(m) \in Nat
  BY <1>1, <1>4
<1>6. QED
  BY <1>5

\* Lower powers divide it an even number of times.
LEMMA LowBelow ==
  ASSUME NEW m \in Nat \ {0}, NEW j \in Nat, j <= countZeroBits(m)
  PROVE  /\ m % pow2[j] = 0
         /\ j # countZeroBits(m) =>
              \E a \in Nat, b \in Nat :
                 m \div pow2[j] = 2 * a /\ (m - Low(m)) \div pow2[j] = 2 * b
<1> DEFINE z == countZeroBits(m)
<1>1. z \in Nat /\ Low(m) = pow2[z] /\ Low(m) \in Nat \ {0}
  BY LowIs DEF Low
<1>2. PICK q \in Nat : m = Low(m) * (2 * q + 1)
  BY LowIs
<1>3. j <= z
  OBVIOUS
<1> HIDE DEF z
<1>4. pow2[j] \in Nat \ {0}
  BY Pow2
<1>5. PICK s \in Nat \ {0} : Low(m) = pow2[j] * s
  BY <1>1, <1>3, Pow2Multiple
<1>6. m = pow2[j] * (s * (2 * q + 1)) /\ s * (2 * q + 1) \in Nat
  BY <1>2, <1>4, <1>5
<1>7. m = pow2[j] * (s * (2 * q + 1)) + 0
  BY <1>4, <1>6
<1>8. m \div pow2[j] = s * (2 * q + 1) /\ m % pow2[j] = 0
  BY <1>4, <1>6, <1>7, DivideIs
<1>9. ASSUME j # z
      PROVE  \E a \in Nat, b \in Nat :
               m \div pow2[j] = 2 * a /\ (m - Low(m)) \div pow2[j] = 2 * b
  <2>1. j + 1 <= z /\ j + 1 \in Nat
    BY <1>1, <1>3, <1>9
  <2>2. PICK t \in Nat \ {0} : Low(m) = pow2[j + 1] * t
    BY <1>1, <2>1, Pow2Multiple
  <2>3. Low(m) = pow2[j] * (2 * t)
    BY <1>4, <2>2, Pow2
  <2>4. m = pow2[j] * (2 * (t * (2 * q + 1))) + 0 /\ t * (2 * q + 1) \in Nat
    BY <1>2, <1>4, <2>3
  <2>5. m - Low(m) = pow2[j] * (2 * (t * (2 * q))) + 0 /\ t * (2 * q) \in Nat
    BY <1>2, <1>4, <2>3
  <2>6. m \div pow2[j] = 2 * (t * (2 * q + 1))
    <3> DEFINE x == t * (2 * q + 1)
    <3>1. x \in Nat /\ m = pow2[j] * (2 * x) + 0
      BY <2>4
    <3> HIDE DEF x
    <3>2. m \div pow2[j] = 2 * x
      BY <1>4, <3>1, DivideIs
    <3>3. QED
      BY <3>2 DEF x
  <2>7. (m - Low(m)) \div pow2[j] = 2 * (t * (2 * q))
    <3> DEFINE x == t * (2 * q)
               y == m - Low(m)
    <3>1. x \in Nat /\ y = pow2[j] * (2 * x) + 0
      BY <2>5
    <3> HIDE DEF x, y
    <3>2. y \div pow2[j] = 2 * x
      BY <1>4, <3>1, DivideIs
    <3>3. QED
      BY <3>2 DEF x, y
  <2>8. QED
    BY <2>4, <2>5, <2>6, <2>7
<1>10. QED
  BY <1>8, <1>9 DEF z

\* Above it, the remainder has it.
LEMMA LowAbove ==
  ASSUME NEW m \in Nat \ {0}, NEW j \in Nat, countZeroBits(m) < j
  PROVE  \E a \in Nat, r \in Nat :
            m = pow2[j] * a + r + Low(m) /\ r + Low(m) < pow2[j]
<1> DEFINE z == countZeroBits(m)
<1>1. z \in Nat /\ Low(m) = pow2[z] /\ Low(m) \in Nat \ {0} /\ z + 1 <= j
  BY LowIs DEF Low
<1>2. PICK q \in Nat : m = Low(m) * (2 * q + 1)
  BY LowIs
<1> HIDE DEF z
<1>3. PICK s \in Nat \ {0} : pow2[j] = pow2[z + 1] * s
  BY <1>1, Pow2Multiple
<1>4. pow2[j] = Low(m) * (2 * s)
  BY <1>1, <1>3, Pow2
<1>5. PICK a \in Nat, b \in 0 .. s - 1 : q = s * a + b
  <2>1. \E a \in Nat, b \in 0 .. s - 1 : q = s * a + b /\ q \div s = a /\ q % s = b
    BY DivideBy, Zenon
  <2>2. QED
    BY <2>1
<1>6. Low(m) * (2 * b) \in Nat /\ pow2[j] * a = Low(m) * (2 * (s * a))
  BY <1>1, <1>4
<1>7. m = pow2[j] * a + Low(m) * (2 * b) + Low(m)
  <2>1. Low(m) * (2 * (s * a + b) + 1) = Low(m) * (2 * (s * a)) + Low(m) * (2 * b) + Low(m)
    BY <1>1
  <2>2. QED
    BY <1>2, <1>5, <1>6, <2>1
<1>8. Low(m) * (2 * b) + Low(m) < pow2[j]
  <2>1. 2 * b + 1 < 2 * s
    BY <1>5
  <2>2. Low(m) * (2 * b + 1) < Low(m) * (2 * s)
    BY <1>1, <2>1
  <2>3. Low(m) * (2 * b + 1) = Low(m) * (2 * b) + Low(m)
    BY <1>1
  <2>4. QED
    BY <1>4, <2>2, <2>3
<1>9. QED
  BY <1>6, <1>7, <1>8

\* The lowest bit of what is left is higher.
LEMMA LowRises ==
  ASSUME NEW m \in Nat \ {0}
  PROVE  /\ Low(m) <= m /\ m - Low(m) \in Nat
         /\ m # Low(m) => countZeroBits(m) < countZeroBits(m - Low(m))
                          /\ 2 * Low(m) <= Low(m - Low(m))
<1> DEFINE z == countZeroBits(m)
           p == m - Low(m)
<1>1. z \in Nat /\ Low(m) = pow2[z] /\ Low(m) \in Nat \ {0}
  BY LowIs DEF Low
<1>2. PICK q \in Nat : m = Low(m) * (2 * q + 1)
  BY LowIs
<1>3. p = Low(m) * (2 * q) /\ p \in Nat
  BY <1>1, <1>2
<1>4. Low(m) <= m
  BY <1>1, <1>3
<1> HIDE DEF z, p
<1>5. ASSUME m # Low(m) PROVE z < countZeroBits(p) /\ 2 * Low(m) <= Low(p)
  <2>1. p # 0
    BY <1>1, <1>5 DEF p
  <2>2. p = pow2[z + 1] * q /\ z + 1 \in Nat /\ pow2[z + 1] \in Nat \ {0}
    BY <1>1, <1>3, Pow2
  <2>3. p % pow2[z + 1] = 0
    <3>1. p = pow2[z + 1] * q + 0
      BY <2>2
    <3>2. QED
      BY <1>3, <2>2, <3>1, DivideIs
  <2>4. z + 1 <= p
    <3>1. q # 0
      BY <2>1, <2>2
    <3>2. pow2[z + 1] * 1 <= pow2[z + 1] * q
      BY <2>2, <3>1
    <3>3. z + 1 < pow2[z + 1]
      BY <2>2, Pow2Large
    <3>4. QED
      BY <2>2, <3>2, <3>3
  <2>5. z + 1 <= countZeroBits(p)
    BY <1>3, <2>1, <2>2, <2>3, <2>4, LowGreatest
  <2>6. countZeroBits(p) \in Nat
    BY <1>3, <2>1, LowIs
  <2>7. pow2[z + 1] <= Low(p)
    BY <2>2, <2>5, <2>6, Pow2Order DEF Low
  <2>8. QED
    BY <1>1, <2>5, <2>6, <2>7, Pow2
<1>6. QED
  BY <1>3, <1>4, <1>5 DEF z, p

\* The last number up to k that the power divides.
Cleared(k, j) == k - (k % pow2[j])

\* A number without its last bits is not greater, and keeps a bit above them.
LEMMA ClearedBounds ==
  ASSUME NEW k \in Nat, NEW j \in Nat
  PROVE  /\ Cleared(k, j) \in 0 .. k
         /\ pow2[j] <= k => pow2[j] <= Cleared(k, j)
<1>1. k \in Nat /\ pow2[j] \in Nat \ {0}
  BY Pow2
<1>2. PICK q \in Nat, r \in 0 .. pow2[j] - 1 :
        k = pow2[j] * q + r /\ k \div pow2[j] = q /\ k % pow2[j] = r
  BY <1>1, DivideBy, Zenon
<1>3. Cleared(k, j) = k - r
  BY <1>2, Zenon DEF Cleared
<1>4. r \in 0 .. pow2[j] - 1 /\ k = pow2[j] * q + r
  BY <1>2, Zenon
<1>5. Cleared(k, j) = pow2[j] * q /\ pow2[j] * q \in Nat /\ pow2[j] * q <= k
  BY <1>1, <1>3, <1>4
<1>6. ASSUME pow2[j] <= k PROVE pow2[j] <= pow2[j] * q
  <2>1. q # 0
    <3>1. ASSUME q = 0 PROVE FALSE
      <4>1. k = r
        BY <1>1, <1>4, <3>1
      <4>2. QED
        BY <1>1, <1>4, <1>6, <4>1
    <3>2. QED
      BY <3>1
  <2>2. pow2[j] * 1 <= pow2[j] * q
    BY <1>1, <2>1
  <2>3. QED
    BY <1>1, <2>2
<1>7. QED
  BY <1>5, <1>6

\* A number is cleared to itself below its lowest bit, and above it like the
\* number before it, or the one that is left without that bit.
LEMMA ClearedBelow ==
  ASSUME NEW m \in Nat \ {0}, NEW j \in Nat, j <= countZeroBits(m)
  PROVE  Cleared(m, j) = m
<1>1. m % pow2[j] = 0
  BY LowBelow
<1>2. Cleared(m, j) = m - 0
  BY <1>1, Zenon DEF Cleared
<1>3. QED
  BY <1>2

\* The bits from the lowest one on are not those of the number before.
LEMMA ClearedAbove ==
  ASSUME NEW m \in Nat \ {0}, NEW j \in Nat, countZeroBits(m) < j
  PROVE  /\ Cleared(m, j) = Cleared(m - 1, j)
         /\ Cleared(m, j) = Cleared(m - Low(m), j)
<1>1. PICK a \in Nat, r \in Nat : m = pow2[j] * a + r + Low(m) /\ r + Low(m) < pow2[j]
  BY LowAbove
<1>2. pow2[j] \in Nat \ {0} /\ Low(m) \in Nat \ {0} /\ m - 1 \in Nat /\ m - Low(m) \in Nat
  BY Pow2, LowIs, LowRises
<1>3. \A y \in Int, x \in Int :
        y = pow2[j] * a + x /\ 0 <= x /\ x < pow2[j] => Cleared(y, j) = y - x
  <2> TAKE y \in Int, x \in Int
  <2> HAVE y = pow2[j] * a + x /\ 0 <= x /\ x < pow2[j]
  <2>1. y % pow2[j] = x
    BY <1>2, DivideIs
  <2>2. QED
    BY <2>1, Zenon DEF Cleared
<1> DEFINE B == pow2[j] * a
<1>4. B \in Nat /\ m = B + (r + Low(m)) /\ m - 1 = B + (r + Low(m) - 1) /\ m - Low(m) = B + r
  BY <1>1, <1>2
<1>5. \A y \in Int, x \in Int :
        y = B + x /\ 0 <= x /\ x < pow2[j] => Cleared(y, j) = y - x
  BY <1>3
<1>6. r + Low(m) < pow2[j]
  BY <1>1
<1> HIDE DEF B
<1>7. /\ Cleared(m, j) = m - (r + Low(m))
      /\ Cleared(m - 1, j) = (m - 1) - (r + Low(m) - 1)
      /\ Cleared(m - Low(m), j) = (m - Low(m)) - r
  BY <1>2, <1>4, <1>5, <1>6
<1>8. QED
  BY <1>2, <1>7

\* The parent of an entry is at the level above its lowest bit.
LEMMA ClearedParent ==
  ASSUME NEW m \in Nat \ {0}
  PROVE  Cleared(m - 1, countZeroBits(m) + 1) = m - Low(m)
<1>1. /\ countZeroBits(m) \in Nat /\ Low(m) \in Nat \ {0} /\ m - 1 \in Nat
      /\ pow2[countZeroBits(m) + 1] = 2 * Low(m)
  <2>1. countZeroBits(m) \in Nat /\ Low(m) \in Nat \ {0}
    BY LowIs
  <2>2. pow2[countZeroBits(m) + 1] = 2 * pow2[countZeroBits(m)]
    BY <2>1, Pow2
  <2>3. QED
    BY <2>1, <2>2 DEF Low
<1>2. PICK q \in Nat : m = Low(m) * (2 * q + 1)
  BY LowIs
<1>3. m - 1 = (2 * Low(m)) * q + (Low(m) - 1)
  BY <1>1, <1>2
<1>4. (m - 1) % (2 * Low(m)) = Low(m) - 1
  BY <1>1, <1>3, DivideIs
<1>5. Cleared(m - 1, countZeroBits(m) + 1) = (m - 1) - (Low(m) - 1)
  BY <1>1, <1>4, Zenon DEF Cleared
<1>6. QED
  BY <1>1, <1>5

\* With as many levels as the numbers before have, a number adds none or one.
LEMMA ChainGrows ==
  ASSUME NEW m \in Nat, 1 < m, NEW l \in Nat, pow2[l] < m, m <= pow2[l + 1]
  PROVE  \/ countZeroBits(m) < l /\ m < pow2[l + 1]
         \/ countZeroBits(m) = l + 1 /\ m = pow2[l + 1]
<1> DEFINE z == countZeroBits(m)
<1>1. m \in Nat \ {0} /\ l + 1 \in Nat
  OBVIOUS
<1>2. z \in Nat /\ Low(m) = pow2[z] /\ Low(m) \in Nat \ {0} /\ Low(m) <= m
  BY <1>1, LowIs, LowRises DEF Low
<1>3. PICK q \in Nat : m = Low(m) * (2 * q + 1)
  BY <1>1, LowIs
<1>4. pow2[l + 1] = 2 * pow2[l] /\ pow2[l] \in Nat \ {0}
  BY Pow2
<1> HIDE DEF z
<1>5. z <= l + 1
  BY <1>1, <1>2, <1>4, Pow2Order
<1>6. z # l
  <2>1. ASSUME z = l PROVE FALSE
    <3>1. q # 0
      BY <1>2, <1>3, <2>1
    <3>2. pow2[l] * (2 * q + 1) >= pow2[l] * 3
      BY <1>4, <3>1
    <3>3. QED
      BY <1>2, <1>3, <1>4, <2>1, <3>2
  <2>2. QED
    BY <2>1
<1>7. CASE z = l + 1
  BY <1>2, <1>4, <1>7 DEF z
<1>8. CASE z < l
  <2>1. m # pow2[l + 1]
    <3>1. ASSUME m = pow2[l + 1] PROVE FALSE
      <4>1. m % pow2[l + 1] = 0
        <5>1. m = pow2[l + 1] * 1 + 0
          BY <3>1
        <5>2. pow2[l + 1] \in Nat \ {0}
          BY <1>4
        <5>3. QED
          BY <5>1, <5>2, DivideIs
      <4>2. l + 1 <= m
        BY <1>1, <3>1, Pow2Large
      <4>3. l + 1 <= countZeroBits(m)
        BY <1>1, <4>1, <4>2, LowGreatest
      <4>4. QED
        BY <1>2, <1>8, <4>3 DEF z
    <3>2. QED
      BY <3>1
  <2>2. QED
    BY <1>4, <1>8, <2>1 DEF z
<1>9. QED
  BY <1>2, <1>5, <1>6, <1>7, <1>8

\* The bits of a number.
Bits(k) == {j \in 0 .. MaxWrites : (k \div pow2[j]) % 2 = 1}

\* The last bit of a number.
LEMMA EvenOrOdd == \A a \in Nat : (2 * a) % 2 # 1 /\ (2 * a + 1) % 2 = 1
  OBVIOUS

\* Zero has no bits.
LEMMA BitsOfZero == Bits(0) = {}
<1>1. ASSUME NEW j \in 0 .. MaxWrites PROVE (0 \div pow2[j]) % 2 # 1
  <2>1. j \in Nat /\ pow2[j] \in Nat \ {0}
    BY SparseAssumption, Pow2
  <2>2. 0 = pow2[j] * 0 + 0
    BY <2>1
  <2>3. 0 \div pow2[j] = 0
    BY <2>1, <2>2, DivideIs
  <2>4. QED
    BY <2>3
<1>2. QED
  BY <1>1 DEF Bits

\* Without the lowest bit there is one bit less.
LEMMA BitsLess ==
  ASSUME NEW m \in Nat \ {0}, m <= MaxWrites
  PROVE  /\ Bits(m) = Bits(m - Low(m)) \cup {countZeroBits(m)}
         /\ countZeroBits(m) \notin Bits(m - Low(m))
<1> DEFINE z == countZeroBits(m)
           p == m - Low(m)
<1>1. z \in Nat /\ z < m /\ Low(m) = pow2[z] /\ Low(m) \in Nat \ {0} /\ p \in Nat
  BY LowIs, LowRises DEF Low
<1>2. z \in 0 .. MaxWrites /\ MaxWrites \in Nat
  BY <1>1, SparseAssumption
<1>3. (m \div pow2[z]) % 2 = 1 /\ (p \div pow2[z]) % 2 # 1
  <2>1. PICK q \in Nat : m = Low(m) * (2 * q + 1)
    BY LowIs
  <2>2. m = pow2[z] * (2 * q + 1) + 0 /\ p = pow2[z] * (2 * q) + 0
    BY <1>1, <2>1
  <2> HIDE DEF z, p
  <2>3. pow2[z] \in Nat \ {0} /\ p \in Nat /\ m \in Nat
    BY <1>1
  <2> DEFINE x == 2 * q + 1
             y == 2 * q
  <2>4. x \in Nat /\ y \in Nat /\ m = pow2[z] * x + 0 /\ p = pow2[z] * y + 0
    BY <2>2
  <2> HIDE DEF x, y
  <2>5. m \div pow2[z] = x /\ p \div pow2[z] = y
    BY <2>3, <2>4, DivideIs
  <2>6. x % 2 = 1 /\ y % 2 # 1
    BY EvenOrOdd DEF x, y
  <2>7. QED
    BY <2>5, <2>6, Zenon
<1>4. ASSUME NEW j \in Nat, j # z
      PROVE  (m \div pow2[j]) % 2 = 1 <=> (p \div pow2[j]) % 2 = 1
  <2>1. CASE j < z
    <3>0. j <= countZeroBits(m) /\ j # countZeroBits(m)
      BY <1>1, <2>1
    <3>1. PICK a \in Nat, b \in Nat : m \div pow2[j] = 2 * a /\ p \div pow2[j] = 2 * b
      BY <3>0, LowBelow, Zenon
    <3>2. (2 * a) % 2 # 1 /\ (2 * b) % 2 # 1
      BY EvenOrOdd
    <3> HIDE DEF z, p
    <3>3. QED
      BY <3>1, <3>2, Zenon
  <2>2. CASE z < j
    <3>1. PICK a \in Nat, r \in Nat : m = pow2[j] * a + r + Low(m) /\ r + Low(m) < pow2[j]
      BY <2>2, LowAbove
    <3>2. pow2[j] \in Nat \ {0}
      BY Pow2
    <3> DEFINE x == r + Low(m)
    <3>3. x \in Nat /\ x < pow2[j] /\ m \in Nat /\ m = pow2[j] * a + x
      BY <1>1, <3>1, <3>2
    <3>4. r < pow2[j] /\ p = pow2[j] * a + r
      BY <1>1, <3>1, <3>2
    <3> HIDE DEF x, z, p
    <3>5. m \div pow2[j] = a
      BY <3>2, <3>3, DivideIs
    <3>6. p \div pow2[j] = a
      BY <1>1, <3>2, <3>4, DivideIs
    <3>7. QED
      BY <3>5, <3>6, Zenon
  <2>3. QED
    BY <1>1, <1>4, <2>1, <2>2
<1> HIDE DEF z, p
<1>5. z \notin Bits(p)
  BY <1>3 DEF Bits
<1>6. Bits(m) = Bits(p) \cup {z}
  <2>1. \A j \in 0 .. MaxWrites : j \in Nat
    BY <1>2
  <2>2. QED
    BY <1>2, <1>3, <1>4, <2>1, Zenon DEF Bits
<1>7. QED
  BY <1>5, <1>6 DEF z, p

\* As sets of bits grow with their numbers, they are finite.
LEMMA BitsFinite ==
  ASSUME NEW m \in Nat \ {0}, m <= MaxWrites
  PROVE  /\ Cardinality(Bits(m - Low(m))) \in Nat
         /\ Cardinality(Bits(m)) = Cardinality(Bits(m - Low(m))) + 1
<1>1. IsFiniteSet(0 .. MaxWrites)
  BY SparseAssumption, FS_Interval
<1>2. Bits(m - Low(m)) \subseteq 0 .. MaxWrites
  BY DEF Bits
<1>3. IsFiniteSet(Bits(m - Low(m)))
  BY <1>1, <1>2, FS_Subset
<1>4. QED
  BY <1>3, BitsLess, FS_AddElement, FS_CardinalityType

-----------------------------------------------------------------------------
(* Reading back along the parents                                          *)

\* One step, from a function for the entries before.
BackStep(f, p) ==
  LET older == IF data[p + 1] = 0 THEN Nothing
               ELSE IF p - data[p + 1] \in Headers THEN f[p - data[p + 1]]
               ELSE Refused
      o == OffsetsAt(p)
  IN IF ~older.ok \/ ~WholeRecords(o) THEN Refused
     ELSE [ok       |-> TRUE,
           offsets  |-> older.offsets \o o,
           elements |-> Append(older.elements, Elem(Len(older.offsets) + Len(o), p)),
           sizes    |-> Append(older.sizes, Len(o) \div 3)]

\* A step looks at earlier headers only.
LEMMA BackStepLocal ==
  ASSUME NEW p \in Headers, data \in Seq(Int),
         NEW f, NEW g, \A h \in Headers : h < p => f[h] = g[h]
  PROVE  BackStep(f, p) = BackStep(g, p)
<1>1. data[p + 1] \in Nat /\ p \in Nat
  <2>1. p \in 0 .. Len(data) - 6 /\ data[p + 1] >= 0 /\ Len(data) \in Nat
    BY LenProperties DEF Headers
  <2>2. p + 1 \in 1 .. Len(data)
    BY <2>1
  <2>3. data[p + 1] \in Int
    BY <2>2, ElementOfSeq
  <2>4. QED
    BY <2>1, <2>3
<1>2. data[p + 1] # 0 /\ p - data[p + 1] \in Headers => f[p - data[p + 1]] = g[p - data[p + 1]]
  <2>1. data[p + 1] # 0 => p - data[p + 1] < p
    BY <1>1
  <2>2. QED
    BY <2>1
<1>3. QED
  BY <1>2, Zenon DEF BackStep

\* The function on the headers before n.
Before(n) == {h \in Headers : h < n}
Backs(f, n) == \A p \in Before(n) : f[p] = BackStep(f, p)

\* There is such a function before any n.
LEMMA BacksExist ==
  ASSUME data \in Seq(Int), NEW n \in Nat
  PROVE  \E f : Backs(f, n)
<1> DEFINE Bad == {m \in Nat : ~ \E f : Backs(f, m)}
<1> SUFFICES ASSUME Bad # {} PROVE FALSE
  OBVIOUS
<1>1. PICK m \in Bad : \A y \in Bad : m <= y
  BY LeastOfNat
<1>2. \A h \in Headers : h \in Nat
  BY DEF Headers
<1>3. m # 0
  <2>1. ASSUME m = 0 PROVE FALSE
    <3>1. Before(m) = {}
      BY <1>2, <2>1 DEF Before
    <3>2. Backs(<< >>, m)
      BY <3>1 DEF Backs
    <3>3. QED
      BY <1>1, <3>2
  <2>2. QED
    BY <2>1
<1>4. m - 1 \in Nat /\ ~(m <= m - 1)
  BY <1>3
<1>5. PICK f : Backs(f, m - 1)
  BY <1>1, <1>4
<1> DEFINE g == [p \in Before(m) |-> IF p = m - 1 THEN BackStep(f, p) ELSE f[p]]
<1>6. ASSUME NEW p \in Before(m) PROVE g[p] = BackStep(g, p)
  <2>1. g[p] = BackStep(f, p)
    <3>1. CASE p = m - 1
      BY <3>1
    <3>2. CASE p # m - 1
      <4>1. p \in Headers /\ p \in Nat /\ p < m
        BY <1>2 DEF Before
      <4>2. p < m - 1
        BY <1>1, <3>2, <4>1
      <4>3. p \in Before(m - 1)
        BY <4>1, <4>2 DEF Before
      <4>4. QED
        BY <1>5, <3>2, <4>3 DEF Backs
    <3>3. QED
      BY <3>1, <3>2
  <2>2. ASSUME NEW h \in Headers, h < p PROVE f[h] = g[h]
    <3>1. h \in Nat /\ p \in Nat /\ p < m
      BY <1>2 DEF Before
    <3>2. h \in Before(m) /\ h # m - 1
      BY <1>1, <2>2, <3>1 DEF Before
    <3>3. QED
      BY <3>2
  <2>3. p \in Headers
    BY DEF Before
  <2> HIDE DEF g
  <2>4. BackStep(f, p) = BackStep(g, p)
    BY <2>2, <2>3, BackStepLocal
  <2>5. QED
    BY <2>1, <2>4
<1> HIDE DEF g
<1>7. QED
  BY <1>1, <1>6 DEF Backs

\* Two of them agree where both are defined.
LEMMA BacksAgree ==
  ASSUME data \in Seq(Int), NEW n, NEW m, NEW f, Backs(f, n), NEW g, Backs(g, m),
         NEW p \in Headers, p \in Before(n), p \in Before(m), n \in Nat, m \in Nat
  PROVE  f[p] = g[p]
<1> DEFINE Bad == {h \in Headers : h < n /\ h < m /\ f[h] # g[h]}
<1> SUFFICES ASSUME Bad # {} PROVE FALSE
  BY DEF Before
<1>1. \A h \in Headers : h \in Nat
  BY DEF Headers
<1>2. Bad \subseteq Nat
  BY <1>1
<1>3. PICK h \in Bad : \A y \in Bad : h <= y
  BY <1>2, LeastOfNat
<1>4. ASSUME NEW e \in Headers, e < h PROVE f[e] = g[e]
  <2>1. e \in Nat /\ h \in Nat /\ e < n /\ e < m /\ ~(h <= e)
    BY <1>1, <1>3, <1>4
  <2>2. QED
    BY <1>3, <2>1
<1>5. h \in Headers /\ h \in Before(n) /\ h \in Before(m)
  BY <1>3 DEF Before
<1>6. BackStep(f, h) = BackStep(g, h)
  BY <1>4, <1>5, BackStepLocal
<1>7. QED
  BY <1>3, <1>5, <1>6 DEF Backs

\* There is a function on all headers that solves the recursion.
LEMMA ReadBackExists ==
  ASSUME data \in Seq(Int)
  PROVE  \E f : f = [p \in Headers |-> BackStep(f, p)]
<1> DEFINE G(n) == CHOOSE g : Backs(g, n)
           f == [p \in Headers |-> G(p + 1)[p]]
           body(p) == BackStep(f, p)
<1>1. \A n \in Nat : Backs(G(n), n)
  BY BacksExist
<1>2. \A p \in Headers : f[p] = G(p + 1)[p] /\ p \in Nat /\ p \in Before(p + 1)
  BY DEF Headers, Before
<1> HIDE DEF G, f
<1>3. ASSUME NEW p \in Headers PROVE f[p] = body(p)
  <2>1. p + 1 \in Nat /\ Backs(G(p + 1), p + 1) /\ p \in Before(p + 1)
    BY <1>1, <1>2
  <2>2. G(p + 1)[p] = BackStep(G(p + 1), p)
    BY <2>1 DEF Backs
  <2>3. ASSUME NEW h \in Headers, h < p PROVE G(p + 1)[h] = f[h]
    <3>1. h + 1 \in Nat /\ h \in Before(h + 1) /\ f[h] = G(h + 1)[h] /\ Backs(G(h + 1), h + 1)
      BY <1>1, <1>2
    <3>2. h \in Before(p + 1)
      BY <1>2, <2>3 DEF Before
    <3>3. QED
      BY <2>1, <3>1, <3>2, BacksAgree
  <2>4. BackStep(G(p + 1), p) = BackStep(f, p)
    BY <2>3, BackStepLocal
  <2>5. QED
    BY <1>2, <2>2, <2>4
<1>4. f = [p \in Headers |-> f[p]]
  BY DEF f
<1> HIDE DEF f
<1>5. f = [p \in Headers |-> body(p)]
  BY <1>3, <1>4, Zenon
<1>6. QED
  BY <1>5

\* ReadBack is one.
LEMMA ReadBackIs ==
  ASSUME data \in Seq(Int), NEW p \in Headers
  PROVE  ReadBack[p] = BackStep(ReadBack, p)
<1>1. ReadBack = CHOOSE f : f = [h \in Headers |-> BackStep(f, h)]
  BY DEF ReadBack, BackStep
<1>2. ReadBack = [h \in Headers |-> BackStep(ReadBack, h)]
  BY <1>1, ReadBackExists
<1>3. QED
  BY <1>2

\* The lowest bit of a number, and the number without it.
LEMMA LowParts ==
  ASSUME NEW m \in Nat \ {0}
  PROVE  /\ countZeroBits(m) \in Nat /\ countZeroBits(m) < m
         /\ Low(m) = pow2[countZeroBits(m)] /\ Low(m) \in Nat \ {0} /\ Low(m) <= m
         /\ m - Low(m) \in 0 .. m - 1 /\ (m - Low(m)) + Low(m) = m
         /\ m - Low(m) # 0 => 2 * Low(m) <= Low(m - Low(m))
<1>1. countZeroBits(m) \in Nat /\ countZeroBits(m) < m /\ Low(m) \in Nat \ {0}
  BY LowIs
<1>2. Low(m) = pow2[countZeroBits(m)]
  BY DEF Low
<1>3. Low(m) <= m /\ (m # Low(m) => 2 * Low(m) <= Low(m - Low(m)))
  BY LowRises
<1>4. QED
  BY <1>1, <1>2, <1>3

-----------------------------------------------------------------------------
(* What is read back of the first i entries                                *)

OffsetsRead(f, o, i) ==
  f \in Seq(Int) /\ Len(f) = 3 * i /\ \A x \in 1 .. 3 * i : f[x] = o[x]

SizesRead(s, i) ==
  /\ s \in Seq(Nat) /\ Len(s) = Cardinality(Bits(i))
  /\ \A t \in 1 .. Len(s) : \E j \in 0 .. MaxWrites : s[t] = pow2[j]
  /\ \A t \in 2 .. Len(s) : s[t - 1] >= s[t]
  /\ i # 0 => Len(s) # 0 /\ s[Len(s)] = Low(i) /\ s[1] <= i

\* t is the last entry of at least the size.
LastOfSize(s, size, t) ==
  /\ t \in 1 .. Len(s) /\ s[t] >= size
  /\ \A u \in 1 .. Len(s) : s[u] >= size => u <= t

\* Among the entries that are read, the last of those that are as large as the
\* power is the last of all entries that the power divides.
ElementsRead(e, s, at, i) ==
  /\ e \in Seq([inOffsets : Int, inData : Int]) /\ Len(e) = Len(s)
  /\ \A j \in Nat : pow2[j] <= i =>
       \E t : LastOfSize(s, pow2[j], t)
              /\ e[t] = Elem(3 * Cleared(i, j), at[Cleared(i, j)])

\* The offsets read, with those of one more entry.
LEMMA OffsetsReadNext ==
  ASSUME NEW i \in Nat \ {0}, NEW o, NEW f, OffsetsRead(f, o, i - Low(i)),
         NEW g \in Seq(Int), Len(g) = 3 * Low(i),
         \A x \in 1 .. 3 * Low(i) : g[x] = o[3 * (i - Low(i)) + x]
  PROVE  OffsetsRead(f \o g, o, i)
<1> DEFINE p == i - Low(i)
           n == Low(i)
<1>1. p \in Nat /\ n \in Nat /\ p + n = i
  BY LowParts
<1>2. f \in Seq(Int) /\ Len(f) = 3 * p /\ \A x \in 1 .. 3 * p : f[x] = o[x]
  BY DEF OffsetsRead
<1>3. Len(g) = 3 * n /\ \A x \in 1 .. 3 * n : g[x] = o[3 * p + x]
  OBVIOUS
<1> HIDE DEF p, n
<1>4. /\ f \o g \in Seq(Int) /\ Len(f \o g) = 3 * p + 3 * n
      /\ \A x \in 1 .. 3 * p + 3 * n : (f \o g)[x] = IF x <= 3 * p THEN f[x] ELSE g[x - 3 * p]
  <2>1. /\ f \o g \in Seq(Int) /\ Len(f \o g) = Len(f) + Len(g)
        /\ \A x \in 1 .. Len(f) + Len(g) :
             (f \o g)[x] = IF x <= Len(f) THEN f[x] ELSE g[x - Len(f)]
    BY <1>2, ConcatProperties
  <2>2. QED
    BY <1>2, <1>3, <2>1
<1>5. ASSUME NEW x \in 1 .. 3 * i PROVE (f \o g)[x] = o[x]
  <2>1. x \in 1 .. 3 * p + 3 * n
    BY <1>1
  <2>2. CASE x <= 3 * p
    <3>1. x \in 1 .. 3 * p
      BY <1>1, <2>2
    <3>2. QED
      BY <1>2, <1>4, <2>1, <2>2, <3>1
  <2>3. CASE ~(x <= 3 * p)
    <3>1. x - 3 * p \in 1 .. 3 * n /\ 3 * p + (x - 3 * p) = x
      BY <1>1, <2>1, <2>3
    <3>2. g[x - 3 * p] = o[x]
      BY <1>3, <3>1
    <3>3. QED
      BY <1>4, <2>1, <2>3, <3>2
  <2>4. QED
    BY <2>2, <2>3
<1>6. Len(f \o g) = 3 * i
  BY <1>1, <1>4
<1>7. QED
  BY <1>4, <1>5, <1>6 DEF OffsetsRead

\* The sizes read, with that of one more entry.
LEMMA SizesReadNext ==
  ASSUME NEW i \in Nat \ {0}, i <= MaxWrites, NEW s, SizesRead(s, i - Low(i))
  PROVE  SizesRead(Append(s, Low(i)), i)
<1> DEFINE p == i - Low(i)
           n == Low(i)
           l == Len(s)
           more == Append(s, n)
<1>1. /\ p \in Nat /\ n \in Nat \ {0} /\ p + n = i /\ n <= i
      /\ p # 0 => 2 * n <= Low(p)
  BY LowParts
<1>2. /\ s \in Seq(Nat) /\ l = Cardinality(Bits(p))
      /\ \A t \in 1 .. l : \E j \in 0 .. MaxWrites : s[t] = pow2[j]
      /\ \A t \in 2 .. l : s[t - 1] >= s[t]
      /\ p # 0 => l # 0 /\ s[l] = Low(p) /\ s[1] <= p
  BY DEF SizesRead
<1>3. l \in Nat /\ l + 1 = Cardinality(Bits(i))
  BY <1>2, BitsFinite
<1>4. /\ more \in Seq(Nat) /\ Len(more) = l + 1
      /\ \A t \in 1 .. l : more[t] = s[t]
      /\ more[l + 1] = n
  <2>1. s \in Seq(Nat) /\ n \in Nat
    BY <1>1, <1>2
  <2>2. QED
    BY ONLY <2>1, AppendProperties
<1>5. p = 0 => l = 0
  <2>1. Cardinality({}) = 0
    BY FS_EmptySet
  <2>2. QED
    BY <1>2, <2>1, BitsOfZero
<1>6. \E j \in 0 .. MaxWrites : n = pow2[j]
  <2>1. countZeroBits(i) \in 0 .. MaxWrites
    BY LowIs, SparseAssumption
  <2>2. QED
    BY <2>1 DEF Low
<1> HIDE DEF p, n, more, l
<1>7. ASSUME NEW t \in 1 .. l + 1 PROVE \E j \in 0 .. MaxWrites : more[t] = pow2[j]
  <2>1. CASE t \in 1 .. l
    BY <1>2, <1>4, <2>1
  <2>2. CASE t = l + 1
    BY <1>4, <1>6, <2>2
  <2>3. QED
    BY <1>3, <2>1, <2>2
<1>8. ASSUME NEW t \in 2 .. l + 1 PROVE more[t - 1] >= more[t]
  <2>1. CASE t \in 2 .. l
    <3>1. t - 1 \in 1 .. l /\ t \in 1 .. l
      BY <1>3, <2>1
    <3>2. QED
      BY <1>2, <1>4, <2>1, <3>1
  <2>2. CASE t = l + 1
    <3>1. t - 1 = l /\ l \in 1 .. l /\ l # 0
      BY <1>3, <2>2
    <3>2. p # 0
      BY <1>5, <3>1
    <3>3. more[t - 1] = Low(p) /\ more[t] = n
      BY <1>2, <1>4, <2>2, <3>1, <3>2
    <3>4. Low(p) \in Nat
      BY <1>1, <3>2, LowIs
    <3>5. QED
      BY <1>1, <3>2, <3>3, <3>4
  <2>3. QED
    BY <1>3, <2>1, <2>2
<1>9. more[1] <= i
  <2>1. CASE l = 0
    BY <1>1, <1>4, <2>1
  <2>2. CASE l # 0
    <3>1. 1 \in 1 .. l /\ p # 0
      BY <1>3, <1>5, <2>2
    <3>2. more[1] = s[1] /\ s[1] <= p /\ s[1] \in Nat
      BY <1>2, <1>4, <3>1, ElementOfSeq DEF l
    <3>3. QED
      BY <1>1, <3>2
  <2>3. QED
    BY <2>1, <2>2
<1>10. SizesRead(more, i)
  BY <1>3, <1>4, <1>7, <1>8, <1>9 DEF SizesRead, n
<1>11. QED
  BY <1>10 DEF more, n

\* The elements read, with that of one more entry.
LEMMA ElementsReadNext ==
  ASSUME NEW i \in Nat \ {0}, i <= MaxWrites, NEW s, SizesRead(s, i - Low(i)),
         NEW at, NEW e, ElementsRead(e, s, at, i - Low(i)), at[i] \in Int
  PROVE  ElementsRead(Append(e, Elem(3 * i, at[i])), Append(s, Low(i)), at, i)
<1> DEFINE p == i - Low(i)
           n == Low(i)
           z == countZeroBits(i)
           l == Len(s)
           elem == Elem(3 * i, at[i])
           Elems == [inOffsets : Int, inData : Int]
           sizes == Append(s, n)
           elems == Append(e, elem)
<1>1. p \in Nat /\ n \in Nat \ {0} /\ p + n = i /\ n = pow2[z] /\ z \in Nat
  BY LowParts
<1>2. s \in Seq(Nat) /\ l \in Nat
  BY LenProperties DEF SizesRead
<1>3. e \in Seq(Elems) /\ Len(e) = l
  BY DEF ElementsRead
<1>4. elem \in Elems
  BY DEF Elem
<1>5. /\ sizes \in Seq(Nat) /\ Len(sizes) = l + 1
      /\ \A t \in 1 .. l : sizes[t] = s[t]
      /\ sizes[l + 1] = n
  BY <1>1, <1>2, AppendProperties
<1>6. /\ elems \in Seq(Elems) /\ Len(elems) = l + 1
      /\ \A t \in 1 .. l : elems[t] = e[t]
      /\ elems[l + 1] = elem
  BY <1>3, <1>4, AppendProperties
<1>7. ASSUME NEW j \in Nat, pow2[j] <= p
      PROVE  \E t : LastOfSize(s, pow2[j], t)
                    /\ e[t] = Elem(3 * Cleared(p, j), at[Cleared(p, j)])
  BY <1>7 DEF ElementsRead
<1>8. ASSUME NEW j \in Nat, j <= z PROVE Cleared(i, j) = i
  BY <1>8, ClearedBelow
<1>9. ASSUME NEW j \in Nat, z < j PROVE Cleared(i, j) = Cleared(p, j)
  BY <1>9, ClearedAbove
<1> HIDE DEF p, n, z, l, elem, Elems, sizes, elems
<1>10. ASSUME NEW j \in Nat, pow2[j] <= i
       PROVE  \E t : LastOfSize(sizes, pow2[j], t)
                     /\ elems[t] = Elem(3 * Cleared(i, j), at[Cleared(i, j)])
  <2>0. pow2[j] \in Nat
    BY Pow2
  <2>1. CASE j <= z
    <3>1. pow2[j] <= n
      BY <1>1, <2>1, Pow2Order
    <3>2. LastOfSize(sizes, pow2[j], l + 1)
      BY <1>1, <1>2, <1>5, <2>0, <3>1 DEF LastOfSize
    <3>3. elems[l + 1] = Elem(3 * Cleared(i, j), at[Cleared(i, j)])
      BY <1>6, <1>8, <2>1 DEF elem
    <3>4. QED
      BY <3>2, <3>3
  <2>2. CASE z < j
    <3>1. n < pow2[j]
      BY <1>1, <2>2, Pow2Order
    <3>2. pow2[j] <= p
      \* What the power divides is not between p and i.
      <4> DEFINE c == Cleared(i, j)
      <4>1. c = Cleared(p, j)
        BY <1>9, <2>2
      <4>2. c \in 0 .. p
        BY <1>1, <4>1, ClearedBounds
      <4>3. pow2[j] <= Cleared(i, j)
        BY <1>10, ClearedBounds
      <4>4. QED
        BY <1>1, <2>0, <4>2, <4>3
    <3>3. PICK t : LastOfSize(s, pow2[j], t)
                   /\ e[t] = Elem(3 * Cleared(p, j), at[Cleared(p, j)])
      BY <1>7, <3>2
    <3>4. t \in 1 .. l /\ s[t] >= pow2[j] /\ \A u \in 1 .. l : s[u] >= pow2[j] => u <= t
      BY <3>3 DEF LastOfSize, l
    <3>5. LastOfSize(sizes, pow2[j], t)
      <4>1. t \in 1 .. l + 1 /\ sizes[t] >= pow2[j]
        BY <1>2, <1>5, <3>4
      <4>2. ASSUME NEW u \in 1 .. l + 1, sizes[u] >= pow2[j] PROVE u <= t
        <5>1. u # l + 1
          BY <1>1, <1>5, <2>0, <3>1, <4>2
        <5>2. u \in 1 .. l
          BY <1>2, <5>1
        <5>3. QED
          BY <1>5, <3>4, <4>2, <5>2
      <4>3. QED
        BY <1>5, <4>1, <4>2 DEF LastOfSize
    <3>6. elems[t] = Elem(3 * Cleared(i, j), at[Cleared(i, j)])
      BY <1>6, <1>9, <2>2, <3>3, <3>4
    <3>7. QED
      BY <3>5, <3>6
  <2>3. QED
    BY <1>1, <2>1, <2>2
<1>11. ElementsRead(elems, sizes, at, i)
  BY <1>5, <1>6, <1>10 DEF ElementsRead, Elems
<1>12. QED
  BY <1>11 DEF elems, sizes, elem, n

-----------------------------------------------------------------------------
(* A file of whole entries                                                 *)

\* Entry i, with its header at at[i], in data d: its parent is the entry that is
\* left without the lowest bit of i, and it has the records since, of those in o.
EntryAt(d, o, at, i) ==
  /\ at[i] \in Nat \ {0} /\ at[i] + 6 + 3 * Low(i) <= Len(d)
  /\ d[at[i] + 1] = IF i = Low(i) THEN 0 ELSE at[i] - at[i - Low(i)]
  /\ d[at[i] + 2] = 3 * Low(i)
  /\ \A x \in 1 .. 3 * Low(i) : d[at[i] + 2 + x] = o[3 * (i - Low(i)) + x]

\* The data ends with the tail of an entry with n cells of offsets.
TailAt(d, p, n) ==
  /\ Len(d) = p + 6 + n
  /\ d[p + 3 + n] = 2 + n /\ d[p + 4 + n] = 0 /\ d[p + 5 + n] = 0 /\ d[p + 6 + n] = 0

\* k entries and nothing else.
LogOf(at, d, o, k) ==
  /\ d \in Seq(Int) /\ o \in Seq(Int) /\ Len(o) = 3 * k
  /\ \A i \in 1 .. k : EntryAt(d, o, at, i)
  /\ \A i, j \in 1 .. k : i < j => at[i] < at[j]
  /\ IF k = 0 THEN d = << >> ELSE TailAt(d, at[k], 3 * Low(k))

\* All that is read back of the first i entries.
Walked(r, at, o, i) ==
  /\ r.ok = TRUE /\ OffsetsRead(r.offsets, o, i) /\ SizesRead(r.sizes, i)
  /\ ElementsRead(r.elements, r.sizes, at, i)

\* The header of an entry is taken for one.
LEMMA LogHeader ==
  ASSUME NEW k \in Nat, NEW at, NEW o, LogOf(at, data, o, k), NEW i \in 1 .. k
  PROVE  /\ at[i] \in Headers
         /\ data[at[i] + 1] = IF i = Low(i) THEN 0 ELSE at[i] - at[i - Low(i)]
         /\ OffsetsAt(at[i]) \in Seq(Int) /\ Len(OffsetsAt(at[i])) = 3 * Low(i)
         /\ \A x \in 1 .. 3 * Low(i) : OffsetsAt(at[i])[x] = o[3 * (i - Low(i)) + x]
<1> DEFINE p == at[i]
           n == 3 * Low(i)
           offs == OffsetsAt(p)
<1>1. data \in Seq(Int) /\ Len(data) \in Nat /\ EntryAt(data, o, at, i)
  BY LenProperties DEF LogOf
<1>2. i \in Nat \ {0} /\ n \in Nat /\ p \in Nat \ {0} /\ p + 6 + n <= Len(data)
      /\ data[p + 2] = n
      /\ \A x \in 1 .. n : data[p + 2 + x] = o[3 * (i - Low(i)) + x]
  <2>1. i \in Nat \ {0} /\ Low(i) \in Nat \ {0}
    BY LowParts
  <2>2. QED
    BY <1>1, <2>1 DEF EntryAt
<1>3. data[p + 1] = IF i = Low(i) THEN 0 ELSE p - at[i - Low(i)]
  BY <1>1 DEF EntryAt
<1>4. i # Low(i) => i - Low(i) \in 1 .. k /\ at[i - Low(i)] \in Nat /\ at[i - Low(i)] < p
  <2>1. ASSUME i # Low(i)
        PROVE  i - Low(i) \in 1 .. k /\ at[i - Low(i)] \in Nat /\ at[i - Low(i)] < p
    <3>1. i - Low(i) \in 1 .. k /\ i - Low(i) < i
      <4>1. Low(i) \in Nat \ {0} /\ i - Low(i) \in 0 .. i - 1
        BY <1>2, LowParts
      <4>2. QED
        BY <2>1, <4>1
    <3>2. at[i - Low(i)] < p
      BY <3>1 DEF LogOf
    <3>3. at[i - Low(i)] \in Nat
      BY <3>1 DEF LogOf, EntryAt
    <3>4. QED
      BY <3>1, <3>2, <3>3
  <2>2. QED
    BY <2>1
<1> HIDE DEF p, n
<1>5. data[p + 1] >= 0
  BY <1>2, <1>3, <1>4
<1>6. p \in Headers
  BY <1>1, <1>2, <1>5 DEF Headers
<1>7. offs = SubSeq(data, p + 3, p + 2 + n)
  BY <1>2 DEF OffsetsAt
<1>8. offs \in Seq(Int) /\ Len(offs) = n /\ \A x \in 1 .. n : offs[x] = data[p + 2 + x]
  <2> DEFINE a == p + 3
             b == p + 2 + n
  <2>1. a \in Int /\ b \in Int /\ b - a + 1 = n /\ a - 1 = p + 2
        /\ \A y \in a .. b : y \in 1 .. Len(data)
    BY <1>1, <1>2
  <2>2. \A y \in a .. b : data[y] \in Int
    BY <1>1, <2>1, ElementOfSeq
  <2> HIDE DEF a, b
  <2>3. /\ SubSeq(data, a, b) \in Seq(Int)
        /\ Len(SubSeq(data, a, b)) = IF a <= b THEN b - a + 1 ELSE 0
        /\ \A y \in 1 .. b - a + 1 : SubSeq(data, a, b)[y] = data[a + y - 1]
    BY <2>1, <2>2, SubSeqProperties
  <2>4. /\ offs \in Seq(Int)
        /\ Len(offs) = IF a <= b THEN b - a + 1 ELSE 0
        /\ \A y \in 1 .. b - a + 1 : offs[y] = data[a + y - 1]
    BY <1>7, <2>3 DEF a, b
  <2> HIDE DEF offs
  <2>5. Len(offs) = n
    BY <1>2, <2>1, <2>4
  <2>6. \A x \in 1 .. n : a + x - 1 = p + 2 + x
    BY <1>2, <2>1
  <2>7. QED
    BY <2>1, <2>4, <2>5, <2>6
<1>9. QED
  BY <1>2, <1>3, <1>6, <1>8 DEF p, n

\* Nothing is read where there is no parent.
LEMMA NothingWalked ==
  ASSUME NEW at, NEW o PROVE Walked(Nothing, at, o, 0)
<1>1. OffsetsRead(Nothing.offsets, o, 0)
  BY EmptySeq DEF Nothing, OffsetsRead
<1>2. SizesRead(Nothing.sizes, 0)
  <2>1. Cardinality({}) = 0
    BY FS_EmptySet
  <2>2. << >> \in Seq(Nat) /\ Len(<< >>) = 0
    BY EmptySeq
  <2>3. QED
    BY <2>1, <2>2, BitsOfZero DEF Nothing, SizesRead
<1>3. ElementsRead(Nothing.elements, Nothing.sizes, at, 0)
  <2>1. << >> \in Seq([inOffsets : Int, inData : Int])
    BY EmptySeq
  <2>2. \A j \in Nat : ~(pow2[j] <= 0)
    <3> TAKE j \in Nat
    <3>1. pow2[j] \in Nat \ {0}
      BY Pow2
    <3>2. QED
      BY <3>1
  <2>3. QED
    BY <2>1, <2>2 DEF Nothing, ElementsRead
<1>4. QED
  BY <1>1, <1>2, <1>3 DEF Walked, Nothing

\* One more entry is read.
LEMMA WalkedNext ==
  ASSUME NEW i \in Nat \ {0}, i <= MaxWrites, NEW at, at[i] \in Int, NEW o,
         NEW r, Walked(r, at, o, i - Low(i)),
         NEW g \in Seq(Int), Len(g) = 3 * Low(i),
         \A x \in 1 .. 3 * Low(i) : g[x] = o[3 * (i - Low(i)) + x]
  PROVE  Walked([ok       |-> TRUE,
                 offsets  |-> r.offsets \o g,
                 elements |-> Append(r.elements, Elem(Len(r.offsets) + Len(g), at[i])),
                 sizes    |-> Append(r.sizes, Len(g) \div 3)], at, o, i)
<1>1. Low(i) \in Nat \ {0} /\ i - Low(i) \in Nat /\ (i - Low(i)) + Low(i) = i
  BY LowParts
<1>2. OffsetsRead(r.offsets, o, i - Low(i)) /\ SizesRead(r.sizes, i - Low(i))
      /\ ElementsRead(r.elements, r.sizes, at, i - Low(i))
  BY DEF Walked
<1>3. OffsetsRead(r.offsets \o g, o, i)
  BY <1>2, OffsetsReadNext
<1>4. Len(g) \div 3 = Low(i)
  BY <1>1
<1>5. Len(r.offsets) + Len(g) = 3 * i
  <2>1. Len(r.offsets) = 3 * (i - Low(i))
    BY <1>2 DEF OffsetsRead
  <2>2. QED
    BY <1>1, <2>1
<1>6. SizesRead(Append(r.sizes, Low(i)), i)
  BY <1>2, SizesReadNext
<1>7. ElementsRead(Append(r.elements, Elem(3 * i, at[i])), Append(r.sizes, Low(i)), at, i)
  BY <1>2, ElementsReadNext
<1>8. QED
  BY <1>3, <1>4, <1>5, <1>6, <1>7 DEF Walked

\* Each entry of a file is read back, with those that its parents lead to.
LEMMA LogReadBack ==
  ASSUME NEW k \in Nat, k <= MaxWrites, NEW at, NEW o, LogOf(at, data, o, k), NEW i \in 1 .. k
  PROVE  Walked(ReadBack[at[i]], at, o, i)
<1> DEFINE Bad == {m \in Nat : m \in 1 .. k /\ ~Walked(ReadBack[at[m]], at, o, m)}
<1> SUFFICES ASSUME Bad # {} PROVE FALSE
  OBVIOUS
<1>1. PICK m \in Bad : \A y \in Bad : m <= y
  BY LeastOfNat
<1>2. m \in 1 .. k /\ m \in Nat \ {0} /\ m <= MaxWrites /\ MaxWrites \in Nat
  BY <1>1, SparseAssumption
<1> DEFINE p == at[m]
           o1 == OffsetsAt(p)
           older == IF data[p + 1] = 0 THEN Nothing
                    ELSE IF p - data[p + 1] \in Headers THEN ReadBack[p - data[p + 1]]
                    ELSE Refused
           n == m - Low(m)
<1>3. /\ p \in Headers
      /\ data[p + 1] = IF m = Low(m) THEN 0 ELSE p - at[n]
      /\ o1 \in Seq(Int) /\ Len(o1) = 3 * Low(m)
      /\ \A x \in 1 .. 3 * Low(m) : o1[x] = o[3 * n + x]
  BY <1>2, LogHeader
<1>4. p \in Nat \ {0} /\ data \in Seq(Int)
  BY <1>2 DEF LogOf, EntryAt
<1>5. Low(m) \in Nat \ {0} /\ n \in 0 .. m - 1 /\ n + Low(m) = m
  BY <1>2, LowParts
<1>6. Walked(older, at, o, n)
  <2>1. CASE m = Low(m)
    <3>1. data[p + 1] = 0 /\ n = 0
      BY <1>3, <1>5, <2>1
    <3>2. older = Nothing
      BY <3>1
    <3>3. QED
      BY <3>1, <3>2, NothingWalked
  <2>2. CASE m # Low(m)
    <3>1. n \in 1 .. k /\ n \in Nat /\ n < m
      BY <1>2, <1>5, <2>2
    <3>2. at[n] \in Headers /\ at[n] \in Nat /\ at[n] < p
      <4>1. at[n] \in Headers
        BY <3>1, LogHeader
      <4>2. at[n] \in Nat /\ at[n] < at[m]
        BY <1>2, <3>1 DEF LogOf, EntryAt
      <4>3. QED
        BY <4>1, <4>2
    <3>3. data[p + 1] # 0 /\ p - data[p + 1] = at[n]
      <4>1. data[p + 1] = p - at[n] /\ p \in Nat
        BY <1>3, <1>4, <2>2
      <4> HIDE DEF p, n
      <4>2. QED
        BY <3>2, <4>1
    <3>4. older = ReadBack[at[n]]
      BY <3>2, <3>3
    <3>5. n \notin Bad
      BY <1>1, <1>2, <3>1
    <3>6. QED
      BY <3>1, <3>4, <3>5
  <2>3. QED
    BY <2>1, <2>2
<1>7. WholeRecords(o1)
  BY <1>3, <1>5 DEF WholeRecords
<1>8. ReadBack[p] = [ok       |-> TRUE,
                     offsets  |-> older.offsets \o o1,
                     elements |-> Append(older.elements, Elem(Len(older.offsets) + Len(o1), p)),
                     sizes    |-> Append(older.sizes, Len(o1) \div 3)]
  <2>1. ReadBack[p] = BackStep(ReadBack, p)
    BY <1>3, <1>4, ReadBackIs
  <2>2. older.ok = TRUE
    BY <1>6 DEF Walked
  <2>3. QED
    BY <1>7, <2>1, <2>2, Zenon DEF BackStep
<1>9. Walked(ReadBack[p], at, o, m)
  <2>1. at[m] \in Int
    BY <1>4
  <2> HIDE DEF older, o1
  <2>2. Walked([ok       |-> TRUE,
                offsets  |-> older.offsets \o o1,
                elements |-> Append(older.elements, Elem(Len(older.offsets) + Len(o1), at[m])),
                sizes    |-> Append(older.sizes, Len(o1) \div 3)], at, o, m)
    BY <1>2, <1>3, <1>6, <2>1, WalkedNext
  <2>3. QED
    BY <1>8, <2>2, Zenon
<1>10. QED
  BY <1>1, <1>9

\* Reading back starts at the last entry.
LEMMA LogWalk ==
  ASSUME NEW k \in Nat \ {0}, k <= MaxWrites, NEW at, NEW o, LogOf(at, data, o, k)
  PROVE  data # << >> /\ Len(data) >= 4 /\ Walked(Walk, at, o, k)
<1> DEFINE n == 3 * Low(k)
           p == at[k]
<1>1. k \in 1 .. k /\ Low(k) \in Nat \ {0}
  BY LowParts
<1>2. TailAt(data, p, n) /\ data \in Seq(Int) /\ p \in Nat \ {0}
  BY <1>1 DEF LogOf, EntryAt
<1>3. n \in Nat /\ n >= 3
  BY <1>1
<1> HIDE DEF n, p
<1>4. /\ Len(data) = p + 6 + n /\ Len(data) >= 4
      /\ data[p + 3 + n] = 2 + n /\ data[p + 4 + n] = 0
      /\ data[p + 5 + n] = 0 /\ data[p + 6 + n] = 0
  BY <1>2, <1>3 DEF TailAt
<1>5. data # << >>
  BY <1>2, <1>3, <1>4, EmptySeq
<1>6. LastPtr = p
  <2>1. /\ Len(data) - 3 = p + 3 + n /\ Len(data) - 2 = p + 4 + n
        /\ Len(data) - 1 = p + 5 + n
    BY <1>2, <1>3, <1>4
  <2> DEFINE tail == data[Len(data) - 3] + 256 * data[Len(data) - 2]
                       + 65536 * data[Len(data) - 1] + 16777216 * data[Len(data)]
  <2>2. tail = 2 + n
    BY <1>3, <1>4, <2>1
  <2>3. LastPtr = IF tail < 5 THEN -1 ELSE Len(data) - 4 - tail
    BY DEF LastPtr
  <2> HIDE DEF tail
  <2>4. QED
    BY <1>2, <1>3, <1>4, <2>2, <2>3
<1>7. p \in Headers /\ Walked(ReadBack[p], at, o, k)
  BY <1>1, LogHeader, LogReadBack DEF p
<1>8. Walk = ReadBack[p]
  BY <1>6, <1>7 DEF Walk
<1>9. QED
  BY <1>4, <1>5, <1>7, <1>8

\* The levels of the chain have the last entries that the powers divide.
ChainOf(at, k, l) == [j \in 1 .. l |-> Elem(3 * Cleared(k, j), at[Cleared(k, j)])]

ChainIs(c, at, k) ==
  IF k = 0 THEN c = << >>
  ELSE \E l \in Nat : pow2[l] <= k /\ k < pow2[l + 1] /\ c = ChainOf(at, k, l)

\* restore takes the last entry of at least a size.
LEMMA LastIsMax ==
  ASSUME NEW s \in Seq(Nat), NEW size \in Nat, NEW t, LastOfSize(s, size, t)
  PROVE  Max({i \in DOMAIN s : s[i] >= size}) = t
<1> DEFINE S == {i \in DOMAIN s : s[i] >= size}
<1>1. DOMAIN s = 1 .. Len(s) /\ Len(s) \in Nat
  BY LenProperties
<1>2. t \in S /\ \A u \in S : u <= t
  BY <1>1 DEF LastOfSize
<1>3. \A x \in S : (\A y \in S : x >= y) => x = t
  BY <1>1, <1>2
<1>4. \E x \in S : \A y \in S : x >= y
  BY <1>2
<1>5. Max(S) \in S /\ \A y \in S : Max(S) >= y
  BY <1>4 DEF Max
<1>6. QED
  BY <1>3, <1>5

\* restore makes the chain that pushing has made.
LEMMA LogRestores ==
  ASSUME NEW k \in Nat \ {0}, k <= MaxWrites, NEW at, NEW o, NEW r, Walked(r, at, o, k)
  PROVE  ChainIs(RestoredChain(r.elements, r.sizes), at, k)
<1> DEFINE s == r.sizes
           e == r.elements
<1>1. PICK l \in Nat : l < k /\ pow2[l] <= k /\ k < pow2[l + 1]
  BY Pow2Around
<1>2. SizesRead(s, k) /\ ElementsRead(e, s, at, k)
  BY DEF Walked
<1> HIDE DEF s, e
<1>3. /\ s \in Seq(Nat) /\ Len(s) \in Nat \ {0} /\ s[1] <= k
      /\ \A t \in 2 .. Len(s) : s[t - 1] >= s[t]
  BY <1>2, LenProperties DEF SizesRead
<1>4. \A t \in 1 .. Len(s) : s[t] \in Nat
  BY <1>3, ElementOfSeq
<1>5. \A t \in 1 .. Len(s) : s[t] <= s[1]
  <2> DEFINE Bad == {t \in Nat : t \in 1 .. Len(s) /\ ~(s[t] <= s[1])}
  <2>1. Bad = {}
    <3> SUFFICES ASSUME Bad # {} PROVE FALSE
      OBVIOUS
    <3>1. PICK t \in Bad : \A y \in Bad : t <= y
      BY LeastOfNat
    <3>2. t # 1
      BY <1>4, <3>1
    <3>3. t - 1 \in 1 .. Len(s) /\ t - 1 \in Nat /\ ~(t <= t - 1) /\ t \in 2 .. Len(s)
      BY <1>3, <3>1, <3>2
    <3>4. s[t - 1] <= s[1] /\ s[t - 1] >= s[t] /\ s[1] \in Nat /\ s[t - 1] \in Nat /\ s[t] \in Nat
      BY <1>3, <1>4, <3>1, <3>3
    <3>5. QED
      BY <3>1, <3>4
  <2>2. ASSUME NEW t \in 1 .. Len(s) PROVE s[t] <= s[1]
    <3>1. t \in Nat
      BY <1>3
    <3> HIDE DEF Bad
    <3>2. t \notin Bad
      BY <2>1
    <3>3. QED
      BY <3>1, <3>2 DEF Bad
  <2>3. QED
    BY <2>2
<1>6. ASSUME NEW j \in Nat, pow2[j] <= k
      PROVE  \E t : LastOfSize(s, pow2[j], t) /\ e[t] = Elem(3 * Cleared(k, j), at[Cleared(k, j)])
  BY <1>2, <1>6 DEF ElementsRead
<1>7. \A j \in Nat : pow2[j] <= s[1] <=> j <= l
  <2> TAKE j \in Nat
  <2>0. pow2[j] \in Nat /\ s[1] \in Nat /\ l + 1 \in Nat /\ pow2[l] \in Nat /\ pow2[l + 1] \in Nat
    <3>1. 1 \in 1 .. Len(s)
      BY <1>3
    <3>2. s[1] \in Nat /\ l + 1 \in Nat
      BY <1>4, <3>1
    <3>3. QED
      BY <3>2, Pow2
  <2>1. ASSUME pow2[j] <= s[1] PROVE j <= l
    <3>1. pow2[j] < pow2[l + 1]
      BY <1>1, <1>3, <2>0, <2>1
    <3>2. j < l + 1
      BY <2>0, <3>1, Pow2Order
    <3>3. QED
      BY <3>2
  <2>2. ASSUME j <= l PROVE pow2[j] <= s[1]
    <3>1. pow2[j] <= pow2[l]
      BY <2>2, Pow2Order
    <3>2. pow2[j] <= k
      BY <1>1, <2>0, <3>1
    <3>3. PICK t : LastOfSize(s, pow2[j], t)
      BY <1>6, <3>2
    <3>4. t \in 1 .. Len(s) /\ s[t] >= pow2[j] /\ s[t] <= s[1] /\ s[t] \in Nat
      BY <1>4, <1>5, <3>3 DEF LastOfSize
    <3>5. QED
      BY <2>0, <3>4
  <2>3. QED
    BY <2>1, <2>2
<1>8. {j \in 1 .. MaxWrites : pow2[j] <= s[1]} = 1 .. l
  <2>1. l <= MaxWrites /\ MaxWrites \in Nat
    BY <1>1, SparseAssumption
  <2>2. \A j : j \in 1 .. l <=> j \in 1 .. MaxWrites /\ j <= l
    BY <2>1
  <2>3. \A j \in 1 .. MaxWrites : j \in Nat
    OBVIOUS
  <2>4. QED
    BY <1>7, <2>2, <2>3
<1>9. ASSUME NEW j \in 1 .. l
      PROVE  e[Max({i \in DOMAIN s : s[i] >= pow2[j]})]
               = Elem(3 * Cleared(k, j), at[Cleared(k, j)])
  <2>1. j \in Nat /\ j <= l
    OBVIOUS
  <2>2. pow2[j] <= pow2[l] /\ pow2[j] \in Nat /\ pow2[l] \in Nat
    BY <2>1, Pow2, Pow2Order
  <2>3. pow2[j] <= k
    BY <1>1, <2>2
  <2>4. PICK t : LastOfSize(s, pow2[j], t) /\ e[t] = Elem(3 * Cleared(k, j), at[Cleared(k, j)])
    BY <1>6, <2>1, <2>3
  <2>5. Max({i \in DOMAIN s : s[i] >= pow2[j]}) = t
    BY <1>3, <2>2, <2>4, LastIsMax
  <2>6. QED
    BY <2>4, <2>5
<1>10. RestoredChain(e, s) = ChainOf(at, k, l)
  <2>1. RestoredChain(e, s) = [j \in 1 .. l |-> e[Max({i \in DOMAIN s : s[i] >= pow2[j]})]]
    BY <1>8 DEF RestoredChain
  <2>2. QED
    BY <1>9, <2>1 DEF ChainOf
<1>11. QED
  BY <1>1, <1>10 DEF ChainIs, e, s

\* A file of k whole entries opens: the walk from its end gives all records, over
\* as many entries as k has bits, and restore the chain of all k entries.
THEOREM LogOpens ==
  ASSUME NEW k \in Nat, k <= MaxWrites, NEW at, NEW o, LogOf(at, data, o, k)
  PROVE  /\ Opens1
         /\ data = << >> <=> k = 0
         /\ k # 0 => /\ Walk.offsets = o /\ Len(o) \div 3 = k
                     /\ Loaded1 = PutOffsets(NoRecords, o)
                     /\ ChainIs(RestoredChain(Walk.elements, Walk.sizes), at, k)
                     /\ Len(Walk.sizes) = Cardinality(Bits(k))
<1>1. CASE k = 0
  BY <1>1 DEF LogOf, Opens1
<1>2. CASE k # 0
  <2>1. data # << >> /\ Len(data) >= 4 /\ Walked(Walk, at, o, k)
    BY <1>2, LogWalk
  <2>2. Walk.ok = TRUE /\ OffsetsRead(Walk.offsets, o, k) /\ SizesRead(Walk.sizes, k)
    BY <2>1 DEF Walked
  <2>3. Walk.offsets = o
    <3> DEFINE f == Walk.offsets
    <3>1. f \in Seq(Int) /\ o \in Seq(Int) /\ Len(f) = Len(o) /\ \A x \in 1 .. Len(f) : f[x] = o[x]
      BY <2>2 DEF OffsetsRead, LogOf
    <3> HIDE DEF f
    <3>2. f = o
      BY <3>1, SeqEqual
    <3>3. QED
      BY <3>2 DEF f
  <2>4. SizesFit(Walk.sizes) /\ Len(Walk.sizes) = Cardinality(Bits(k))
    <3> DEFINE s == Walk.sizes
    <3>1. s \in Seq(Nat) /\ SizesRead(s, k)
      BY <2>2 DEF SizesRead
    <3> HIDE DEF s
    <3>2. DOMAIN s = 1 .. Len(s)
      BY <3>1, LenProperties
    <3>3. SizesFit(s) /\ Len(s) = Cardinality(Bits(k))
      BY <3>1, <3>2 DEF SizesRead, SizesFit
    <3>4. QED
      BY <3>3 DEF s
  <2>5. ChainIs(RestoredChain(Walk.elements, Walk.sizes), at, k)
    BY <1>2, <2>1, LogRestores
  <2>6. Len(o) \div 3 = k
    BY DEF LogOf
  <2>7. Opens1
    BY <2>1, <2>2, <2>4 DEF Opens1
  <2>8. Loaded1 = PutOffsets(NoRecords, o)
    BY <2>3 DEF Loaded1, NoRecords
  <2>9. QED
    BY <1>2, <2>1, <2>3, <2>4, <2>5, <2>6, <2>7, <2>8
<1>3. QED
  BY <1>1, <1>2

-----------------------------------------------------------------------------
(* Appending an entry                                                      *)

\* The pointers with one more.
More(at, k, p) == [i \in 1 .. k + 1 |-> IF i = k + 1 THEN p ELSE at[i]]

\* The greater of two numbers.
LEMMA MaxOfTwo ==
  ASSUME NEW a \in Nat, NEW b \in Nat
  PROVE  Max({a, b}) = IF a <= b THEN b ELSE a
<1>1. \E x \in {a, b} : \A y \in {a, b} : x >= y
  OBVIOUS
<1>2. Max({a, b}) \in {a, b} /\ \A y \in {a, b} : Max({a, b}) >= y
  BY <1>1 DEF Max
<1>3. QED
  BY <1>2

\* The first number is its own lowest bit.
LEMMA LowOfOne == countZeroBits(1) = 0 /\ Low(1) = 1
<1>1. 1 \in Nat \ {0}
  OBVIOUS
<1>2. countZeroBits(1) \in Nat /\ countZeroBits(1) < 1 /\ Low(1) = pow2[countZeroBits(1)]
  BY <1>1, LowParts
<1>3. countZeroBits(1) = 0
  BY <1>2
<1>4. QED
  BY <1>2, <1>3, Pow2

\* The chain has the parent of the next entry, if it has one.
LEMMA ChainParent ==
  ASSUME nPushed \in Nat, NEW at, ChainIs(chain, at, nPushed)
  PROVE  /\ ~ChainPanics
         /\ Parent = IF nPushed + 1 = Low(nPushed + 1) THEN NoElem
                     ELSE Elem(3 * ((nPushed + 1) - Low(nPushed + 1)),
                               at[(nPushed + 1) - Low(nPushed + 1)])
<1>1. CASE nPushed = 0
  <2>1. chain = << >> /\ Len(<< >>) = 0 /\ countZeroBits(nPushed + 1) = 0
        /\ nPushed + 1 = Low(nPushed + 1)
    BY <1>1, LowOfOne, EmptySeq DEF ChainIs
  <2>2. QED
    BY <1>1, <2>1 DEF ChainPanics, Parent, Level
<1>2. CASE nPushed # 0
  <2> DEFINE m == nPushed + 1
             z == countZeroBits(m)
  <2>1. PICK l \in Nat : pow2[l] <= nPushed /\ nPushed < pow2[l + 1] /\ chain = ChainOf(at, nPushed, l)
    BY <1>2 DEF ChainIs
  <2>2. m \in Nat \ {0} /\ 1 < m /\ m - 1 = nPushed
    BY <1>2
  <2>3. pow2[l] \in Nat /\ pow2[l + 1] \in Nat
    BY Pow2
  <2>4. pow2[l] < m /\ m <= pow2[l + 1]
    BY <2>1, <2>3
  <2>5. Len(chain) = l
    BY <2>1 DEF ChainOf
  <2>6. z \in Nat /\ Low(m) = pow2[z] /\ Low(m) \in Nat
    BY <2>2, LowParts
  <2>7. \/ z < l /\ m < pow2[l + 1]
        \/ z = l + 1 /\ m = pow2[l + 1]
    BY <2>2, <2>4, ChainGrows
  <2>8. ~ChainPanics
    BY <2>5, <2>6, <2>7 DEF ChainPanics, Level
  <2>9. CASE z < l
    <3>1. Low(m) < pow2[l]
      BY <2>6, <2>9, Pow2Order
    <3>2. m # Low(m)
      BY <2>2, <2>3, <2>4, <2>6, <3>1
    <3>3. Cleared(nPushed, z + 1) = m - Low(m)
      BY <2>2, ClearedParent
    <3>4. z + 1 \in 1 .. l
      BY <2>6, <2>9
    <3>5. chain[z + 1] = Elem(3 * Cleared(nPushed, z + 1), at[Cleared(nPushed, z + 1)])
      BY <2>1, <3>4 DEF ChainOf
    <3>6. Parent = chain[z + 1]
      BY <1>2, <2>5, <2>6, <2>9 DEF Parent, Level
    <3>7. QED
      BY <2>8, <3>2, <3>3, <3>5, <3>6
  <2>10. CASE z = l + 1 /\ m = pow2[l + 1]
    <3>1. Parent = NoElem
      <4>1. countZeroBits(nPushed + 1) >= Len(chain)
        BY <2>5, <2>10
      <4>2. QED
        BY <4>1 DEF Parent, Level
    <3>2. QED
      BY <2>6, <2>8, <2>10, <3>1
  <2>11. QED
    BY <2>7, <2>9, <2>10
<1>3. QED
  BY <1>1, <1>2

\* push keeps the last entries that the powers divide.
LEMMA ChainPushed ==
  ASSUME NEW c, NEW k \in Nat, NEW at, ChainIs(c, at, k), NEW p
  PROVE  ChainIs(Pushed(c, k + 1, Elem(3 * (k + 1), p)), More(at, k, p), k + 1)
<1> DEFINE m == k + 1
           z == countZeroBits(m)
           e == Elem(3 * m, p)
           new == More(at, k, p)
<1>0. m \in Nat \ {0} /\ m - 1 = k
  OBVIOUS
<1>1. new[m] = p /\ \A i \in 1 .. k : new[i] = at[i]
  BY DEF More
<1>2. z \in Nat /\ Low(m) = pow2[z] /\ Low(m) \in Nat
  BY <1>0, LowParts
<1>3. CASE k = 0
  <2>1. c = << >> /\ Len(<< >>) = 0 /\ z = 0
    BY <1>3, LowOfOne, EmptySeq DEF ChainIs
  <2>2. Max({Len(c), z}) = 0
    BY <2>1, MaxOfTwo
  <2>3. Pushed(c, m, e) = ChainOf(new, m, 0)
    <3>1. Pushed(c, m, e) = [j \in 1 .. 0 |-> IF j <= z THEN e ELSE c[j]]
      BY <2>2 DEF Pushed
    <3>2. \A j \in 1 .. 0 : (IF j <= z THEN e ELSE c[j]) = Elem(3 * Cleared(m, j), new[Cleared(m, j)])
      OBVIOUS
    <3> HIDE DEF e, new, z
    <3>3. QED
      BY <3>1, <3>2 DEF ChainOf
  <2>4. pow2[0] <= m /\ m < pow2[0 + 1] /\ 0 \in Nat
    BY <1>3, Pow2
  <2>5. ChainIs(Pushed(c, m, e), new, m)
    BY <1>0, <2>3, <2>4 DEF ChainIs
  <2>6. QED
    BY <2>5
<1>4. CASE k # 0
  <2>1. PICK l \in Nat : pow2[l] <= k /\ k < pow2[l + 1] /\ c = ChainOf(at, k, l)
    BY <1>4 DEF ChainIs
  <2>2. pow2[l] \in Nat /\ pow2[l + 1] \in Nat /\ l + 1 \in Nat
    BY Pow2
  <2>3. pow2[l] < m /\ m <= pow2[l + 1] /\ 1 < m
    BY <1>4, <2>1, <2>2
  <2>4. Len(c) = l /\ \A i \in 1 .. l : c[i] = Elem(3 * Cleared(k, i), at[Cleared(k, i)])
    BY <2>1 DEF ChainOf
  <2>5. \/ z < l /\ m < pow2[l + 1]
        \/ z = l + 1 /\ m = pow2[l + 1]
    BY <1>0, <2>3, ChainGrows
  <2> DEFINE n == IF z = l + 1 THEN l + 1 ELSE l
  <2>6. n \in Nat /\ Max({Len(c), z}) = n
    BY <1>2, <2>4, <2>5, MaxOfTwo
  <2>7. pow2[n] <= m /\ m < pow2[n + 1]
    <3>1. CASE z = l + 1
      <4>1. n = l + 1 /\ m = pow2[n] /\ pow2[n] \in Nat \ {0} /\ pow2[n + 1] = 2 * pow2[n]
        BY <1>2, <2>2, <2>5, <3>1, Pow2
      <4>2. QED
        BY <4>1
    <3>2. CASE z # l + 1
      BY <2>2, <2>3, <2>5, <3>2
    <3>3. QED
      BY <3>1, <3>2
  <2>8. ASSUME NEW j \in 1 .. n
        PROVE  (IF j <= z THEN e ELSE c[j]) = Elem(3 * Cleared(m, j), new[Cleared(m, j)])
    <3>1. CASE j <= z
      <4>1. Cleared(m, j) = m
        BY <1>0, <3>1, ClearedBelow
      <4>2. QED
        BY <1>1, <3>1, <4>1
    <3>2. CASE ~(j <= z)
      <4>1. j \in 1 .. l /\ j \in Nat /\ z < j
        BY <1>2, <2>5, <3>2
      <4>2. Cleared(m, j) = Cleared(k, j)
        BY <1>0, <4>1, ClearedAbove
      <4>3. pow2[j] <= pow2[l] /\ pow2[j] \in Nat \ {0}
        BY <4>1, Pow2, Pow2Order
      <4>4. pow2[j] <= k
        BY <2>1, <2>2, <4>3
      <4>5. Cleared(k, j) \in 0 .. k /\ pow2[j] <= Cleared(k, j)
        BY <4>1, <4>4, ClearedBounds
      <4>6. Cleared(k, j) \in 1 .. k
        BY <4>3, <4>5
      <4>7. QED
        BY <1>1, <2>4, <3>2, <4>1, <4>2, <4>6
    <3>3. QED
      BY <3>1, <3>2
  <2> HIDE DEF n, e, new, z
  <2>9. Pushed(c, m, e) = [j \in 1 .. n |-> IF j <= z THEN e ELSE c[j]]
    BY <2>6 DEF Pushed, z
  <2>10. Pushed(c, m, e) = ChainOf(new, m, n)
    BY <2>8, <2>9 DEF ChainOf
  <2>11. ChainIs(Pushed(c, m, e), new, m)
    BY <1>0, <2>6, <2>7, <2>10 DEF ChainIs
  <2>12. QED
    BY <2>11 DEF e, new
<1>5. QED
  BY <1>3, <1>4

\* The cells of an entry.
EntryOf(b, x, offs) == <<Len(b)>> \o b \o <<x, Len(offs)>> \o offs \o TailOf(2 + Len(offs))

\* u is a cells of s and behind them c cells of t.
Joins(u, s, t, a, c) ==
  /\ u \in Seq(Int) /\ Len(u) = a + c
  /\ \A i \in 1 .. a : u[i] = s[i]
  /\ \A i \in 1 .. c : u[a + i] = t[i]

\* That is what appending does.
LEMMA Joined ==
  ASSUME NEW s \in Seq(Int), NEW t \in Seq(Int)
  PROVE  Joins(s \o t, s, t, Len(s), Len(t))
<1> DEFINE u == s \o t
           a == Len(s)
           c == Len(t)
<1>0. a \in Nat /\ c \in Nat
  BY LenProperties
<1>1. /\ u \in Seq(Int) /\ Len(u) = a + c
      /\ \A i \in 1 .. a + c : u[i] = IF i <= a THEN s[i] ELSE t[i - a]
  BY ConcatProperties
<1> HIDE DEF u, a, c
<1>2. \A i \in 1 .. a : u[i] = s[i]
  BY <1>0, <1>1
<1>3. ASSUME NEW i \in 1 .. c PROVE u[a + i] = t[i]
  <2>1. a + i \in 1 .. a + c /\ ~(a + i <= a) /\ (a + i) - a = i
    BY <1>0
  <2>2. QED
    BY <1>1, <2>1
<1>4. Joins(u, s, t, a, c)
  BY <1>1, <1>2, <1>3 DEF Joins
<1>5. QED
  BY <1>4 DEF u, a, c

\* e has the cells of an entry with l bytes and n cells of offsets.
IsEntry(e, b, x, offs, l, n) ==
  /\ e \in Seq(Int) /\ Len(e) = l + 7 + n
  /\ \A j \in 1 .. l : e[1 + j] = b[j]
  /\ e[l + 2] = x /\ e[l + 3] = n
  /\ \A j \in 1 .. n : e[l + 3 + j] = offs[j]
  /\ e[l + 4 + n] = 2 + n /\ e[l + 5 + n] = 0 /\ e[l + 6 + n] = 0 /\ e[l + 7 + n] = 0

\* The entry has them.
LEMMA EntryCells ==
  ASSUME NEW b \in Seq(Int), NEW x \in Int, NEW offs \in Seq(Int),
         NEW l \in Nat, Len(b) = l, NEW n \in Nat, Len(offs) = n
  PROVE  IsEntry(EntryOf(b, x, offs), b, x, offs, l, n)
<1> DEFINE h == <<l>>
           m == <<x, n>>
           t == TailOf(2 + n)
           e1 == h \o b
           e2 == e1 \o m
           e3 == e2 \o offs
           e4 == e3 \o t
<1>1. h \in Seq(Int) /\ Len(h) = 1
  OBVIOUS
<1>2. m \in Seq(Int) /\ Len(m) = 2 /\ m[1] = x /\ m[2] = n
  OBVIOUS
<1>3. t \in Seq(Int) /\ Len(t) = 4 /\ t[1] = 2 + n /\ t[2] = 0 /\ t[3] = 0 /\ t[4] = 0
  BY DEF TailOf
<1>4. EntryOf(b, x, offs) = e4
  BY DEF EntryOf
<1> HIDE DEF h, m, t
<1>5. /\ e1 \in Seq(Int) /\ Len(e1) = 1 + l /\ \A i \in 1 .. l : e1[1 + i] = b[i]
  <2>1. Joins(e1, h, b, Len(h), Len(b))
    BY <1>1, Joined
  <2>2. QED
    BY <1>1, <2>1 DEF Joins
<1> HIDE DEF e1
<1>6. /\ e2 \in Seq(Int) /\ Len(e2) = l + 3
      /\ \A i \in 1 .. 1 + l : e2[i] = e1[i]
      /\ e2[l + 2] = x /\ e2[l + 3] = n
  <2> DEFINE a == 1 + l
  <2>1. Joins(e2, e1, m, Len(e1), Len(m))
    BY <1>2, <1>5, Joined
  <2> HIDE DEF e2
  <2>2. /\ e2 \in Seq(Int) /\ Len(e2) = a + 2
        /\ \A i \in 1 .. a : e2[i] = e1[i]
        /\ \A i \in 1 .. 2 : e2[a + i] = m[i]
    BY <1>2, <1>5, <2>1 DEF Joins
  <2>3. 1 \in 1 .. 2 /\ 2 \in 1 .. 2 /\ a + 1 = l + 2 /\ a + 2 = l + 3 /\ a = 1 + l
    BY DEF a
  <2>4. e2[l + 2] = m[1] /\ e2[l + 3] = m[2]
    BY <2>2, <2>3
  <2>5. QED
    BY <1>2, <2>2, <2>3, <2>4
<1> HIDE DEF e2
<1>7. /\ e3 \in Seq(Int) /\ Len(e3) = l + 3 + n
      /\ \A i \in 1 .. l + 3 : e3[i] = e2[i]
      /\ \A i \in 1 .. n : e3[l + 3 + i] = offs[i]
  <2>1. Joins(e3, e2, offs, Len(e2), Len(offs))
    BY <1>6, Joined
  <2> HIDE DEF e3
  <2>2. QED
    BY <1>6, <2>1 DEF Joins
<1> HIDE DEF e3
<1>8. /\ e4 \in Seq(Int) /\ Len(e4) = l + 3 + n + 4
      /\ \A i \in 1 .. l + 3 + n : e4[i] = e3[i]
      /\ \A i \in 1 .. 4 : e4[l + 3 + n + i] = t[i]
  <2>1. Joins(e4, e3, t, Len(e3), Len(t))
    BY <1>3, <1>7, Joined
  <2> HIDE DEF e4
  <2>2. QED
    BY <1>3, <1>7, <2>1 DEF Joins
<1> HIDE DEF e4
<1>9. ASSUME NEW j \in 1 .. l PROVE e4[1 + j] = b[j]
  <2>1. 1 + j \in 1 .. 1 + l /\ 1 + j \in 1 .. l + 3 /\ 1 + j \in 1 .. l + 3 + n
    OBVIOUS
  <2>2. QED
    BY <1>5, <1>6, <1>7, <1>8, <2>1
<1>10. e4[l + 2] = x /\ e4[l + 3] = n
  <2>1. /\ l + 2 \in 1 .. l + 3 /\ l + 2 \in 1 .. l + 3 + n
        /\ l + 3 \in 1 .. l + 3 /\ l + 3 \in 1 .. l + 3 + n
    OBVIOUS
  <2>2. QED
    BY <1>6, <1>7, <1>8, <2>1
<1>11. ASSUME NEW j \in 1 .. n PROVE e4[l + 3 + j] = offs[j]
  <2>1. l + 3 + j \in 1 .. l + 3 + n
    OBVIOUS
  <2>2. QED
    BY <1>7, <1>8, <2>1
<1>12. e4[l + 4 + n] = 2 + n /\ e4[l + 5 + n] = 0 /\ e4[l + 6 + n] = 0 /\ e4[l + 7 + n] = 0
  <2>1. 1 \in 1 .. 4 /\ 2 \in 1 .. 4 /\ 3 \in 1 .. 4 /\ 4 \in 1 .. 4
    OBVIOUS
  <2>2. /\ e4[l + 3 + n + 1] = t[1] /\ e4[l + 3 + n + 2] = t[2]
        /\ e4[l + 3 + n + 3] = t[3] /\ e4[l + 3 + n + 4] = t[4]
    BY <1>8, <2>1
  <2>3. /\ l + 3 + n + 1 = l + 4 + n /\ l + 3 + n + 2 = l + 5 + n
        /\ l + 3 + n + 3 = l + 6 + n /\ l + 3 + n + 4 = l + 7 + n
    OBVIOUS
  <2>4. QED
    BY <1>3, <2>2, <2>3
<1>13. e4 \in Seq(Int) /\ Len(e4) = l + 7 + n
  BY <1>8
<1>14. IsEntry(e4, b, x, offs, l, n)
  BY <1>9, <1>10, <1>11, <1>12, <1>13 DEF IsEntry
<1>15. QED
  BY <1>4, <1>14

\* d is data with an entry behind it, whose header is at p.
Headed(d, p, x, offs, n) ==
  /\ d \in Seq(Int) /\ Len(d) = p + 6 + n
  /\ \A i \in 1 .. Len(data) : d[i] = data[i]
  /\ d[p + 1] = x /\ d[p + 2] = n
  /\ \A j \in 1 .. n : d[p + 2 + j] = offs[j]
  /\ d[p + 3 + n] = 2 + n /\ d[p + 4 + n] = 0 /\ d[p + 5 + n] = 0 /\ d[p + 6 + n] = 0

\* Appending an entry puts its header behind its length and its bytes.
LEMMA EntryHeaded ==
  ASSUME data \in Seq(Int), NEW b \in Seq(Int), NEW x \in Int, NEW offs \in Seq(Int),
         NEW n \in Nat, Len(offs) = n
  PROVE  Headed(data \o EntryOf(b, x, offs), Len(data) + 1 + Len(b), x, offs, n)
<1> DEFINE e == EntryOf(b, x, offs)
           d == data \o e
           l == Len(b)
           z == Len(data)
           p == z + 1 + l
<1>1. l \in Nat /\ z \in Nat /\ Len(b) = l
  BY LenProperties
<1> HIDE DEF l
<1>2. IsEntry(e, b, x, offs, l, n)
  BY <1>1, EntryCells
<1> HIDE DEF e
<1>3. Joins(d, data, e, Len(data), Len(e))
  BY <1>2, Joined DEF IsEntry
<1> HIDE DEF d
<1>4. Joins(d, data, e, z, l + 7 + n)
  BY <1>2, <1>3 DEF IsEntry
<1> HIDE DEF z
<1>5. /\ d \in Seq(Int) /\ Len(d) = z + (l + 7 + n)
      /\ \A i \in 1 .. z : d[i] = data[i]
      /\ \A i \in 1 .. l + 7 + n : d[z + i] = e[i]
  BY <1>4 DEF Joins
<1>6. /\ l + 2 \in 1 .. l + 7 + n /\ l + 3 \in 1 .. l + 7 + n
      /\ p + 1 = z + (l + 2) /\ p + 2 = z + (l + 3) /\ p + 6 + n = z + (l + 7 + n)
  BY <1>1
<1>7. /\ l + 4 + n \in 1 .. l + 7 + n /\ l + 5 + n \in 1 .. l + 7 + n
      /\ l + 6 + n \in 1 .. l + 7 + n /\ l + 7 + n \in 1 .. l + 7 + n
      /\ p + 3 + n = z + (l + 4 + n) /\ p + 4 + n = z + (l + 5 + n)
      /\ p + 5 + n = z + (l + 6 + n)
  BY <1>1
<1>8. ASSUME NEW j \in 1 .. n PROVE d[p + 2 + j] = offs[j]
  <2>1. l + 3 + j \in 1 .. l + 7 + n /\ p + 2 + j = z + (l + 3 + j)
    BY <1>1
  <2> HIDE DEF p
  <2>2. e[l + 3 + j] = offs[j]
    BY <1>2 DEF IsEntry
  <2>3. QED
    BY <1>5, <2>1, <2>2
<1> HIDE DEF p
<1>9. d[p + 1] = x /\ d[p + 2] = n
  <2>1. e[l + 2] = x /\ e[l + 3] = n
    BY <1>2 DEF IsEntry
  <2>2. QED
    BY <1>5, <1>6, <2>1
<1>10. d[p + 3 + n] = 2 + n /\ d[p + 4 + n] = 0 /\ d[p + 5 + n] = 0 /\ d[p + 6 + n] = 0
  <2>1. e[l + 4 + n] = 2 + n /\ e[l + 5 + n] = 0 /\ e[l + 6 + n] = 0 /\ e[l + 7 + n] = 0
    BY <1>2 DEF IsEntry
  <2>2. QED
    BY <1>5, <1>6, <1>7, <2>1
<1>11. Headed(d, p, x, offs, n)
  BY <1>5, <1>6, <1>8, <1>9, <1>10 DEF Headed, z
<1>12. QED
  BY <1>11 DEF d, e, p, l, z

\* One more entry keeps the file.  p is where its header comes, c the cells of
\* its record.
LEMMA LogAppended ==
  ASSUME NEW k \in Nat, NEW at, NEW o, LogOf(at, data, o, k),
         NEW c \in Seq(Int), Len(c) = 3, NEW b \in Seq(Int), NEW x \in Int, NEW offs \in Seq(Int),
         Len(offs) = 3 * Low(k + 1),
         \A j \in 1 .. 3 * Low(k + 1) : offs[j] = (o \o c)[3 * ((k + 1) - Low(k + 1)) + j],
         NEW p, p = Len(data) + 1 + Len(b),
         x = IF k + 1 = Low(k + 1) THEN 0 ELSE p - at[(k + 1) - Low(k + 1)]
  PROVE  LogOf(More(at, k, p), data \o EntryOf(b, x, offs), o \o c, k + 1)
<1> DEFINE m == k + 1
           n == 3 * Low(m)
           new == More(at, k, p)
           d == data \o EntryOf(b, x, offs)
           all == o \o c
           z == Len(data)
<1>1. m \in Nat \ {0} /\ Low(m) \in Nat \ {0} /\ m - Low(m) \in 0 .. m - 1
  <2>1. m \in Nat \ {0}
    OBVIOUS
  <2> HIDE DEF m
  <2>2. QED
    BY <2>1, LowParts
<1>2. /\ data \in Seq(Int) /\ o \in Seq(Int) /\ Len(o) = 3 * k /\ z \in Nat
      /\ \A i \in 1 .. k : EntryAt(data, o, at, i)
      /\ \A i, j \in 1 .. k : i < j => at[i] < at[j]
  BY LenProperties DEF LogOf
<1>3. new[m] = p /\ \A i \in 1 .. k : new[i] = at[i]
  BY DEF More
<1>4. p \in Nat \ {0} /\ z < p /\ n \in Nat
  <2>1. n \in Nat
    BY <1>1
  <2>2. Len(b) \in Nat
    BY LenProperties
  <2> DEFINE l == Len(b)
  <2>3. p = z + 1 + l
    OBVIOUS
  <2> HIDE DEF l, z, n
  <2>4. QED
    BY <1>2, <2>1, <2>2, <2>3 DEF l
<1>5. Headed(d, p, x, offs, n)
  <2>1. Len(offs) = n
    OBVIOUS
  <2> HIDE DEF n
  <2>2. QED
    BY <1>2, <1>4, <2>1, EntryHeaded
<1>6. /\ all \in Seq(Int) /\ Len(all) = 3 * m
      /\ \A i \in 1 .. 3 * k : all[i] = o[i]
  <2>1. Joins(all, o, c, Len(o), Len(c))
    BY <1>2, Joined
  <2> HIDE DEF all
  <2>2. QED
    BY <1>2, <2>1 DEF Joins
<1>7. \A j \in 1 .. n : offs[j] = all[3 * (m - Low(m)) + j]
  OBVIOUS
<1>8. x = IF m = Low(m) THEN 0 ELSE p - at[m - Low(m)]
  OBVIOUS
<1>9. k \in Nat /\ m = k + 1
  OBVIOUS
<1> HIDE DEF all, new, d, z, n, m
<1>10. EntryAt(d, all, new, m)
  <2>1. m # Low(m) => new[m - Low(m)] = at[m - Low(m)]
    <3>1. m # Low(m) => m - Low(m) \in 1 .. k
      BY <1>1, <1>9
    <3>2. QED
      BY <1>3, <3>1
  <2>2. p + 6 + n <= Len(d) /\ d[p + 1] = x /\ d[p + 2] = n
        /\ \A j \in 1 .. n : d[p + 2 + j] = offs[j]
    BY <1>4, <1>5 DEF Headed
  <2> DEFINE v == 3 * (m - Low(m))
  <2>3. \A j \in 1 .. n : d[p + 2 + j] = all[v + j]
    BY <1>7, <2>2
  <2>4. d[p + 1] = IF m = Low(m) THEN 0 ELSE p - new[m - Low(m)]
    BY <1>8, <2>1, <2>2
  <2> HIDE DEF v
  <2>5. /\ p \in Nat \ {0} /\ p + 6 + n <= Len(d)
        /\ d[p + 1] = IF m = Low(m) THEN 0 ELSE p - new[m - Low(m)]
        /\ d[p + 2] = n /\ \A j \in 1 .. n : d[p + 2 + j] = all[v + j]
    BY ONLY <1>4, <2>2, <2>3, <2>4
  <2>6. QED
    BY ONLY <1>3, <2>5, Zenon DEF EntryAt, n, v
<1>11. ASSUME NEW i \in 1 .. k PROVE EntryAt(d, all, new, i) /\ new[i] < p
  <2>0. i \in Nat \ {0} /\ i <= k
    BY <1>9
  <2>1. EntryAt(data, o, at, i) /\ new[i] = at[i]
    BY <1>2, <1>3
  <2>2. Low(i) \in Nat \ {0} /\ i - Low(i) \in 0 .. i - 1 /\ (i - Low(i)) + Low(i) = i
    BY <2>0, LowParts
  <2> DEFINE s == 3 * Low(i)
             q == at[i]
             v == 3 * (i - Low(i))
  <2>3. /\ q \in Nat \ {0} /\ q + 6 + s <= z
        /\ data[q + 1] = IF i = Low(i) THEN 0 ELSE q - at[i - Low(i)]
        /\ data[q + 2] = s
        /\ \A j \in 1 .. s : data[q + 2 + j] = o[v + j]
    BY <2>1 DEF EntryAt, z
  <2>4. s \in Nat /\ v \in Nat /\ v + s = 3 * i
    <3> DEFINE w == Low(i)
    <3>1. w \in Nat \ {0} /\ i - w \in 0 .. i - 1 /\ i \in Nat \ {0} /\ s = 3 * w /\ v = 3 * (i - w)
      BY <2>0, <2>2
    <3> HIDE DEF w, s, v
    <3>2. QED
      BY ONLY <3>1
  <2>5. i # Low(i) => new[i - Low(i)] = at[i - Low(i)]
    <3> DEFINE w == i - Low(i)
    <3>1. i # Low(i) => w # 0
      BY <2>0, <2>2
    <3>2. w \in 0 .. i - 1
      BY <2>2
    <3> HIDE DEF w
    <3>3. w # 0 => w \in 1 .. k
      BY <1>9, <2>0, <3>2
    <3>4. i # Low(i) => new[w] = at[w]
      BY <1>3, <3>1, <3>3
    <3>5. QED
      BY <3>4 DEF w
  <2> HIDE DEF q, s, v
  <2>6. q + 1 \in 1 .. z /\ q + 2 \in 1 .. z
    BY <1>2, <2>3, <2>4
  <2>7. \A y \in 1 .. z : d[y] = data[y]
    BY <1>5 DEF Headed, z
  <2>8. d[q + 1] = data[q + 1] /\ d[q + 2] = data[q + 2]
    BY <2>6, <2>7
  <2>9. ASSUME NEW j \in 1 .. s PROVE d[q + 2 + j] = all[v + j]
    <3>1. q \in Nat /\ q + 6 + s <= z /\ z \in Nat /\ i <= k /\ i \in Nat /\ k \in Nat
      BY <1>2, <1>9, <2>0, <2>3
    <3>2. j \in Nat /\ 1 <= j /\ j <= s
      BY <2>4
    <3>3. q + 2 + j \in 1 .. z /\ v + j \in 1 .. 3 * k
      BY ONLY <2>4, <3>1, <3>2
    <3>4. QED
      BY <1>6, <2>3, <2>7, <3>3
  <2>10. Len(d) = p + 6 + n
    BY <1>5 DEF Headed
  <2>11. q + 6 + s <= Len(d) /\ q < p
    <3>1. q \in Nat /\ q + 6 + s <= z /\ z \in Nat
      BY <1>2, <2>3
    <3>2. QED
      BY ONLY <1>4, <2>4, <2>10, <3>1
  <2>12. /\ q \in Nat \ {0} /\ q + 6 + s <= Len(d)
         /\ d[q + 1] = IF i = Low(i) THEN 0 ELSE q - new[i - Low(i)]
         /\ d[q + 2] = s /\ \A j \in 1 .. s : d[q + 2 + j] = all[v + j]
    <3>1. d[q + 1] = IF i = Low(i) THEN 0 ELSE q - new[i - Low(i)]
      BY <2>3, <2>5, <2>8
    <3>2. QED
      BY <2>3, <2>8, <2>9, <2>11, <3>1
  <2>13. EntryAt(d, all, new, i)
    BY ONLY <2>1, <2>12, Zenon DEF EntryAt, q, s, v
  <2>14. QED
    BY <2>1, <2>11, <2>13 DEF q
<1>12. ASSUME NEW i \in 1 .. m PROVE EntryAt(d, all, new, i)
  <2>1. i = m \/ i \in 1 .. k
    BY <1>9
  <2>2. QED
    BY <1>10, <1>11, <2>1
<1>13. ASSUME NEW i \in 1 .. m, NEW j \in 1 .. m, i < j PROVE new[i] < new[j]
  <2>1. i \in 1 .. k /\ (j = m \/ j \in 1 .. k)
    BY <1>9, <1>13
  <2>2. CASE j = m
    BY <1>3, <1>11, <2>1, <2>2
  <2>3. CASE j \in 1 .. k
    BY <1>2, <1>3, <1>13, <2>1, <2>3
  <2>4. QED
    BY <2>1, <2>2, <2>3
<1>14. TailAt(d, new[m], n)
  BY <1>3, <1>5 DEF TailAt, Headed
<1>15. m # 0 /\ d \in Seq(Int) /\ all \in Seq(Int) /\ Len(all) = 3 * m
  BY <1>1, <1>5, <1>6 DEF Headed
<1>16. LogOf(new, d, all, m)
  BY <1>12, <1>13, <1>14, <1>15 DEF LogOf, n
<1>17. QED
  BY <1>16 DEF new, d, all, m

\* Without a failed write: the file, the chain and the index are those of all
\* writes.
Whole1(at) ==
  /\ LogOf(at, data, offsetsBytes, nPushed) /\ ChainIs(chain, at, nPushed)
  /\ PutOffsets(NoRecords, offsetsBytes).index = index
  /\ PutOffsets(NoRecords, offsetsBytes).prev = prev

\* The end of a sequence of records.
LEMMA LastRecords ==
  ASSUME NEW all \in Seq(Int), NEW v \in Nat, NEW n \in Nat, Len(all) = v + n
  PROVE  LET offs == SubSeq(all, v + 1, Len(all))
         IN /\ offs \in Seq(Int) /\ Len(offs) = n
            /\ \A j \in 1 .. n : offs[j] = all[v + j]
<1> DEFINE a == v + 1
           b == v + n
           offs == SubSeq(all, a, b)
<1>1. a \in 1 .. Len(all) + 1 /\ b \in 0 .. Len(all) /\ a \in Nat /\ b \in Nat
      /\ \A y \in a .. b : y \in 1 .. Len(all)
  OBVIOUS
<1>2. \A y \in a .. b : all[y] \in Int
  BY <1>1, ElementOfSeq
<1>3. /\ offs \in Seq(Int)
      /\ Len(offs) = IF a <= b THEN b - a + 1 ELSE 0
      /\ \A y \in 1 .. b - a + 1 : offs[y] = all[a + y - 1]
  <2> HIDE DEF a, b
  <2>1. /\ SubSeq(all, a, b) \in Seq(Int)
        /\ Len(SubSeq(all, a, b)) = IF a <= b THEN b - a + 1 ELSE 0
        /\ \A y \in 1 .. b - a + 1 : SubSeq(all, a, b)[y] = all[a + y - 1]
    BY <1>1, <1>2, SubSeqProperties
  <2>2. QED
    BY <2>1
<1>4. Len(offs) = n
  <2> HIDE DEF offs
  <2>1. QED
    BY <1>3
<1>5. ASSUME NEW j \in 1 .. n PROVE offs[j] = all[v + j]
  <2>1. j \in 1 .. b - a + 1 /\ a + j - 1 = v + j
    OBVIOUS
  <2> HIDE DEF offs, a, b
  <2>2. QED
    BY <1>3, <2>1
<1>6. SubSeq(all, v + 1, Len(all)) = offs
  OBVIOUS
<1> HIDE DEF offs
<1>7. QED
  BY <1>3, <1>4, <1>5, <1>6

\* The records with that of a write.
LEMMA RecordAppended ==
  ASSUME Shared, ~broken, nPushed \in Nat, NEW at, Whole1(at),
         NEW w, w.bytes \in Seq(Int), w.off \in Int
  PROVE  LET c == Differences(prev, NewRecord1(w))
         IN /\ c \in Seq(Int) /\ Len(c) = 3 /\ NewRecord1(w) \in Records
            /\ PutOffsets(NoRecords, AllOffsets(w))
                 = [index |-> Write(index, w.off, dataSize + 1, Len(w.bytes)),
                    prev  |-> NewRecord1(w)]
<1> DEFINE r == NewRecord1(w)
           c == Differences(prev, r)
           s == PutOffsets(NoRecords, offsetsBytes)
<1>1. r \in Records /\ r.off = w.off /\ r.diskStart = dataSize + 1 /\ r.length = Len(w.bytes)
  BY LenProperties DEF NewRecord1, Record, Records, Shared
<1>2. prev \in Records /\ s.prev = prev /\ s.index = index
  BY DEF Shared, Whole1
<1>3. WholeRecords(offsetsBytes) /\ offsetsBytes \in Seq(Int)
  <2>1. offsetsBytes \in Seq(Int) /\ Len(offsetsBytes) = 3 * nPushed
    BY DEF Whole1, LogOf
  <2>2. (3 * nPushed) % 3 = 0
    OBVIOUS
  <2>3. QED
    BY <2>1, <2>2, Zenon DEF WholeRecords
<1>4. PutOffsets(NoRecords, offsetsBytes) = s
  OBVIOUS
<1> HIDE DEF r, s
<1>5. c \in Seq(Int) /\ Len(c) = 3
      /\ PutRecord(s, c) = [index |-> Write(s.index, r.off, r.diskStart, r.length), prev |-> r]
  BY <1>1, <1>2, RecordPut
<1> HIDE DEF c
<1>6. PutOffsets(NoRecords, offsetsBytes \o c) = PutRecord(s, c)
  BY <1>3, <1>4, <1>5, OffsetsAppended
<1>7. PutOffsets(NoRecords, offsetsBytes \o c)
        = [index |-> Write(index, w.off, dataSize + 1, Len(w.bytes)), prev |-> r]
  BY <1>1, <1>2, <1>5, <1>6
<1>8. AllOffsets(w) = offsetsBytes \o c
  BY DEF AllOffsets, c, r
<1>9. QED
  BY <1>1, <1>5, <1>7, <1>8 DEF c, r

\* The cells of the entry of a write, whose header is at p: its parent is that of
\* the chain, and it has all records since.
EntryFits(w, at, x, offs) ==
  /\ Entry(w) = EntryOf(w.bytes, x, offs)
  /\ x \in Int /\ offs \in Seq(Int) /\ Len(offs) = 3 * Low(nPushed + 1)
  /\ Len(offs) = Len(AllOffsets(w)) - Parent.inOffsets
  /\ \A j \in 1 .. 3 * Low(nPushed + 1) :
       offs[j] = AllOffsets(w)[3 * ((nPushed + 1) - Low(nPushed + 1)) + j]
  /\ x = IF nPushed + 1 = Low(nPushed + 1) THEN 0
         ELSE ParentPtr(w) - at[(nPushed + 1) - Low(nPushed + 1)]

\* There are such a parent and such offsets.
LEMMA EntryIs ==
  ASSUME Shared, ~broken, nPushed \in Nat, NEW at, Whole1(at),
         NEW w, w.bytes \in Seq(Int), AllOffsets(w) \in Seq(Int),
         Len(AllOffsets(w)) = 3 * (nPushed + 1)
  PROVE  \E x, offs : EntryFits(w, at, x, offs)
<1> DEFINE m == nPushed + 1
           u == m - Low(m)
           all == AllOffsets(w)
           x == IF Parent.inData # 0 THEN ParentPtr(w) - Parent.inData ELSE 0
           offs == SubSeq(all, Parent.inOffsets + 1, Len(all))
<1>1. Low(m) \in Nat \ {0} /\ u \in 0 .. m - 1 /\ u + Low(m) = m /\ u \in Nat
  <2>1. m \in Nat \ {0}
    OBVIOUS
  <2> HIDE DEF m
  <2>2. Low(m) \in Nat \ {0} /\ m - Low(m) \in 0 .. m - 1 /\ (m - Low(m)) + Low(m) = m
    BY <2>1, LowParts
  <2>3. QED
    BY <2>1, <2>2
<1>2. Parent = IF m = Low(m) THEN NoElem ELSE Elem(3 * u, at[u])
  BY ChainParent DEF Whole1
<1>3. m # Low(m) => u \in 1 .. nPushed
  <2>1. nPushed \in Nat /\ m = nPushed + 1
    OBVIOUS
  <2> DEFINE y == Low(m)
  <2> HIDE DEF m, y
  <2>2. m # y => u # 0
    BY <1>1, <2>1 DEF y
  <2> HIDE DEF u
  <2>3. u # 0 => u \in 1 .. nPushed
    BY <1>1, <2>1
  <2>4. QED
    BY <2>2, <2>3 DEF y
<1>4. m = Low(m) => u = 0
  BY <1>1
<1>5. m # Low(m) => at[u] \in Nat \ {0}
  BY <1>3 DEF Whole1, LogOf, EntryAt
<1>6. ParentPtr(w) \in Int
  BY LenProperties DEF ParentPtr, Shared
<1>7. all \in Seq(Int) /\ Len(all) = 3 * m
  OBVIOUS
<1>8. Entry(w) = EntryOf(w.bytes, x, offs)
  BY DEF Entry, EntryOf
<1> HIDE DEF m, u, all
<1>9. Parent.inOffsets = 3 * u
  BY <1>1, <1>2, <1>4 DEF NoElem, Elem
<1>10. x \in Int /\ x = IF m = Low(m) THEN 0 ELSE ParentPtr(w) - at[u]
  <2>1. CASE m = Low(m)
    BY <1>2, <2>1 DEF NoElem, Elem
  <2>2. CASE m # Low(m)
    <3>1. Parent.inData = at[u]
      BY <1>2, <2>2 DEF Elem
    <3>2. QED
      BY <1>5, <1>6, <2>2, <3>1
  <2>3. QED
    BY <2>1, <2>2
<1> HIDE DEF x
<1> DEFINE v == 3 * u
           n == 3 * Low(m)
<1>11. v \in Nat /\ n \in Nat /\ Len(all) = v + n
  <2> DEFINE y == Low(m)
  <2>1. y \in Nat /\ u \in Nat /\ u + y = m /\ Len(all) = 3 * m /\ n = 3 * y
    BY <1>1, <1>7
  <2> HIDE DEF y, n
  <2>2. QED
    BY ONLY <2>1 DEF v
<1>12. offs = SubSeq(all, v + 1, Len(all))
  BY <1>9
<1> HIDE DEF v, n, offs
<1>13. offs \in Seq(Int) /\ Len(offs) = n /\ \A j \in 1 .. n : offs[j] = all[v + j]
  BY <1>7, <1>11, <1>12, LastRecords
<1>14. Len(offs) = Len(all) - Parent.inOffsets
  BY <1>9, <1>11, <1>13 DEF v
<1>15. EntryFits(w, at, x, offs)
  BY <1>8, <1>10, <1>13, <1>14, Zenon DEF EntryFits, m, u, all, v, n
<1>16. QED
  BY <1>15

\* What the entry of a write makes of the file.
Appends(w, p, off, at) ==
  /\ Entry(w) \in Seq(Int)
  /\ Len(Entry(w)) = 7 + Len(w.bytes) + (Len(AllOffsets(w)) - Parent.inOffsets)
  /\ Len(AllOffsets(w)) - Parent.inOffsets \in Nat
  /\ Len(data \o Entry(w)) = Len(data) + Len(Entry(w))
  /\ LogOf(More(at, nPushed, ParentPtr(w)), data \o Entry(w), AllOffsets(w), nPushed + 1)
  /\ ChainIs(Pushed(chain, nPushed + 1, Elem(Len(AllOffsets(w)), ParentPtr(w))),
             More(at, nPushed, ParentPtr(w)), nPushed + 1)
  /\ PutOffsets(NoRecords, AllOffsets(w))
       = [index |-> Write(index, w.off, dataSize + 1, Len(w.bytes)), prev |-> NewRecord1(w)]
  /\ NewRecord1(w) \in Records
  /\ Extends(data \o Entry(w), p, off, dataSize + 1)

\* All that holds of the entry that a write appends.
LEMMA EntryAppends ==
  ASSUME Shared, ~broken, nPushed \in Nat, NEW at, Whole1(at),
         NEW p \in Payloads, NEW off \in Nat, ~Skipped(p, off)
  PROVE  Appends(Trimmed(p, off), p, off, at)
<1> DEFINE w == Trimmed(p, off)
           b == w.bytes
           all == AllOffsets(w)
           c == Differences(prev, NewRecord1(w))
           ptr == ParentPtr(w)
           e == Entry(w)
<1>1. b \in Seq(Int) /\ Len(b) \in Nat \ {0} /\ w.off \in Int
  <2>1. b \in Seq(Nat) /\ Len(b) \in Nat \ {0} /\ w.off \in Nat
    BY TrimmedBytes
  <2> HIDE DEF w
  <2>2. QED
    BY <2>1, SeqMonotonic
<1>2. /\ data \in Seq(Int) /\ Len(data) \in Nat /\ dataSize = Len(data)
      /\ offsetsBytes \in Seq(Int) /\ Len(offsetsBytes) = 3 * nPushed
      /\ LogOf(at, data, offsetsBytes, nPushed) /\ ChainIs(chain, at, nPushed)
  BY LenProperties DEF Shared, Whole1, LogOf
<1>3. ptr = Len(data) + 1 + Len(b)
  BY <1>2 DEF ParentPtr
<1> HIDE DEF w
<1>4. /\ c \in Seq(Int) /\ Len(c) = 3 /\ NewRecord1(w) \in Records
      /\ PutOffsets(NoRecords, all)
           = [index |-> Write(index, w.off, dataSize + 1, Len(b)), prev |-> NewRecord1(w)]
  BY <1>1, RecordAppended
<1>5. all = offsetsBytes \o c
  BY DEF AllOffsets
<1> HIDE DEF all, c
<1>6. all \in Seq(Int) /\ Len(all) = 3 * (nPushed + 1)
  <2>1. Joins(all, offsetsBytes, c, Len(offsetsBytes), Len(c))
    BY <1>2, <1>4, <1>5, Joined
  <2>2. QED
    BY <1>2, <1>4, <2>1 DEF Joins
<1>7. PICK x, offs : EntryFits(w, at, x, offs)
  BY <1>1, <1>6, EntryIs DEF all
<1>8. /\ e = EntryOf(b, x, offs) /\ x \in Int /\ offs \in Seq(Int)
      /\ Len(offs) = 3 * Low(nPushed + 1) /\ Len(offs) = Len(all) - Parent.inOffsets
      /\ \A j \in 1 .. 3 * Low(nPushed + 1) :
           offs[j] = all[3 * ((nPushed + 1) - Low(nPushed + 1)) + j]
      /\ x = IF nPushed + 1 = Low(nPushed + 1) THEN 0
             ELSE ptr - at[(nPushed + 1) - Low(nPushed + 1)]
  BY <1>7, Zenon DEF EntryFits, all
<1> DEFINE l == Len(b)
           n == Len(offs)
<1>9. l \in Nat /\ n \in Nat
  BY <1>1, <1>8, LenProperties
<1> HIDE DEF b, e, ptr
<1>10. IsEntry(e, b, x, offs, l, n)
  BY <1>1, <1>8, <1>9, EntryCells
<1>11. e \in Seq(Int) /\ Len(e) = l + 7 + n /\ \A j \in 1 .. l : e[1 + j] = b[j]
  BY <1>10 DEF IsEntry
<1> DEFINE new == More(at, nPushed, ptr)
           d == data \o e
<1>12. LogOf(new, d, all, nPushed + 1)
  BY <1>1, <1>2, <1>3, <1>4, <1>5, <1>8, LogAppended
<1>13. ChainIs(Pushed(chain, nPushed + 1, Elem(Len(all), ptr)), new, nPushed + 1)
  BY <1>2, <1>6, ChainPushed
<1> HIDE DEF new, l, n
<1>14. /\ d \in Seq(Int) /\ Len(d) = Len(data) + Len(e)
       /\ \A i \in 1 .. Len(data) : d[i] = data[i]
       /\ \A i \in 1 .. Len(e) : d[Len(data) + i] = e[i]
  <2>1. Joins(d, data, e, Len(data), Len(e))
    BY <1>2, <1>11, Joined
  <2> HIDE DEF d
  <2>2. QED
    BY <2>1 DEF Joins
<1> HIDE DEF d
<1>15. Keeps(d, data, dataSize)
  BY <1>2, <1>14 DEF Keeps
<1>16. Holds(d, dataSize + 1, b, l)
  <2>1. ASSUME NEW j \in 1 .. l PROVE d[(dataSize + 1) + j] = b[j]
    <3>1. 1 + j \in 1 .. Len(e) /\ (dataSize + 1) + j = Len(data) + (1 + j)
      BY <1>2, <1>9, <1>11
    <3>2. QED
      BY <1>11, <1>14, <3>1
  <2>2. QED
    BY <2>1 DEF Holds
<1>17. dataSize + 1 \in Nat /\ dataSize <= Len(d) /\ (dataSize + 1) + l <= Len(d)
  BY <1>2, <1>9, <1>11, <1>14
<1>18. Extends(d, p, off, dataSize + 1)
  BY <1>14, <1>15, <1>16, <1>17 DEF Extends, b, l, w
<1>19. Len(e) = 7 + l + (Len(all) - Parent.inOffsets) /\ Len(all) - Parent.inOffsets \in Nat
  <2>1. n = Len(all) - Parent.inOffsets
    BY <1>8 DEF n
  <2>2. QED
    BY <1>9, <1>11, <2>1
<1>20. Appends(w, p, off, at)
  BY <1>4, <1>11, <1>12, <1>13, <1>14, <1>18, <1>19 DEF Appends, all, b, ptr, e, new, d, l
<1>21. QED
  BY <1>20 DEF w

\* A file of one file.  Unless a write has failed, the data file is a log of as
\* many entries as were pushed, and the chain, the records and the index are
\* theirs.  A write that failed has left such a log too, with its entry or
\* without, or a part of its entry.
One ==
  /\ Shared /\ writes \in 0 .. MaxWrites
  /\ nPushed \in Nat /\ nPushed <= writes
  /\ ~broken => \E at : Whole1(at)
  /\ broken /\ ~Torn => \E at, o : \E k \in 0 .. writes :
                          LogOf(at, data, o, k) /\ LoadsFine(PutOffsets(NoRecords, o))

\* A new file.
LEMMA InitOne == Init1 => One
<1> SUFFICES ASSUME Init1 PROVE One
  OBVIOUS
<1>1. data = << >> /\ index = {} /\ prev = NoRecord /\ dataSize = 0 /\ broken = FALSE
      /\ writes = 0 /\ offsetsBytes = << >> /\ chain = << >> /\ nPushed = 0 /\ SparseInit
  BY DEF Init1, SparseInit
<1>2. Shared
  BY <1>1, InitShared
<1>3. Whole1(<< >>)
  <2>1. << >> \in Seq(Int) /\ Len(<< >>) = 3 * 0
    BY EmptySeq
  <2>2. LogOf(<< >>, data, offsetsBytes, nPushed) /\ ChainIs(chain, << >>, nPushed)
    BY <1>1, <2>1 DEF LogOf, ChainIs
  <2>3. PutOffsets(NoRecords, offsetsBytes).index = index
        /\ PutOffsets(NoRecords, offsetsBytes).prev = prev
    BY <1>1, NothingPut DEF PutNothing, NoRecords
  <2>4. QED
    BY <2>2, <2>3 DEF Whole1
<1>4. QED
  BY <1>1, <1>2, <1>3, SparseAssumption DEF One

\* A write adds an entry.
LEMMA WriteOne ==
  ASSUME One, NEW p \in Payloads, NEW off \in Nat, WriteAt1(p, off)
  PROVE  One'
<1> DEFINE w == Trimmed(p, off)
<1>1. Shared /\ ~broken /\ nPushed \in Nat /\ ~Skipped(p, off) /\ MayWrite
  BY DEF One, WriteAt1, MayWrite
<1>2. PICK at : Whole1(at)
  BY <1>1 DEF One
<1>3. Appends(w, p, off, at)
  BY <1>1, <1>2, EntryAppends
<1>4. /\ data' = data \o Entry(w) /\ dataSize' = dataSize + Len(Entry(w))
      /\ offsetsBytes' = AllOffsets(w) /\ prev' = NewRecord1(w) /\ nPushed' = nPushed + 1
      /\ chain' = Pushed(chain, nPushed + 1, Elem(Len(AllOffsets(w)), ParentPtr(w)))
      /\ index' = Write(index, w.off, dataSize + 1, Len(w.bytes))
      /\ writes' = writes + 1 /\ Acknowledged(p, off) /\ UNCHANGED <<up, broken>>
  BY DEF WriteAt1, NewRecord1, Record
<1>5. dataSize = Len(data)
  BY <1>1 DEF Shared
<1>6. Shared'
  <2>1. Extends(data', p, off, dataSize + 1) /\ dataSize' = Len(data') /\ prev' \in Records
    BY <1>3, <1>4, <1>5 DEF Appends
  <2>2. index' = Write(index, Trimmed(p, off).off, dataSize + 1, Len(Trimmed(p, off).bytes))
    BY <1>4
  <2> HIDE DEF w
  <2>3. QED
    BY <1>1, <1>4, <2>1, <2>2, SharedWrite
<1> HIDE DEF w
<1>7. \E new : Whole1(new)'
  <2>1. PICK new : new = More(at, nPushed, ParentPtr(w))
    OBVIOUS
  <2>2. /\ LogOf(new, data', offsetsBytes', nPushed') /\ ChainIs(chain', new, nPushed')
        /\ PutOffsets(NoRecords, offsetsBytes') = [index |-> index', prev |-> prev']
    BY <1>3, <1>4, <2>1 DEF Appends
  <2>3. Whole1(new)'
    BY <2>2 DEF Whole1
  <2>4. QED
    BY <2>3
<1>8. writes' \in 0 .. MaxWrites /\ nPushed' \in Nat /\ nPushed' <= writes'
  BY <1>1, <1>4, SparseAssumption DEF One, MayWrite
<1>9. QED
  BY <1>1, <1>4, <1>6, <1>7, <1>8 DEF One

\* A write that fails: nothing of its entry is there, or all, or it is torn.
LEMMA FailOne ==
  ASSUME One, NEW p \in Payloads, NEW off \in Nat, FailWrite(p, off)
  PROVE  One'
<1> DEFINE w == Trimmed(p, off)
           new == Write(index, w.off, dataSize + 1, Len(w.bytes))
<1>1. Shared /\ ~broken /\ nPushed \in Nat /\ ~Skipped(p, off) /\ MayWrite
  BY DEF One, FailWrite, MayWrite
<1>2. PICK at : Whole1(at)
  BY <1>1 DEF One
<1>3. Appends(w, p, off, at)
  BY <1>1, <1>2, EntryAppends
<1>4. /\ Entry(w) \in Seq(Int) /\ Len(w.bytes) \in Nat
      /\ Len(Entry(w)) = 7 + Len(w.bytes) + (Len(AllOffsets(w)) - Parent.inOffsets)
      /\ Len(data \o Entry(w)) = Len(data) + Len(Entry(w)) /\ NewRecord1(w) \in Records
      /\ NewRecord1(w).length = Len(w.bytes) /\ Len(AllOffsets(w)) - Parent.inOffsets \in Nat
  BY <1>1, <1>3, TrimmedBytes DEF Appends, NewRecord1, Record
<1>5. PICK k \in 0 .. Len(Entry(w)) :
        /\ data' = data \o SubSeq(Entry(w), 1, k)
        /\ offsetsBytes' = AllOffsets(w) /\ prev' = NewRecord1(w)
        /\ writes' = writes + 1 /\ Spoil /\ Failed(p, off)
        /\ UNCHANGED <<up, index, dataSize, chain, nPushed>>
  BY DEF FailWrite, FailAppend
<1>6. dataSize = Len(data) /\ data \in Seq(Int) /\ Len(data) \in Nat
  BY <1>1, LenProperties DEF Shared
<1>7. /\ Sound(new, Len(data \o Entry(w)))
      /\ Agrees(Shown(data \o Entry(w), new), Overlay(written, p, off),
                (zeroed \ (off .. off + Len(p) - 1)) \cup ZerosOf(p, off))
  BY <1>1, <1>3, IndexWritten DEF Appends
<1> HIDE DEF w, new
<1> DEFINE e == Entry(w)
<1>8. /\ data' \in Seq(Int) /\ Len(data') = Len(data) + k /\ Keeps(data', data, Len(data))
      /\ k = 0 => data' = data
      /\ k = Len(e) => data' = data \o e
  <2> DEFINE more == data \o SubSeq(e, 1, k)
  <2>1. data' = more /\ e \in Seq(Int) /\ k \in 0 .. Len(e)
    BY <1>4, <1>5
  <2> HIDE DEF e
  <2>2. /\ more \in Seq(Int) /\ Len(more) = Len(data) + k /\ Keeps(more, data, Len(data))
        /\ k = 0 => more = data
        /\ k = Len(e) => more = data \o e
    BY <1>6, <2>1, AppendedPart
  <2> HIDE DEF more
  <2>3. QED
    BY <2>1, <2>2
<1>9. Len(data) <= Len(data')
  BY <1>6, <1>8
<1>10. Shared' /\ Content' = Content
  BY <1>1, <1>4, <1>5, <1>8, <1>9, SharedFail
<1>11. ASSUME ~Torn' PROVE k = 0 \/ k = Len(e)
  <2> DEFINE n == Len(AllOffsets(w)) - Parent.inOffsets
             l == Len(w.bytes)
             z == Len(data)
  <2>1. Parent' = Parent
    BY <1>5 DEF Parent, Level
  <2>2. failed' = TRUE /\ prev'.length = l /\ dataSize' = z
        /\ Len(offsetsBytes') - Parent'.inOffsets = n
    BY <1>4, <1>5, <1>6, <2>1 DEF Failed
  <2> HIDE DEF n, l, z
  <2>3. Len(data') = z \/ Len(data') = z + (7 + l + n)
    <3>1. Len(data') \in {z, z + 7 + l + n}
      BY <1>11, <2>2 DEF Torn
    <3>2. l \in Nat /\ n \in Nat /\ z \in Nat
      BY <1>4, <1>6 DEF l, n, z
    <3>3. QED
      BY ONLY <3>1, <3>2
  <2>4. Len(e) = 7 + l + n
    BY <1>4 DEF l, n
  <2>5. Len(e) \in Nat /\ k \in Nat
    BY <1>4, LenProperties
  <2> HIDE DEF e
  <2>6. z + k = z \/ z + k = z + Len(e)
    BY <1>8, <2>3, <2>4 DEF z
  <2>7. z \in Nat
    BY <1>6 DEF z
  <2>8. QED
    BY ONLY <2>5, <2>6, <2>7
<1>12. Len(data') \in Nat /\ nPushed \in 0 .. writes' /\ nPushed + 1 \in 0 .. writes'
  BY <1>5, <1>8, LenProperties DEF One
<1>13. ASSUME k = 0
       PROVE  \E o : LogOf(at, data', o, nPushed) /\ LoadsFine(PutOffsets(NoRecords, o))'
  <2>1. PICK o : o = offsetsBytes
    OBVIOUS
  <2> DEFINE s == PutOffsets(NoRecords, o)
  <2>2. LogOf(at, data', o, nPushed) /\ s.index = index /\ s.prev = prev
    BY <1>2, <1>8, <1>13, <2>1 DEF Whole1
  <2>3. s.index = index /\ s.prev = prev /\ prev \in Records
    BY <1>1, <2>2 DEF Shared
  <2> HIDE DEF s
  <2>4. Sound(index, Len(data'))
    <3>1. dataSize <= Len(data') /\ Sound(index, dataSize) /\ dataSize \in Nat
      BY <1>1, <1>6, <1>9 DEF Shared
    <3>2. QED
      BY <1>12, <3>1 DEF Sound, WellFormed
  <2>5. LoadsFine(s)'
    BY <1>5, <2>3, <2>4 DEF LoadsFine
  <2>6. QED
    BY <2>2, <2>5 DEF s
<1>14. ASSUME k = Len(e)
       PROVE  \E new1, o : LogOf(new1, data', o, nPushed + 1) /\ LoadsFine(PutOffsets(NoRecords, o))'
  <2>1. PICK o : o = AllOffsets(w)
    OBVIOUS
  <2>2. PICK new1 : new1 = More(at, nPushed, ParentPtr(w))
    OBVIOUS
  <2>3. data' = data \o Entry(w)
    BY <1>8, <1>14
  <2>4. LogOf(new1, data', o, nPushed + 1)
    BY <1>3, <2>1, <2>2, <2>3 DEF Appends
  <2> DEFINE s == PutOffsets(NoRecords, o)
  <2>5. s.index = new /\ s.prev = NewRecord1(w)
    BY <1>3, <2>1 DEF Appends, new
  <2> HIDE DEF s
  <2>6. Agrees(Shown(data', new), limbo', zeroed')
    BY <1>5, <1>7, <2>3 DEF Failed, Agrees
  <2>7. ContentOf(s.index)' = Shown(data', s.index)
    BY ContentIsShownNext
  <2>8. LoadsFine(s)'
    BY <1>4, <1>7, <2>3, <2>5, <2>6, <2>7 DEF LoadsFine
  <2>9. QED
    BY <2>4, <2>8 DEF s
<1>15. ASSUME ~Torn'
       PROVE  \E at1, o : \E i \in 0 .. writes' :
                LogOf(at1, data', o, i) /\ LoadsFine(PutOffsets(NoRecords, o))'
  BY <1>11, <1>12, <1>13, <1>14, <1>15
<1>16. writes' \in 0 .. MaxWrites /\ nPushed' \in Nat /\ nPushed' <= writes' /\ broken'
  BY <1>1, <1>5, SparseAssumption DEF One, MayWrite, Spoil
<1>17. QED
  BY <1>10, <1>15, <1>16 DEF One

\* A start: the log that is read back is what the process had, or has the entry
\* of the write that failed, and it gives the chain of all its entries.
LEMMA OpenOne ==
  ASSUME One, kind = 1, TornRefused, Open1 \/ OpenEmpty1
  PROVE  One'
<1>1. Opens1
  BY DEF Open1, OpenEmpty1, Opens1
<1>2. Shared /\ writes \in 0 .. MaxWrites /\ nPushed \in 0 .. writes
  BY DEF One
<1>3. PICK at, o : \E k \in 0 .. writes : LogOf(at, data, o, k) /\ LoadsFine(PutOffsets(NoRecords, o))
  <2>1. CASE broken
    BY <1>1, <2>1 DEF One, TornRefused
  <2>2. CASE ~broken
    <3>1. PICK at : Whole1(at)
      BY <2>2 DEF One
    <3> DEFINE s == PutOffsets(NoRecords, offsetsBytes)
    <3>2. LogOf(at, data, offsetsBytes, nPushed) /\ s.index = index /\ s.prev = prev
      BY <3>1 DEF Whole1
    <3> HIDE DEF s
    <3>3. LogOf(at, data, offsetsBytes, nPushed) /\ LoadsFine(s)
      BY <1>2, <2>2, <3>2 DEF Shared, LoadsFine
    <3>4. QED
      BY <1>2, <3>3 DEF s
  <2>3. QED
    BY <1>2, <2>1, <2>2 DEF Shared
<1>4. PICK k \in 0 .. writes : LogOf(at, data, o, k) /\ LoadsFine(PutOffsets(NoRecords, o))
  BY <1>3
<1>5. k \in Nat /\ k <= MaxWrites /\ k <= writes
  BY <1>2, SparseAssumption
<1> DEFINE s == PutOffsets(NoRecords, o)
<1>6. /\ data = << >> <=> k = 0
      /\ k # 0 => /\ Walk.offsets = o /\ Len(o) \div 3 = k /\ Loaded1 = s
                  /\ ChainIs(RestoredChain(Walk.elements, Walk.sizes), at, k)
  BY <1>4, <1>5, LogOpens
<1>7. ASSUME k = 0 PROVE o = << >> /\ s = NoRecords
  <2>1. o \in Seq(Int) /\ Len(o) = 0
    BY <1>4, <1>7 DEF LogOf
  <2>2. o = << >>
    BY <2>1, EmptySeq
  <2>3. QED
    BY <2>2, NothingPut DEF PutNothing
<1> HIDE DEF s
<1>8. Reopened(s) /\ offsetsBytes' = o /\ nPushed' = k /\ ChainIs(chain', at, k)
  <2>1. CASE Open1
    BY <1>6, <2>1 DEF Open1
  <2>2. CASE OpenEmpty1
    <3>1. k = 0
      BY <1>6, <2>2 DEF OpenEmpty1
    <3>2. QED
      BY <1>7, <2>2, <3>1 DEF OpenEmpty1, NoRecords, ChainIs
  <2>3. QED
    BY <2>1, <2>2
<1>9. LoadsFine(s)
  BY <1>4 DEF s
<1>10. Shared'
  BY <1>2, <1>8, <1>9, SharedReopen
<1>11. /\ data' = data /\ broken' = FALSE /\ writes' = writes
       /\ index' = s.index /\ prev' = s.prev
  BY <1>8 DEF Reopened
<1>12. Whole1(at)'
  BY <1>4, <1>8, <1>11 DEF Whole1, s
<1>13. QED
  BY <1>2, <1>5, <1>8, <1>10, <1>11, <1>12 DEF One

\* Steps that leave the data, the chain and the index.
LEMMA SameOne ==
  ASSUME One, Shared', writes' \in 0 .. MaxWrites, writes <= writes',
         UNCHANGED <<data, index, prev, dataSize, broken, chainVars>>,
         broken => UNCHANGED <<limbo, zeroed, failed>>
  PROVE  One'
<1>1. UNCHANGED <<offsetsBytes, chain, nPushed, data, index, prev, dataSize, broken>>
  BY DEF chainVars
<1>2. nPushed' \in Nat /\ nPushed' <= writes'
  BY <1>1, SparseAssumption DEF One
<1>3. ASSUME ~broken' PROVE \E at : Whole1(at)'
  <2>1. PICK at : Whole1(at)
    BY <1>1, <1>3 DEF One
  <2>2. Whole1(at)'
    BY <1>1, <2>1 DEF Whole1
  <2>3. QED
    BY <2>2
<1>4. ASSUME broken', ~Torn'
      PROVE  \E at, o : \E k \in 0 .. writes' :
               LogOf(at, data', o, k) /\ LoadsFine(PutOffsets(NoRecords, o))'
  <2>1. broken /\ UNCHANGED <<limbo, zeroed, failed>>
    BY <1>1, <1>4
  <2>2. Parent' = Parent
    BY <1>1 DEF Parent, Level
  <2>3. ~Torn
    BY <1>1, <1>4, <2>1, <2>2 DEF Torn
  <2>4. PICK at, o : \E k \in 0 .. writes :
                       LogOf(at, data, o, k) /\ LoadsFine(PutOffsets(NoRecords, o))
    BY <2>1, <2>3 DEF One
  <2>5. PICK k \in 0 .. writes : LogOf(at, data, o, k) /\ LoadsFine(PutOffsets(NoRecords, o))
    BY <2>4
  <2>6. k \in 0 .. writes'
    BY SparseAssumption DEF One
  <2> DEFINE s == PutOffsets(NoRecords, o)
  <2>7. LoadsFine(s)
    BY <2>5
  <2> HIDE DEF s
  <2>8. LoadsFine(s)'
    BY <1>1, <2>1, <2>7 DEF LoadsFine, ContentOf
  <2>9. QED
    BY <1>1, <2>5, <2>6, <2>8 DEF s
<1>5. QED
  BY <1>2, <1>3, <1>4 DEF One

\* Closing, and writes that store nothing.
LEMMA OthersOne ==
  ASSUME One, UNCHANGED chainVars,
         \/ Close
         \/ \E p \in Payloads, off \in Nat : SkipZeros(p, off)
         \/ UNCHANGED <<data, up, memory, writes, history>>
  PROVE  One'
<1>0. Shared /\ writes \in 0 .. MaxWrites /\ writes \in Int
  BY SparseAssumption DEF One
<1>1. CASE Close
  <2>1. Shared'
    BY <1>0, <1>1, SharedClose
  <2>2. UNCHANGED <<data, index, prev, dataSize, broken, limbo, zeroed, failed, writes>>
    BY <1>1 DEF Close, memory, history
  <2>3. QED
    BY <1>0, <2>1, <2>2, SameOne
<1>2. CASE \E p \in Payloads, off \in Nat : SkipZeros(p, off)
  <2>1. PICK p \in Payloads, off \in Nat : SkipZeros(p, off)
    BY <1>2
  <2>2. Shared'
    BY <1>0, <2>1, SharedSkip
  <2>3. UNCHANGED <<data, index, prev, dataSize, broken>> /\ ~broken
        /\ writes' = writes + 1 /\ writes < MaxWrites
    BY <2>1 DEF SkipZeros, memory, MayWrite
  <2>4. writes' \in 0 .. MaxWrites /\ writes <= writes'
    BY <1>0, <2>3, SparseAssumption
  <2>5. QED
    BY <2>2, <2>3, <2>4, SameOne
<1>3. CASE UNCHANGED <<data, up, memory, writes, history>>
  <2>1. UNCHANGED <<data, index, prev, dataSize, broken, limbo, zeroed, failed, up, written, writes>>
    BY <1>3 DEF memory, history
  <2>2. Shared'
    BY <1>0, <2>1 DEF Shared, Content, ContentOf
  <2>3. QED
    BY <1>0, <2>1, <2>2, SameOne
<1>4. QED
  BY <1>1, <1>2, <1>3

\* Every step.
LEMMA NextIsOne ==
  ASSUME One, kind = 1, TornRefused, Next1
  PROVE  One'
<1>1. ASSUME NEW p \in Payloads, NEW off \in 0 .. Size - 1,
             \/ SkipZeros(p, off) /\ UNCHANGED chainVars
             \/ WriteAt1(p, off)
             \/ FailWrite(p, off)
      PROVE  One'
  <2>1. off \in Nat
    BY SparseAssumption
  <2>2. QED
    BY <1>1, <2>1, OthersOne, WriteOne, FailOne
<1>2. CASE Close /\ UNCHANGED chainVars
  BY <1>2, OthersOne
<1>3. CASE OpenEmpty1 \/ Open1
  BY <1>3, OpenOne
<1>4. QED
  BY <1>1, <1>2, <1>3 DEF Next1

\* One file is a log of entries, whatever is appended, fails or is opened again,
\* as long as no torn entry is taken for a whole one (which the run finds true of
\* its payloads; bytes that look like the end of an entry would make it false).
THEOREM OneFileInvariant == Spec /\ []TornRefused => [](kind = 1 => One)
<1>1. Init => (kind = 1 => One)
  BY InitOne DEF Init
<1>2. (kind = 1 => One) /\ TornRefused /\ [Next]_vars => (kind = 1 => One)'
  <2> SUFFICES ASSUME kind = 1 => One, TornRefused, [Next]_vars, kind' = 1 PROVE One'
    OBVIOUS
  <2>1. CASE Next
    <3>1. kind = 1 /\ Next1
      BY <2>1 DEF Next
    <3>2. QED
      BY <3>1, NextIsOne
  <2>2. CASE UNCHANGED vars
    <3>1. kind = 1 /\ UNCHANGED chainVars /\ UNCHANGED <<data, up, memory, writes, history>>
      BY <2>2 DEF vars
    <3>2. QED
      BY <3>1, OthersOne
  <2>3. QED
    BY <2>1, <2>2
<1>3. QED
  BY <1>1, <1>2, PTL DEF Spec

\* A file that is not torn opens.
LEMMA OneOpens == One /\ ~Torn => Opens1
<1> SUFFICES ASSUME One, ~Torn PROVE Opens1
  OBVIOUS
<1>1. broken \in BOOLEAN /\ writes \in 0 .. MaxWrites /\ nPushed \in 0 .. writes
  BY DEF One, Shared
<1>2. \E at, o : \E k \in 0 .. writes : LogOf(at, data, o, k)
  <2>1. CASE broken
    BY <2>1 DEF One
  <2>2. CASE ~broken
    BY <1>1, <2>2 DEF One, Whole1
  <2>3. QED
    BY <1>1, <2>1, <2>2
<1>3. PICK at, o : \E k \in 0 .. writes : LogOf(at, data, o, k)
  BY <1>2
<1>4. PICK k \in 0 .. writes : LogOf(at, data, o, k)
  BY <1>3
<1>5. k \in Nat /\ k <= MaxWrites
  BY <1>1, SparseAssumption
<1>6. QED
  BY <1>4, <1>5, LogOpens

\* The chain is that of all entries.
LEMMA WholeChain ==
  ASSUME nPushed \in Nat, NEW at, Whole1(at)
  PROVE  /\ ~ChainPanics
         /\ \A j \in DOMAIN chain :
              chain[j].inOffsets = Len(offsetsBytes) - 3 * (nPushed % pow2[j])
         /\ pow2[Len(chain)] <= Max({nPushed, 1}) /\ nPushed < pow2[Len(chain) + 1]
<1>1. ~ChainPanics
  BY ChainParent DEF Whole1
<1>2. Len(offsetsBytes) = 3 * nPushed /\ ChainIs(chain, at, nPushed)
  BY DEF Whole1, LogOf
<1>3. Max({nPushed, 1}) = IF nPushed <= 1 THEN 1 ELSE nPushed
  BY MaxOfTwo
<1>4. CASE nPushed = 0
  <2>1. chain = << >> /\ DOMAIN << >> = {} /\ Len(<< >>) = 0
    BY <1>2, <1>4 DEF ChainIs
  <2>2. pow2[0] = 1 /\ pow2[0 + 1] = 2
    BY Pow2
  <2>3. QED
    BY <1>1, <1>3, <1>4, <2>1, <2>2
<1>5. CASE nPushed # 0
  <2>1. PICK l \in Nat : pow2[l] <= nPushed /\ nPushed < pow2[l + 1] /\ chain = ChainOf(at, nPushed, l)
    BY <1>2, <1>5 DEF ChainIs
  <2>2. Len(chain) = l /\ DOMAIN chain = 1 .. l
        /\ \A j \in 1 .. l : chain[j] = Elem(3 * Cleared(nPushed, j), at[Cleared(nPushed, j)])
    BY <2>1 DEF ChainOf
  <2>3. ASSUME NEW j \in 1 .. l
        PROVE  chain[j].inOffsets = Len(offsetsBytes) - 3 * (nPushed % pow2[j])
    <3> DEFINE r == nPushed % pow2[j]
    <3>1. chain[j].inOffsets = 3 * Cleared(nPushed, j)
      BY <2>2 DEF Elem
    <3>2. Cleared(nPushed, j) = nPushed - r
      BY DEF Cleared
    <3>3. r \in Int
      <4>1. j \in Nat
        OBVIOUS
      <4>2. pow2[j] \in Nat \ {0}
        BY <4>1, Pow2
      <4> DEFINE b == pow2[j]
      <4> HIDE DEF b
      <4>3. nPushed % b \in Int
        BY <4>2 DEF b
      <4>4. QED
        BY <4>3 DEF b
    <3> HIDE DEF r
    <3>4. chain[j].inOffsets = Len(offsetsBytes) - 3 * r
      BY <1>2, <3>1, <3>2, <3>3
    <3>5. QED
      BY <3>4 DEF r
  <2>4. pow2[Len(chain)] <= Max({nPushed, 1})
    BY <1>3, <1>5, <2>1, <2>2
  <2>5. QED
    BY <1>1, <2>1, <2>2, <2>3, <2>4
<1>6. QED
  BY <1>4, <1>5

\* One says what the runs check.
LEMMA OneMeans ==
  kind = 1 /\ One =>
    /\ IndexIsSound /\ ReadsLastWrite /\ (TornRefused => OpensUnlessTorn)
    /\ ChainHasLatest /\ WalkIsShort
<1> SUFFICES ASSUME kind = 1, One
             PROVE  /\ IndexIsSound /\ ReadsLastWrite /\ (TornRefused => OpensUnlessTorn)
                    /\ ChainHasLatest /\ WalkIsShort
  OBVIOUS
<1>1. IndexIsSound /\ ReadsLastWrite
  BY SharedMeans DEF One
<1>2. TornRefused => OpensUnlessTorn
  <2>1. ~Torn => Opens1
    BY OneOpens
  <2>2. Torn \in BOOLEAN /\ Opens1 \in BOOLEAN
    BY DEF Torn, Opens1
  <2>3. QED
    BY <2>1, <2>2 DEF TornRefused, OpensUnlessTorn
<1>3. ChainHasLatest
  <2> SUFFICES ASSUME ~broken
               PROVE  /\ ~ChainPanics
                      /\ \A j \in DOMAIN chain :
                           chain[j].inOffsets = Len(offsetsBytes) - 3 * (nPushed % pow2[j])
                      /\ pow2[Len(chain)] <= Max({nPushed, 1}) /\ nPushed < pow2[Len(chain) + 1]
    BY Zenon DEF ChainHasLatest
  <2>1. PICK at : Whole1(at)
    BY DEF One
  <2>2. nPushed \in Nat
    BY DEF One
  <2>3. QED
    BY <2>1, <2>2, WholeChain
<1>4. WalkIsShort
  <2> SUFFICES ASSUME ~broken, data # << >>
               PROVE  Len(Walk.sizes) = Cardinality(Bits(nPushed))
    BY Zenon DEF WalkIsShort, Bits
  <2>1. PICK at : Whole1(at)
    BY DEF One
  <2>2. nPushed \in Nat /\ nPushed <= MaxWrites
    BY SparseAssumption DEF One
  <2>3. LogOf(at, data, offsetsBytes, nPushed)
    BY <2>1 DEF Whole1
  <2>4. QED
    BY <2>2, <2>3, LogOpens
<1>5. QED
  BY <1>1, <1>2, <1>3, <1>4

-----------------------------------------------------------------------------
(* Sparse files of either kind                                             *)

\* A file stays of its kind.
LEMMA KindStays == Spec => [](kind \in {1, 2})
<1>1. Init => kind \in {1, 2}
  BY DEF Init
<1>2. kind \in {1, 2} /\ [Next]_vars => (kind \in {1, 2})'
  BY DEF Next, vars
<1>3. QED
  BY <1>1, <1>2, PTL DEF Spec

\* No two chunks of the index share a byte, and each names bytes that the data
\* file has, after any failure and any start.
THEOREM FilesIndexed == Spec /\ []TornRefused => []IndexIsSound
<1>1. kind \in {1, 2} /\ (kind = 1 => One) /\ (kind = 2 => Two) => IndexIsSound
  BY OneMeans, TwoMeans
<1>2. QED
  BY <1>1, KindStays, OneFileInvariant, TwoFilesInvariant, PTL

\* Each byte reads as the last write that was acknowledged left it, or, after a
\* failed write and a start, as that one would have; zeros that WriteAt left out
\* are the only exception.
THEOREM FilesReadWrites == Spec /\ []TornRefused => []ReadsLastWrite
<1>1. kind \in {1, 2} /\ (kind = 1 => One) /\ (kind = 2 => Two) => ReadsLastWrite
  BY OneMeans, TwoMeans
<1>2. QED
  BY <1>1, KindStays, OneFileInvariant, TwoFilesInvariant, PTL

\* A start refuses one file only with a torn entry, and two files only when a
\* write has failed.  (That it does refuse a torn entry is the hypothesis.)
THEOREM FilesOpen == Spec /\ []TornRefused => []OpensUnlessTorn
<1>1. /\ kind \in {1, 2} /\ (kind = 1 => One) /\ (kind = 2 => Two) /\ TornRefused
      => OpensUnlessTorn
  BY OneMeans, TwoMeans
<1>2. QED
  BY <1>1, KindStays, OneFileInvariant, TwoFilesInvariant, PTL

\* The level for 2^j of the chain has the last entry whose number 2^j divides,
\* also after a start, and neither push nor parent panics, after any number of
\* writes.
THEOREM FilesChain == Spec /\ []TornRefused => []ChainHasLatest
<1>1. kind \in {1, 2} /\ (kind = 1 => One) => ChainHasLatest
  BY OneMeans DEF ChainHasLatest
<1>2. QED
  BY <1>1, KindStays, OneFileInvariant, PTL

\* A start on a file of k writes reads as many entries as k has bits.
THEOREM FilesWalk == Spec /\ []TornRefused => []WalkIsShort
<1>1. kind \in {1, 2} /\ (kind = 1 => One) => WalkIsShort
  BY OneMeans DEF WalkIsShort
<1>2. QED
  BY <1>1, KindStays, OneFileInvariant, PTL

\* As long as no write fails nothing is torn, whatever the payloads are.
THEOREM FilesWithoutFailures ==
  Spec /\ []~failed =>
    [](IndexIsSound /\ ReadsLastWrite /\ OpensUnlessTorn /\ ChainHasLatest /\ WalkIsShort)
<1>1. ~failed => TornRefused
  BY DEF TornRefused, Torn
<1>2. QED
  BY <1>1, FilesIndexed, FilesReadWrites, FilesOpen, FilesChain, FilesWalk, PTL
=============================================================================
