------------------------ MODULE SiaPersistenceProofs ------------------------
(***************************************************************************)
(* Proofs about sia3c: the files over the sectors of the manager, the keys *)
(* over the files, the saves and the starts, for any clients, keys, values *)
(* and bounds.                                                             *)
(***************************************************************************)
EXTENDS SiaPersistence, TLAPS, SequenceTheorems, NaturalsInduction, WellFoundedInduction

-----------------------------------------------------------------------------
(* The least and the greatest of some numbers                              *)

LEMMA LeastOfNat ==
  ASSUME NEW S, S \subseteq Nat, S # {}
  PROVE  \E x \in S : \A y \in S : x <= y
<1> DEFINE R == OpToRel(<, Nat)
<1>1. IsWellFoundedOn(R, Nat)
  BY NatLessThanWellFounded
<1>2. R = {ss \in Nat \X Nat : ss[1] < ss[2]}
  BY Zenon DEF OpToRel
<1> HIDE DEF R
<1>3. PICK x \in S : \A y \in S : ~(<<y, x>> \in R)
  BY <1>1, WFMin
<1>4. ASSUME NEW y \in S PROVE x <= y
  <2>1. x \in Nat /\ y \in Nat /\ ~(<<y, x>> \in {ss \in Nat \X Nat : ss[1] < ss[2]})
    BY <1>2, <1>3
  <2>2. QED
    BY ONLY <2>1
<1>5. QED
  BY <1>4

LEMMA GreatestOfNat ==
  ASSUME NEW S, NEW n \in Nat, S \subseteq 0 .. n, S # {}
  PROVE  \E x \in S : \A y \in S : y <= x
<1> DEFINE T == {n - y : y \in S}
<1>1. T \subseteq Nat /\ T # {}
  <2>1. \A y \in S : y \in 0 .. n
    OBVIOUS
  <2>2. \A y \in 0 .. n : n - y \in Nat
    OBVIOUS
  <2>3. QED
    BY <2>1, <2>2
<1>2. PICK t \in T : \A u \in T : t <= u
  BY <1>1, LeastOfNat
<1>3. PICK x \in S : t = n - x
  BY <1>2
<1>4. ASSUME NEW y \in S PROVE y <= x
  <2>1. n - x <= n - y /\ x \in 0 .. n /\ y \in 0 .. n
    BY <1>2, <1>3
  <2>2. QED
    BY ONLY <2>1, n \in Nat
<1>5. QED
  BY <1>4

-----------------------------------------------------------------------------
(* Read, a fold of the community modules                                   *)

NothingRead == [fbegin |-> 0, answer |-> Answer(<< >>)]

\* The function on sets of places that the fold is defined by.
ReadStep(f, q, b, e, s) ==
  IF s = {} THEN NothingRead ELSE Add(f[s \ {Max(s)}], q[Max(s)], b, e)
Reads(f, q, b, e, D) == f = [s \in SUBSET D |-> ReadStep(f, q, b, e, s)]
Reading(q, b, e, D) == CHOOSE f : Reads(f, q, b, e, D)

\* One step of it.
LEMMA ReadUnfolds ==
  ASSUME NEW f, NEW q, NEW b, NEW e, NEW D, Reads(f, q, b, e, D), NEW s \in SUBSET D
  PROVE  f[s] = ReadStep(f, q, b, e, s)
<1>1. f = [t \in SUBSET D |-> ReadStep(f, q, b, e, t)]
  BY DEF Reads
<1>2. QED
  BY <1>1

\* The last of some places.
LEMMA MaxOfPlaces ==
  ASSUME NEW n \in Nat, NEW s \in SUBSET (1 .. n), s # {}
  PROVE  Max(s) \in s /\ \A y \in s : y <= Max(s)
<1>1. s \subseteq 0 .. n
  OBVIOUS
<1>2. \E x \in s : \A y \in s : y <= x
  BY <1>1, GreatestOfNat
<1>3. \E x \in s : \A y \in s : x >= y
  BY <1>2
<1>4. Max(s) \in s /\ \A y \in s : Max(s) >= y
  BY <1>3 DEF Max
<1>5. QED
  BY <1>4

\* A function for n places gives one for n + 1.
LEMMA ReadOneMore ==
  ASSUME NEW q, NEW b, NEW e, NEW n \in Nat, NEW f, Reads(f, q, b, e, 1 .. n)
  PROVE  \E g : Reads(g, q, b, e, 1 .. n + 1)
<1> DEFINE g == [s \in SUBSET (1 .. n + 1) |->
                   IF n + 1 \in s THEN Add(f[s \ {n + 1}], q[n + 1], b, e) ELSE f[s]]
           body(s) == ReadStep(g, q, b, e, s)
<1>0. n + 1 \in Nat
  OBVIOUS
<1>1. ASSUME NEW s \in SUBSET (1 .. n + 1) PROVE g[s] = body(s)
  <2>1. s # {} => Max(s) \in s /\ \A y \in s : y <= Max(s)
    BY <1>0, MaxOfPlaces
  <2>2. \A t \in SUBSET (1 .. n + 1) :
          g[t] = IF n + 1 \in t THEN Add(f[t \ {n + 1}], q[n + 1], b, e) ELSE f[t]
    OBVIOUS
  <2> HIDE DEF g
  <2>3. CASE n + 1 \in s
    <3>1. Max(s) = n + 1
      <4>1. Max(s) \in 1 .. n + 1 /\ n + 1 <= Max(s)
        BY <2>1, <2>3
      <4>2. QED
        BY ONLY <4>1, n \in Nat
    <3>2. s \ {n + 1} \in SUBSET (1 .. n + 1) /\ n + 1 \notin s \ {n + 1}
      OBVIOUS
    <3>3. g[s \ {n + 1}] = f[s \ {n + 1}]
      BY <2>2, <3>2
    <3>4. g[s] = Add(f[s \ {n + 1}], q[n + 1], b, e)
      BY <2>2, <2>3
    <3>5. QED
      BY <2>3, <3>1, <3>3, <3>4 DEF ReadStep
  <2>4. CASE n + 1 \notin s
    <3>1. s \in SUBSET (1 .. n)
      <4>1. \A y \in s : y \in 1 .. n + 1 /\ y # n + 1
        BY <2>4
      <4>2. QED
        BY <4>1
    <3>2. f[s] = ReadStep(f, q, b, e, s)
      <4> DEFINE D == 1 .. n
      <4>1. Reads(f, q, b, e, D) /\ s \in SUBSET D
        BY <3>1
      <4> HIDE DEF D
      <4>2. QED
        BY <4>1, ReadUnfolds
    <3>3. g[s] = f[s] /\ g[s \ {Max(s)}] = f[s \ {Max(s)}]
      <4>1. s \ {Max(s)} \in SUBSET (1 .. n + 1) /\ n + 1 \notin s \ {Max(s)}
        BY <2>4
      <4>2. QED
        BY <2>2, <2>4, <4>1
    <3>4. QED
      BY <3>2, <3>3 DEF ReadStep
  <2>5. QED
    BY <2>3, <2>4
<1>2. g = [s \in SUBSET (1 .. n + 1) |-> g[s]]
  OBVIOUS
<1> HIDE DEF g
<1>3. g = [s \in SUBSET (1 .. n + 1) |-> body(s)]
  BY <1>1, <1>2, Zenon
<1>4. QED
  BY <1>3 DEF Reads

\* There is one for any number of places: the least number without one follows
\* one that has one.
LEMMA ReadExists ==
  ASSUME NEW q, NEW b, NEW e, NEW n \in Nat
  PROVE  Reads(Reading(q, b, e, 1 .. n), q, b, e, 1 .. n)
<1> DEFINE Bad == {m \in Nat : ~ \E f : Reads(f, q, b, e, 1 .. m)}
<1>1. Bad = {}
  <2> SUFFICES ASSUME Bad # {} PROVE FALSE
    OBVIOUS
  <2>2. PICK m \in Bad : \A y \in Bad : m <= y
    BY LeastOfNat
  <2>3. m # 0
    <3>1. ASSUME m = 0 PROVE FALSE
      <4> DEFINE f == [s \in SUBSET {} |-> NothingRead]
                 body(s) == ReadStep(f, q, b, e, s)
      <4>1. \A s \in SUBSET {} : body(s) = NothingRead
        BY DEF ReadStep
      <4> HIDE DEF body
      <4>2. f = [s \in SUBSET {} |-> body(s)]
        BY <4>1
      <4> HIDE DEF f
      <4>3. Reads(f, q, b, e, {})
        BY <4>2 DEF Reads, body
      <4>4. 1 .. m = {}
        BY <3>1
      <4>5. QED
        BY <2>2, <4>3, <4>4
    <3>2. QED
      BY <3>1
  <2>4. m - 1 \in Nat /\ (m - 1) + 1 = m /\ ~(m <= m - 1)
    BY <2>3
  <2>5. m - 1 \notin Bad
    BY <2>2, <2>4
  <2>6. PICK f : Reads(f, q, b, e, 1 .. m - 1)
    BY <2>4, <2>5
  <2>7. \E g : Reads(g, q, b, e, 1 .. (m - 1) + 1)
    BY <2>4, <2>6, ReadOneMore
  <2>8. QED
    BY <2>2, <2>4, <2>7
<1>2. \E f : Reads(f, q, b, e, 1 .. n)
  BY <1>1
<1>3. QED
  BY <1>2 DEF Reading

\* What Read has after each piece.
Passes(g, q, b, e, n) ==
  /\ g[0] = NothingRead
  /\ \A k \in 1 .. n : g[k] = Add(g[k - 1], q[k], b, e)

LEMMA ReadPasses ==
  ASSUME NEW q, NEW n \in Nat, DOMAIN q = 1 .. n, NEW offset, NEW m
  PROVE  \E g : Passes(g, q, offset, offset + m, n) /\ ReadAt(q, offset, m) = g[n].answer
<1> DEFINE b == offset
           e == offset + m
           f == Reading(q, b, e, 1 .. n)
           g == [k \in 0 .. n |-> f[1 .. k]]
<1>1. ReadAt(q, b, m) = f[1 .. n].answer
  BY DEF ReadAt, FoldLeft, MapThenFoldSet, Reading, Reads, ReadStep, NothingRead
<1> HIDE DEF e
<1>2. \A s \in SUBSET (1 .. n) : f[s] = ReadStep(f, q, b, e, s)
  BY ReadExists, ReadUnfolds
<1> HIDE DEF f
<1>3. g[0] = NothingRead
  <2>1. 1 .. 0 = {} /\ g[0] = f[1 .. 0]
    OBVIOUS
  <2>2. QED
    BY <1>2, <2>1 DEF ReadStep
<1>4. ASSUME NEW k \in 1 .. n PROVE g[k] = Add(g[k - 1], q[k], b, e)
  <2>1. g[k] = f[1 .. k] /\ g[k - 1] = f[1 .. k - 1]
    OBVIOUS
  <2>2. 1 .. k \in SUBSET (1 .. n) /\ 1 .. k # {} /\ k \in 1 .. k
    <3>1. k \in 1 .. k /\ \A i \in 1 .. k : i \in 1 .. n
      OBVIOUS
    <3>2. QED
      BY <3>1
  <2>3. Max(1 .. k) = k
    <3>1. Max(1 .. k) \in 1 .. k /\ k <= Max(1 .. k)
      BY <2>2, MaxOfPlaces
    <3>2. QED
      BY <3>1
  <2>4. (1 .. k) \ {k} = 1 .. k - 1
    OBVIOUS
  <2>5. QED
    BY <1>2, <2>1, <2>2, <2>3, <2>4 DEF ReadStep
<1>5. g[n] = f[1 .. n]
  OBVIOUS
<1> HIDE DEF g
<1>6. QED
  BY <1>1, <1>3, <1>4, <1>5 DEF Passes, e

-----------------------------------------------------------------------------
(* Pieces and the sectors they are in                                      *)

\* What is written, and what Write may be given.
Byte == (UNION {Range(p) : p \in Payloads \cup Metas}) \cup {Zero}
Text == {p \in Seq(Byte) : Len(p) <= SectorSize}

Pieces ==
  [sector : Nat, offset : Nat, length : Nat, hashed : {TRUE}, hash : Text]
    \cup [sector : Nat, offset : {0}, length : Nat, hashed : {FALSE}]

\* What a sector holds: pr is the sector in progress, ss are the others.
Source(pr, ss, id) == IF id = pr.id THEN pr.data ELSE ss[id]

SectorsFine(pr, ss) ==
  /\ ss \in Seq(Seq(Byte)) /\ pr \in [id : Nat, data : Text]
  /\ pr.id # 0 => pr.id \in DOMAIN ss /\ ss[pr.id] = << >>
  /\ pr.id = 0 => pr.data = << >>

\* The sector of a piece is in progress or whole, and has its bytes.
PieceKept(pc, pr, ss) ==
  LET source == Source(pr, ss, pc.sector)
  IN /\ pc.sector \in DOMAIN ss
     /\ pc.sector # pr.id => Len(source) = SectorSize
     /\ pc.hashed => /\ pc.offset + pc.length <= Len(source)
                     /\ pc.hash = SubSeq(source, pc.offset + 1, pc.offset + pc.length)
     /\ ~pc.hashed => pc.sector # pr.id /\ pc.length < SectorSize

\* n bytes of text and of source are the same.
Same(text, at, source, from, n) == \A i \in 1 .. n : text[at + i] = source[from + i]

LEMMA SourceTyped ==
  ASSUME NEW pr, NEW ss, SectorsFine(pr, ss), NEW id \in DOMAIN ss
  PROVE  Source(pr, ss, id) \in Seq(Byte)
<1>1. ss[id] \in Seq(Byte)
  BY LenProperties, ElementOfSeq DEF SectorsFine
<1>2. QED
  BY <1>1 DEF Source, SectorsFine, Text

LEMMA PieceTyped ==
  ASSUME NEW pc \in Pieces
  PROVE  /\ pc.sector \in Nat /\ pc.offset \in Nat /\ pc.length \in Nat /\ pc.hashed \in BOOLEAN
         /\ pc.hashed => pc.hash \in Text
         /\ ~pc.hashed => pc.offset = 0
<1>1. CASE pc \in [sector : Nat, offset : Nat, length : Nat, hashed : {TRUE}, hash : Text]
  <2>1. /\ pc.sector \in Nat /\ pc.offset \in Nat /\ pc.length \in Nat
        /\ pc.hashed \in {TRUE} /\ pc.hash \in Text
    BY <1>1
  <2>2. QED
    BY <2>1
<1>2. CASE pc \in [sector : Nat, offset : {0}, length : Nat, hashed : {FALSE}]
  <2>1. /\ pc.sector \in Nat /\ pc.offset \in {0} /\ pc.length \in Nat
        /\ pc.hashed \in {FALSE}
    BY <1>2
  <2>2. pc.hashed = FALSE /\ pc.offset = 0
    BY <2>1
  <2>3. pc.offset \in Nat
    BY <2>2
  <2>4. ~pc.hashed /\ pc.hashed \in BOOLEAN
    BY <2>2, Zenon
  <2>5. QED
    BY <2>1, <2>2, <2>3, <2>4, Zenon
<1>3. QED
  BY <1>1, <1>2 DEF Pieces

\* A part of a piece is bytes of its sector or an error, and the whole is none.
LEMMA PartGives ==
  ASSUME NEW pc \in Pieces, SectorsFine(progress, sectors), PieceKept(pc, progress, sectors),
         pc.hashed => pc.length # 0,
         NEW from \in Nat, NEW to \in Nat, from <= to, to <= PieceLength(pc)
  PROVE  LET source == Source(progress, sectors, pc.sector)
             part == Part(pc, from, to)
         IN /\ part.ok => part.bytes = SubSeq(source, pc.offset + from + 1, pc.offset + to)
            /\ from = 0 /\ to = PieceLength(pc) => part.ok
<1> DEFINE source == Source(progress, sectors, pc.sector)
           part == Part(pc, from, to)
<1>1. source \in Seq(Byte) /\ Len(source) \in Nat
  BY SourceTyped, LenProperties DEF PieceKept
<1>2. SectorSize \in Nat /\ SectorSize > 1
  BY FilesAssumption
<1>3. /\ pc.sector \in DOMAIN sectors /\ pc.offset \in Nat /\ pc.length \in Nat
      /\ pc.hashed \in BOOLEAN
  BY PieceTyped DEF PieceKept
<1>4. CASE pc.sector = progress.id
  <2>1. source = progress.data /\ pc.hashed
    BY <1>3, <1>4 DEF Source, PieceKept
  <2>2. part = IF pc.offset + to > Len(progress.data) THEN Broken
               ELSE Answer(SubSeq(progress.data, pc.offset + from + 1, pc.offset + to))
    BY <1>4 DEF Part
  <2>3. pc.offset + PieceLength(pc) <= Len(source)
    BY <2>1 DEF PieceKept, PieceLength
  <2>4. to = PieceLength(pc) => ~(pc.offset + to > Len(source))
    BY <1>1, <1>3, <2>3
  <2> HIDE DEF source, part
  <2>5. part.ok => part.bytes = SubSeq(source, pc.offset + from + 1, pc.offset + to)
    BY <2>1, <2>2 DEF Broken, Answer
  <2>6. to = PieceLength(pc) => part.ok
    BY <2>1, <2>2, <2>4 DEF Answer
  <2>7. QED
    BY <2>5, <2>6 DEF source, part
<1>5. CASE pc.sector # progress.id
  <2>1. source = sectors[pc.sector] /\ Len(source) = SectorSize /\ source # << >>
    <3>1. source = sectors[pc.sector] /\ Len(source) = SectorSize
      BY <1>5 DEF Source, PieceKept
    <3>2. QED
      BY <1>2, <3>1
  <2> DEFINE of == SubSeq(source, pc.offset + from + 1, pc.offset + to)
             refused == \/ pc.sector \notin DOMAIN sectors
                        \/ source = << >>
                        \/ pc.offset + to > SectorSize
                        \/ pc.hashed /\ of # pc.hash
  <2>2. part = IF refused THEN Broken ELSE Answer(of)
    BY <1>5, <2>1 DEF Part
  <2>3. ASSUME from = 0, to = PieceLength(pc) PROVE ~refused
    <3>1. pc.offset + to <= SectorSize
      <4>1. CASE pc.hashed
        BY <1>3, <2>1, <2>3, <4>1 DEF PieceKept, PieceLength
      <4>2. CASE ~pc.hashed
        <5>1. pc.offset = 0 /\ pc.length < SectorSize
          BY <4>2, PieceTyped DEF PieceKept
        <5>2. to <= SectorSize
          BY <1>2, <2>3, <5>1 DEF PieceLength
        <5>3. QED
          BY <1>2, <5>1, <5>2
      <4>3. QED
        BY <4>1, <4>2
    <3>2. pc.hashed => of = pc.hash
      <4>1. pc.offset + from + 1 = pc.offset + 1
        BY <1>3, <2>3
      <4>2. pc.hashed => pc.offset + to = pc.offset + pc.length
        BY <2>3 DEF PieceLength
      <4>3. QED
        BY <4>1, <4>2 DEF PieceKept
    <3>3. ~(pc.offset + to > SectorSize)
      BY <1>2, <1>3, <3>1
    <3>4. QED
      BY <1>3, <2>1, <3>2, <3>3
  <2> HIDE DEF refused, of, part
  <2>4. (part.ok => part.bytes = of) /\ (from = 0 /\ to = PieceLength(pc) => part.ok)
    BY <2>2, <2>3 DEF Broken, Answer
  <2>5. QED
    BY <2>4 DEF of, part
<1>6. QED
  BY <1>4, <1>5

LEMMA AnswerHolds == \A x : Answer(x).ok /\ Answer(x).bytes = x
BY DEF Answer

Least(x, y) == IF x <= y THEN x ELSE y

\* One turn of Read: what it has read so far is the part [b, e) of the file,
\* as far as the pieces go, and so it is with one piece more.
LEMMA AddGives ==
  ASSUME NEW pc \in Pieces, SectorsFine(progress, sectors), PieceKept(pc, progress, sectors),
         pc.hashed => pc.length # 0,
         NEW w \in Seq(Byte), NEW fb \in Nat, fb + PieceLength(pc) <= Len(w),
         Same(w, fb, Source(progress, sectors, pc.sector), pc.offset, PieceLength(pc)),
         NEW b \in Nat, NEW e \in Nat, b <= e, e <= Len(w),
         NEW read, read.fbegin = fb,
         read.answer.ok => read.answer = Answer(SubSeq(w, b + 1, Least(fb, e)))
  PROVE  LET r == Add(read, pc, b, e)
         IN /\ r.fbegin = fb + PieceLength(pc)
            /\ r.answer.ok => r.answer = Answer(SubSeq(w, b + 1, Least(fb + PieceLength(pc), e)))
            /\ b = 0 /\ e = Len(w) /\ read.answer.ok => r.answer.ok
<1> DEFINE len == PieceLength(pc)
           fe == fb + len
           source == Source(progress, sectors, pc.sector)
           touched == \/ b <= fb /\ fb < e
                      \/ fb <= b /\ b < fe
           begin == IF b > fb THEN b ELSE fb
           end == IF e < fe THEN e ELSE fe
           part == Part(pc, begin - fb, end - fb)
           r == Add(read, pc, b, e)
<1>1. len \in Nat /\ len > 0 /\ Len(w) \in Nat /\ pc.offset \in Nat
  <2>1. SectorSize \in Nat /\ SectorSize > 1 /\ pc.length \in Nat
    BY FilesAssumption, PieceTyped
  <2>2. QED
    BY <2>1, PieceTyped, LenProperties DEF PieceLength
<1>2. /\ r.fbegin = fe
      /\ r.answer = IF ~read.answer.ok \/ ~touched THEN read.answer
                    ELSE IF part.ok THEN Answer(read.answer.bytes \o part.bytes)
                    ELSE Broken
  BY DEF Add
<1> HIDE DEF r, len
<1>3. CASE ~touched
  <2>1. SubSeq(w, b + 1, Least(fb, e)) = SubSeq(w, b + 1, Least(fe, e))
    <3>1. CASE b <= fb
      BY <1>1, <1>3, <3>1 DEF Least
    <3>2. CASE b > fb
      <4>1. fe <= b
        BY <1>1, <1>3, <3>2
      <4>2. Least(fb, e) \in Int /\ Least(fe, e) \in Int /\ Least(fb, e) < b + 1 /\ Least(fe, e) < b + 1
        BY <1>1, <3>2, <4>1 DEF Least
      <4>3. QED
        BY <4>2, SubSeqEmpty
    <3>3. b <= fb \/ b > fb
      OBVIOUS
    <3>4. QED
      BY <3>1, <3>2, <3>3, Zenon
  <2>2. r.answer = read.answer
    BY <1>2, <1>3
  <2>3. QED
    BY <1>2, <2>1, <2>2 DEF r, len
<1>4. CASE touched
  <2>1. /\ begin \in Nat /\ end \in Nat /\ fb <= begin /\ begin <= end /\ end <= fe
        /\ end = Least(fe, e) /\ b <= begin
    BY <1>1, <1>4 DEF Least
  <2> HIDE DEF begin, end
  <2>2. begin - fb \in Nat /\ end - fb \in Nat /\ begin - fb <= end - fb /\ end - fb <= PieceLength(pc)
    BY <1>1, <2>1 DEF len
  <2>3. /\ part.ok => part.bytes = SubSeq(source, pc.offset + (begin - fb) + 1, pc.offset + (end - fb))
        /\ begin - fb = 0 /\ end - fb = PieceLength(pc) => part.ok
    BY <2>2, PartGives
  <2>4. SubSeq(source, pc.offset + (begin - fb) + 1, pc.offset + (end - fb)) = SubSeq(w, begin + 1, end)
    <3> DEFINE s == SubSeq(source, pc.offset + (begin - fb) + 1, pc.offset + (end - fb))
               t == SubSeq(w, begin + 1, end)
               n == end - begin
    <3>0. n \in Nat
      BY <2>1
    <3>1. \A i \in 1 .. n : /\ begin + i \in 1 .. Len(w)
                            /\ source[pc.offset + (begin - fb) + i] = w[begin + i]
      <4> SUFFICES ASSUME NEW i \in 1 .. n
                   PROVE  /\ begin + i \in 1 .. Len(w)
                          /\ source[pc.offset + (begin - fb) + i] = w[begin + i]
        OBVIOUS
      <4>1. fe <= Len(w)
        BY DEF len
      <4>2. (begin - fb) + i \in 1 .. len /\ begin + i \in 1 .. Len(w)
        BY <1>1, <2>1, <3>0, <4>1
      <4>3. /\ fb + ((begin - fb) + i) = begin + i
            /\ pc.offset + ((begin - fb) + i) = pc.offset + (begin - fb) + i
        BY <1>1, <2>1, <4>2
      <4>4. w[fb + ((begin - fb) + i)] = source[pc.offset + ((begin - fb) + i)]
        BY <4>2 DEF Same, len
      <4>5. QED
        BY <4>2, <4>3, <4>4
    <3>2. \A i \in 1 .. n : w[begin + i] \in Byte
      BY <3>1, ElementOfSeq
    <3>3. /\ t \in Seq(Byte) /\ Len(t) = n /\ \A i \in 1 .. n : t[i] = w[begin + i]
      <4>1. \A i \in begin + 1 .. end : w[i] \in Byte
        <5>1. \A i \in begin + 1 .. end : i - begin \in 1 .. n /\ begin + (i - begin) = i
          BY <2>1
        <5>2. QED
          BY <3>2, <5>1
      <4>2. begin + 1 \in Int /\ end \in Int
        BY <2>1
      <4>3. /\ t \in Seq(Byte) /\ Len(t) = IF begin + 1 <= end THEN end - (begin + 1) + 1 ELSE 0
            /\ \A i \in 1 .. end - (begin + 1) + 1 : t[i] = w[begin + 1 + i - 1]
        BY <4>1, <4>2, SubSeqProperties
      <4>4. end - (begin + 1) + 1 = n /\ \A i \in 1 .. n : begin + 1 + i - 1 = begin + i
        BY <2>1
      <4>5. Len(t) = n
        BY <2>1, <4>3
      <4> HIDE DEF t, n
      <4>6. QED
        BY <4>3, <4>4, <4>5
    <3>4. /\ s \in Seq(Byte) /\ Len(s) = n
          /\ \A i \in 1 .. n : s[i] = source[pc.offset + (begin - fb) + i]
      <4> DEFINE x == pc.offset + (begin - fb) + 1
                 y == pc.offset + (end - fb)
      <4>1. \A i \in x .. y : source[i] \in Byte
        <5>1. \A i \in x .. y : /\ i - x + 1 \in 1 .. n
                                /\ pc.offset + (begin - fb) + (i - x + 1) = i
          <6> DEFINE o == pc.offset
                     d == begin - fb
          <6>1. o \in Nat /\ d \in Int /\ n \in Int /\ end - fb = d + n
            BY <1>1, <2>1
          <6>2. x = o + d + 1 /\ y = o + (end - fb)
            OBVIOUS
          <6> HIDE DEF o, d, x, y, n
          <6>3. x \in Int /\ y \in Int /\ y = o + d + n
            BY <6>1, <6>2
          <6>4. \A i \in x .. y : i - x + 1 \in 1 .. n /\ o + d + (i - x + 1) = i
            BY <6>1, <6>2, <6>3
          <6>5. QED
            BY <6>4 DEF o, d
        <5>2. QED
          BY <3>1, <3>2, <5>1
      <4>2. x \in Int /\ y \in Int /\ y - x + 1 = n
        BY <1>1, <2>1
      <4>3. /\ s \in Seq(Byte) /\ Len(s) = IF x <= y THEN y - x + 1 ELSE 0
            /\ \A i \in 1 .. y - x + 1 : s[i] = source[x + i - 1]
        BY <4>1, <4>2, SubSeqProperties
      <4>4. \A i \in 1 .. n : x + i - 1 = pc.offset + (begin - fb) + i
        BY <1>1, <2>1
      <4>5. Len(s) = n
        BY <3>0, <4>2, <4>3
      <4> HIDE DEF s, n, x, y
      <4>6. QED
        BY <4>2, <4>3, <4>4, <4>5
    <3> HIDE DEF s, t, n
    <3>5. s = t
      <4>1. \A i \in 1 .. n : s[i] = t[i]
        BY <3>1, <3>3, <3>4, Zenon
      <4>2. Len(s) = Len(t) /\ \A i \in 1 .. Len(s) : s[i] = t[i]
        BY <3>3, <3>4, <4>1, Zenon
      <4>3. QED
        BY <3>3, <3>4, <4>2, SeqEqual
    <3>6. QED
      BY <3>5 DEF s, t
  <2>5. ASSUME read.answer.ok, part.ok
        PROVE  read.answer.bytes \o part.bytes = SubSeq(w, b + 1, end)
    <3>1. part.bytes = SubSeq(w, begin + 1, end) /\ read.answer.bytes = SubSeq(w, b + 1, Least(fb, e))
      <4>1. part.bytes = SubSeq(w, begin + 1, end)
        BY <2>3, <2>4, <2>5
      <4>2. read.answer = Answer(SubSeq(w, b + 1, Least(fb, e)))
        BY <2>5
      <4>3. read.answer.bytes = SubSeq(w, b + 1, Least(fb, e))
        BY <4>2, AnswerHolds, Zenon
      <4>4. QED
        BY <4>1, <4>3
    <3>2. SubSeq(w, b + 1, Least(fb, e)) = SubSeq(w, b + 1, begin)
      <4>1. CASE b <= fb /\ fb < e
        BY <4>1 DEF Least, begin
      <4>2. CASE fb <= b
        <5>1. Least(fb, e) \in Int /\ Least(fb, e) < b + 1 /\ begin = b
          BY <4>2 DEF Least, begin
        <5>2. QED
          BY <5>1, SubSeqEmpty
      <4>3. QED
        BY <1>4, <4>1, <4>2
    <3>3. SubSeq(w, b + 1, begin) \o SubSeq(w, begin + 1, end) = SubSeq(w, b + 1, end)
      <4>1. fe <= Len(w)
        BY DEF len
      <4>2. b + 1 \in 1 .. Len(w) + 1 /\ begin \in (b + 1) - 1 .. Len(w) /\ end \in begin .. Len(w)
        BY <1>1, <2>1, <4>1
      <4>3. QED
        BY <4>2, ConcatAdjacentSubSeq
    <3>4. QED
      BY <3>1, <3>2, <3>3
  <2>6. r.answer.ok => r.answer = Answer(SubSeq(w, b + 1, end))
    <3> HIDE DEF part
    <3>1. CASE ~read.answer.ok
      BY <1>2, <3>1
    <3>2. CASE read.answer.ok /\ ~part.ok
      BY <1>2, <1>4, <3>2 DEF Broken
    <3>3. CASE read.answer.ok /\ part.ok
      <4> DEFINE both == read.answer.bytes \o part.bytes
      <4>1. r.answer = Answer(both)
        BY <1>2, <1>4, <3>3
      <4>3. QED
        <5>1. read.answer.bytes \o part.bytes = SubSeq(w, b + 1, end)
          BY <2>5, <3>3
        <5>2. QED
          BY <4>1, <5>1
    <3>4. QED
      BY <3>1, <3>2, <3>3
  <2>7. ASSUME b = 0, e = Len(w), read.answer.ok PROVE r.answer.ok
    <3>1. fe <= Len(w)
      BY DEF len
    <3>2. begin - fb = 0 /\ end - fb = PieceLength(pc)
      BY <1>1, <2>7, <3>1 DEF begin, end, len
    <3>3. part.ok
      BY <2>3, <3>2
    <3> HIDE DEF part
    <3>4. QED
      BY <1>2, <1>4, <2>7, <3>3 DEF Answer
  <2>8. QED
    BY <1>2, <2>1, <2>6, <2>7 DEF r, len
<1>5. QED
  BY <1>3, <1>4

-----------------------------------------------------------------------------
(* Files                                                                   *)

\* Where the pieces of a file begin in it, and its end.
Laid(st, pieces, w, pr, ss) ==
  /\ st[1] = 0 /\ st[Len(pieces) + 1] = Len(w)
  /\ \A k \in 1 .. Len(pieces) + 1 : st[k] \in Nat /\ st[k] <= Len(w)
  /\ \A k \in 1 .. Len(pieces) :
       /\ st[k + 1] = st[k] + PieceLength(pieces[k])
       /\ Same(w, st[k], Source(pr, ss, pieces[k].sector), pieces[k].offset, PieceLength(pieces[k]))

FileObjects == [pieces : Seq(Pieces), size : Nat]

AllHaveBytes(pieces) == \A k \in 1 .. Len(pieces) : pieces[k].hashed => pieces[k].length # 0

\* The pieces of a file have the bytes w, in order.  A hashed piece of no bytes
\* stands for a whole sector to Read; one alone is harmless.
FileFine(fi, w, pr, ss) ==
  /\ fi \in FileObjects /\ w \in Seq(Byte) /\ fi.size = Len(w)
  /\ \A k \in 1 .. Len(fi.pieces) : PieceKept(fi.pieces[k], pr, ss)
  /\ Len(fi.pieces) = 1 /\ fi.pieces[1].hashed => w = fi.pieces[1].hash
  /\ AllHaveBytes(fi.pieces) => \E st : Laid(st, fi.pieces, w, pr, ss)

\* Read of a range of the file.
LEMMA ReadGives ==
  ASSUME NEW fi, NEW w, FileFine(fi, w, progress, sectors), SectorsFine(progress, sectors),
         AllHaveBytes(fi.pieces), NEW b \in Nat, NEW m \in Nat, b + m <= Len(w)
  PROVE  LET answer == ReadAt(fi.pieces, b, m)
         IN /\ answer.ok => answer = Answer(SubSeq(w, b + 1, b + m))
            /\ b = 0 /\ m = Len(w) => answer.ok
<1> DEFINE pieces == fi.pieces
           n == Len(pieces)
           e == b + m
<1>1. pieces \in Seq(Pieces) /\ w \in Seq(Byte)
  BY DEF FileFine, FileObjects
<1>2. n \in Nat /\ DOMAIN pieces = 1 .. n /\ Len(w) \in Nat
  BY <1>1, LenProperties
<1>3. PICK st : Laid(st, pieces, w, progress, sectors)
  BY DEF FileFine
<1>4. PICK g : Passes(g, pieces, b, b + m, n) /\ ReadAt(pieces, b, m) = g[n].answer
  BY <1>2, ReadPasses
<1>5. \A k \in 1 .. n : pieces[k] \in Pieces /\ PieceKept(pieces[k], progress, sectors)
  BY <1>1, ElementOfSeq DEF FileFine
<1>6. \A k \in 1 .. n : pieces[k].hashed => pieces[k].length # 0
  BY DEF AllHaveBytes
<1> HIDE DEF pieces, n
<1>7. g[0] = NothingRead /\ \A k \in 1 .. n : g[k] = Add(g[k - 1], pieces[k], b, e)
  BY <1>4 DEF Passes
<1>8. /\ st[1] = 0 /\ st[n + 1] = Len(w)
      /\ \A k \in 1 .. n + 1 : st[k] \in Nat /\ st[k] <= Len(w)
      /\ \A k \in 1 .. n :
           /\ st[k + 1] = st[k] + PieceLength(pieces[k])
           /\ Same(w, st[k], Source(progress, sectors, pieces[k].sector),
                   pieces[k].offset, PieceLength(pieces[k]))
  BY <1>3 DEF Laid, n
<1> DEFINE Right(k) ==
             /\ g[k].fbegin = st[k + 1]
             /\ g[k].answer.ok => g[k].answer = Answer(SubSeq(w, b + 1, Least(st[k + 1], e)))
             /\ b = 0 /\ e = Len(w) => g[k].answer.ok
           Wrong == {k \in Nat : k <= n /\ ~Right(k)}
<1>9. e \in Nat /\ b <= e /\ e <= Len(w)
  OBVIOUS
<1>10. Right(0)
  <2>1. SubSeq(w, b + 1, Least(0, e)) = << >>
    <3>1. Least(0, e) = 0
      BY <1>9 DEF Least
    <3>2. QED
      BY <3>1, SubSeqEmpty
  <2>2. /\ g[0].fbegin = 0 /\ g[0].answer = Answer(<< >>) /\ 0 + 1 = 1
    BY <1>7 DEF NothingRead
  <2>3. g[0].answer.ok
    BY <2>2 DEF Answer
  <2>4. QED
    BY <1>8, <2>1, <2>2, <2>3, Zenon
<1>11. ASSUME NEW k \in 1 .. n, Right(k - 1) PROVE Right(k)
  <2> DEFINE pc == pieces[k]
             fb == st[k]
             read == g[k - 1]
             r == Add(read, pc, b, e)
  <2>1. (k - 1) + 1 = k /\ k \in 1 .. n + 1 /\ k + 1 \in 1 .. n + 1
    BY <1>2
  <2>2. /\ pc \in Pieces /\ PieceKept(pc, progress, sectors)
        /\ pc.hashed => pc.length # 0
    BY <1>5, <1>6
  <2>3. /\ fb \in Nat /\ fb + PieceLength(pc) <= Len(w) /\ st[k + 1] = fb + PieceLength(pc)
        /\ Same(w, fb, Source(progress, sectors, pc.sector), pc.offset, PieceLength(pc))
    BY <1>8, <2>1
  <2>4. /\ read.fbegin = fb
        /\ read.answer.ok => read.answer = Answer(SubSeq(w, b + 1, Least(fb, e)))
        /\ b = 0 /\ e = Len(w) => read.answer.ok
    BY <1>11, <2>1
  <2>5. g[k] = r
    BY <1>7
  <2> HIDE DEF pc, fb, read, r, e
  <2>6. /\ Add(read, pc, b, e).fbegin = fb + PieceLength(pc)
        /\ Add(read, pc, b, e).answer.ok
             => Add(read, pc, b, e).answer = Answer(SubSeq(w, b + 1, Least(fb + PieceLength(pc), e)))
        /\ b = 0 /\ e = Len(w) /\ read.answer.ok => Add(read, pc, b, e).answer.ok
    BY <1>1, <1>9, <2>2, <2>3, <2>4, AddGives
  <2>7. QED
    BY <2>3, <2>4, <2>5, <2>6, Zenon DEF r
<1> HIDE DEF Right
<1>12. Wrong = {}
  <2> SUFFICES ASSUME Wrong # {} PROVE FALSE
    OBVIOUS
  <2>1. PICK k \in Wrong : \A y \in Wrong : k <= y
    BY LeastOfNat
  <2>2. k \in Nat /\ k <= n /\ ~Right(k)
    BY <2>1
  <2>3. k # 0
    BY <1>10, <2>2
  <2>4. k \in 1 .. n /\ k - 1 \in Nat /\ k - 1 <= n /\ ~(k <= k - 1)
    BY <1>2, <2>2, <2>3
  <2>5. k - 1 \notin Wrong
    BY <2>1, <2>4
  <2>6. QED
    BY <1>11, <2>2, <2>4, <2>5
<1>13. Right(n)
  BY <1>2, <1>12
<1>14. Least(st[n + 1], e) = e
  BY <1>8, <1>9 DEF Least
<1>15. /\ g[n].answer.ok => g[n].answer = Answer(SubSeq(w, b + 1, e))
       /\ b = 0 /\ e = Len(w) => g[n].answer.ok
  BY <1>13, <1>14, Zenon DEF Right
<1>16. b = 0 /\ m = Len(w) => e = Len(w)
  BY <1>2
<1>17. QED
  BY <1>4, <1>15, <1>16 DEF pieces

FilesFine(fs, ws, pr, ss) ==
  /\ SectorsFine(pr, ss)
  /\ fs \in Seq(FileObjects) /\ ws \in Seq(Seq(Byte)) /\ Len(fs) = Len(ws)
  /\ \A f \in 1 .. Len(fs) : FileFine(fs[f], ws[f], pr, ss)

\* A piece of no bytes that is alone in its file is read as it is.
LEMMA LoneEmptyPiece ==
  ASSUME NEW fi, NEW w, FileFine(fi, w, progress, sectors), SectorsFine(progress, sectors),
         Len(fi.pieces) = 1, fi.pieces[1].hashed, fi.pieces[1].length = 0
  PROVE  ReadAt(fi.pieces, 0, fi.size) = Answer(w)
<1> DEFINE pieces == fi.pieces
           pc == pieces[1]
           source == Source(progress, sectors, pc.sector)
<1>1. /\ pieces \in Seq(Pieces) /\ Len(pieces) = 1 /\ DOMAIN pieces = 1 .. 1
      /\ pc \in Pieces /\ PieceKept(pc, progress, sectors) /\ pc.hashed /\ pc.length = 0
  <2>1. pieces \in Seq(Pieces)
    BY DEF FileFine, FileObjects
  <2>2. pc \in Pieces /\ PieceKept(pc, progress, sectors)
    BY <2>1, ElementOfSeq DEF FileFine
  <2>3. QED
    BY <2>1, <2>2, LenProperties
<1>2. /\ pc.offset \in Nat /\ source \in Seq(Byte) /\ Len(source) \in Nat
      /\ pc.offset <= Len(source)
      /\ pc.hash = SubSeq(source, pc.offset + 1, pc.offset + pc.length)
  <2>1. pc.offset \in Nat /\ source \in Seq(Byte) /\ Len(source) \in Nat
    BY <1>1, PieceTyped, SourceTyped, LenProperties DEF PieceKept
  <2>2. pc.offset + pc.length = pc.offset
    BY <1>1, <2>1
  <2>3. QED
    BY <1>1, <2>1, <2>2 DEF PieceKept
<1>3. SubSeq(source, pc.offset + 0 + 1, pc.offset + 0) = << >> /\ pc.hash = << >>
  <2>1. pc.offset + 0 = pc.offset /\ pc.offset + pc.length = pc.offset /\ pc.offset < pc.offset + 1
    BY <1>1, <1>2
  <2>2. QED
    BY <1>2, <2>1, SubSeqEmpty
<1>4. w = << >> /\ fi.size = 0
  <2>1. w = << >>
    BY <1>1, <1>3 DEF FileFine
  <2>2. QED
    BY <2>1, EmptySeq DEF FileFine
<1>5. SectorSize \in Nat /\ SectorSize > 1
  BY FilesAssumption
<1>6. PieceLength(pc) = SectorSize
  BY <1>1 DEF PieceLength
<1>7. Part(pc, 0, 0) = Answer(<< >>)
  <2>1. CASE pc.sector = progress.id
    <3>1. source = progress.data /\ ~(pc.offset + 0 > Len(source))
      BY <1>2, <2>1 DEF Source
    <3>2. QED
      BY <1>3, <2>1, <3>1 DEF Part
  <2>2. CASE pc.sector # progress.id
    <3>1. /\ source = sectors[pc.sector] /\ Len(source) = SectorSize
          /\ pc.sector \in DOMAIN sectors
      BY <1>1, <2>2 DEF PieceKept, Source
    <3>2. source # << >> /\ ~(pc.offset + 0 > SectorSize)
      BY <1>2, <1>5, <3>1
    <3> HIDE DEF pc, source
    <3>3. QED
      BY <1>3, <2>2, <3>1, <3>2 DEF Part
  <2>3. QED
    BY <2>1, <2>2
<1>8. PICK g : Passes(g, pieces, 0, 0 + 0, 1) /\ ReadAt(pieces, 0, 0) = g[1].answer
  <2>1. 1 \in Nat /\ DOMAIN pieces = 1 .. 1
    BY <1>1
  <2> DEFINE z == 0
             one == 1
  <2>2. z \in Nat /\ one \in Nat /\ DOMAIN pieces = 1 .. one
    BY <2>1
  <2> HIDE DEF pieces, z, one
  <2>3. \E g : Passes(g, pieces, z, z + z, one) /\ ReadAt(pieces, z, z) = g[one].answer
    BY <2>2, ReadPasses
  <2>4. QED
    BY <2>3 DEF z, one
<1>9. g[0] = NothingRead /\ g[1] = Add(g[0], pc, 0, 0)
  <2>1. 1 \in 1 .. 1 /\ 1 - 1 = 0 /\ 0 + 0 = 0
    OBVIOUS
  <2>2. QED
    BY <1>8, <2>1 DEF Passes
<1> HIDE DEF pc
<1>10. Add(NothingRead, pc, 0, 0).answer = Answer(<< >>)
  <2>1. NothingRead.fbegin = 0 /\ NothingRead.answer = Answer(<< >>)
    BY DEF NothingRead
  <2>2. Answer(<< >>).ok /\ Answer(<< >>).bytes = << >> /\ << >> \o << >> = << >>
    <3>1. << >> \in Seq(Byte)
      BY EmptySeq
    <3>2. QED
      BY <3>1, ConcatEmptySeq DEF Answer
  <2>3. 0 + SectorSize = SectorSize /\ 0 < SectorSize /\ 0 - 0 = 0
    BY <1>5
  <2>4. QED
    BY <1>6, <1>7, <2>1, <2>2, <2>3 DEF Add
<1>11. QED
  BY <1>4, <1>8, <1>9, <1>10

LEMMA FilesRead ==
  ASSUME FilesFine(files, written, progress, sectors)
  PROVE  /\ GetReturnsWritten /\ ReadsAreHonest
         /\ \A f \in DOMAIN files : Readable(f) => Get(f) = Answer(written[f])
<1>1. /\ SectorsFine(progress, sectors) /\ Len(files) \in Nat /\ DOMAIN files = 1 .. Len(files)
      /\ \A f \in DOMAIN files : FileFine(files[f], written[f], progress, sectors)
  BY LenProperties DEF FilesFine
<1>2. ASSUME NEW f \in DOMAIN files
      PROVE  /\ files[f].pieces \in Seq(Pieces)
             /\ DOMAIN files[f].pieces = 1 .. Len(files[f].pieces)
             /\ written[f] \in Seq(Byte) /\ files[f].size = Len(written[f])
             /\ Len(written[f]) \in Nat
  <2>1. files[f].pieces \in Seq(Pieces) /\ written[f] \in Seq(Byte) /\ files[f].size = Len(written[f])
    BY <1>1 DEF FileFine, FileObjects
  <2>2. QED
    BY <2>1, LenProperties
<1>3. ASSUME NEW f \in DOMAIN files, Ordinary(f)
      PROVE  AllHaveBytes(files[f].pieces)
  BY <1>2, <1>3 DEF AllHaveBytes, Ordinary
<1>4. ASSUME NEW f \in DOMAIN files, Ordinary(f)
      PROVE  Get(f) = Answer(written[f])
  <2> DEFINE w == written[f]
  <2>1. /\ FileFine(files[f], w, progress, sectors) /\ AllHaveBytes(files[f].pieces)
        /\ Len(w) \in Nat /\ 0 \in Nat /\ 0 + Len(w) <= Len(w) /\ w \in Seq(Byte)
    BY <1>1, <1>2, <1>3, <1>4
  <2> HIDE DEF w
  <2>2. ReadAt(files[f].pieces, 0, Len(w)) = Answer(SubSeq(w, 0 + 1, 0 + Len(w)))
    BY <1>1, <2>1, ReadGives
  <2>3. SubSeq(w, 0 + 1, 0 + Len(w)) = w
    <3>1. 0 + 1 = 1 /\ 0 + Len(w) = Len(w)
      BY <2>1
    <3>2. QED
      BY <2>1, <3>1, SubSeqFull
  <2>4. QED
    BY <1>2, <2>2, <2>3 DEF Get, w
<1>5. ASSUME NEW f \in DOMAIN files, Ordinary(f),
             NEW from \in 0 .. files[f].size, NEW n \in 0 .. files[f].size - from,
             ReadAt(files[f].pieces, from, n).ok
      PROVE  ReadAt(files[f].pieces, from, n).bytes = SubSeq(written[f], from + 1, from + n)
  <2>1. from \in Nat /\ n \in Nat /\ from + n <= Len(written[f])
    BY <1>2
  <2>2. ReadAt(files[f].pieces, from, n) = Answer(SubSeq(written[f], from + 1, from + n))
    BY <1>1, <1>3, <1>5, <2>1, ReadGives
  <2>3. QED
    BY <2>2 DEF Answer
<1>6. ASSUME NEW f \in DOMAIN files, Readable(f), ~Ordinary(f)
      PROVE  Get(f) = Answer(written[f])
  <2>1. Len(files[f].pieces) = 1
    BY <1>6 DEF Readable
  <2>2. files[f].pieces[1].hashed /\ files[f].pieces[1].length = 0
    BY <1>2, <1>6, <2>1 DEF Ordinary
  <2>3. QED
    BY <1>1, <2>1, <2>2, LoneEmptyPiece DEF Get
<1>7. QED
  BY <1>4, <1>5, <1>6 DEF GetReturnsWritten, ReadsAreHonest

-----------------------------------------------------------------------------
(* Sectors only grow                                                       *)

Prefix(s, t) == Len(s) <= Len(t) /\ \A i \in 1 .. Len(s) : t[i] = s[i]

\* Sectors that pieces may be in.
InUse(pr, ss, id) == id = pr.id \/ Len(ss[id]) = SectorSize

\* What is in use stays where it is, and a whole sector is not written again.
Grows(pr, ss, pr2, ss2) ==
  \A id \in DOMAIN ss : InUse(pr, ss, id) =>
    /\ id \in DOMAIN ss2 /\ InUse(pr2, ss2, id)
    /\ Prefix(Source(pr, ss, id), Source(pr2, ss2, id))
    /\ id # pr.id => id # pr2.id

LEMMA GrowsStays ==
  ASSUME NEW pr, NEW ss, SectorsFine(pr, ss)
  PROVE  Grows(pr, ss, pr, ss)
<1> SUFFICES ASSUME NEW id \in DOMAIN ss PROVE Prefix(Source(pr, ss, id), Source(pr, ss, id))
  BY DEF Grows
<1>1. Len(Source(pr, ss, id)) \in Nat
  BY SourceTyped, LenProperties
<1>2. QED
  BY <1>1 DEF Prefix

LEMMA GrowsOn ==
  ASSUME NEW pr, NEW ss, NEW pr1, NEW ss1, NEW pr2, NEW ss2,
         SectorsFine(pr, ss), SectorsFine(pr1, ss1), SectorsFine(pr2, ss2),
         Grows(pr, ss, pr1, ss1), Grows(pr1, ss1, pr2, ss2)
  PROVE  Grows(pr, ss, pr2, ss2)
<1> SUFFICES ASSUME NEW id \in DOMAIN ss, InUse(pr, ss, id)
             PROVE  /\ id \in DOMAIN ss2 /\ InUse(pr2, ss2, id)
                    /\ Prefix(Source(pr, ss, id), Source(pr2, ss2, id))
                    /\ id # pr.id => id # pr2.id
  BY DEF Grows
<1> DEFINE a == Source(pr, ss, id)
           b == Source(pr1, ss1, id)
           c == Source(pr2, ss2, id)
<1>1. /\ id \in DOMAIN ss1 /\ InUse(pr1, ss1, id) /\ Prefix(a, b)
      /\ id # pr.id => id # pr1.id
  BY DEF Grows
<1>2. /\ id \in DOMAIN ss2 /\ InUse(pr2, ss2, id) /\ Prefix(b, c)
      /\ id # pr1.id => id # pr2.id
  BY <1>1 DEF Grows
<1>3. Len(a) \in Nat /\ Len(b) \in Nat /\ Len(c) \in Nat
  BY <1>1, <1>2, SourceTyped, LenProperties
<1> HIDE DEF a, b, c
<1>4. Prefix(a, c)
  <2>1. Len(a) <= Len(b) /\ Len(b) <= Len(c)
    BY <1>1, <1>2 DEF Prefix
  <2>2. \A i \in 1 .. Len(a) : i \in 1 .. Len(b) /\ b[i] = a[i]
    BY <1>1, <1>3, <2>1 DEF Prefix
  <2>3. \A i \in 1 .. Len(a) : c[i] = a[i]
    BY <1>2, <2>2 DEF Prefix
  <2>4. QED
    BY <1>3, <2>1, <2>3 DEF Prefix
<1>5. QED
  BY <1>1, <1>2, <1>4 DEF a, c

LEMMA PieceStays ==
  ASSUME NEW pr, NEW ss, NEW pr2, NEW ss2,
         SectorsFine(pr, ss), SectorsFine(pr2, ss2), Grows(pr, ss, pr2, ss2),
         NEW pc \in Pieces, PieceKept(pc, pr, ss)
  PROVE  /\ PieceKept(pc, pr2, ss2)
         /\ Prefix(Source(pr, ss, pc.sector), Source(pr2, ss2, pc.sector))
         /\ pc.hashed => pc.offset + pc.length <= Len(Source(pr, ss, pc.sector))
         /\ ~pc.hashed => PieceLength(pc) <= Len(Source(pr, ss, pc.sector))
<1> DEFINE id == pc.sector
           s == Source(pr, ss, id)
           t == Source(pr2, ss2, id)
           o == pc.offset
           n == pc.length
<1>1. /\ id \in DOMAIN ss
      /\ id # pr.id => Len(s) = SectorSize
      /\ pc.hashed => o + n <= Len(s) /\ pc.hash = SubSeq(s, o + 1, o + n)
      /\ ~pc.hashed => id # pr.id /\ n < SectorSize
  BY DEF PieceKept
<1>2. InUse(pr, ss, id)
  BY <1>1 DEF InUse, Source
<1>3. /\ id \in DOMAIN ss2 /\ InUse(pr2, ss2, id) /\ Prefix(s, t)
      /\ id # pr.id => id # pr2.id
  BY <1>1, <1>2 DEF Grows
<1>4. /\ s \in Seq(Byte) /\ t \in Seq(Byte) /\ Len(s) \in Nat /\ Len(t) \in Nat
      /\ o \in Nat /\ n \in Nat /\ SectorSize \in Nat
  BY <1>1, <1>3, SourceTyped, PieceTyped, LenProperties, FilesAssumption
<1>5. id # pr2.id => Len(t) = SectorSize
  BY <1>3 DEF InUse, Source
<1> HIDE DEF s, t
<1>6. Len(s) <= Len(t) /\ \A i \in 1 .. Len(s) : t[i] = s[i]
  BY <1>3 DEF Prefix
<1>7. ASSUME pc.hashed PROVE o + n <= Len(t) /\ SubSeq(t, o + 1, o + n) = SubSeq(s, o + 1, o + n)
  <2>1. o + n <= Len(s) /\ o + n <= Len(t)
    BY <1>1, <1>4, <1>6, <1>7
  <2>2. \A i \in o + 1 .. o + n : i \in 1 .. Len(s) /\ t[i] = s[i]
    BY <1>4, <1>6, <2>1
  <2>3. \A i \in o + 1 .. o + n : s[i] \in Byte
    BY <1>4, <2>2, ElementOfSeq
  <2>4. QED
    <3> DEFINE x == o + 1
               y == o + n
    <3>1. x \in Int /\ y \in Int /\ (\A i \in x .. y : s[i] \in Byte /\ t[i] \in Byte /\ t[i] = s[i])
      BY <1>4, <2>2, <2>3
    <3>2. \A i \in 1 .. y - x + 1 : x + i - 1 \in x .. y
      BY <1>4
    <3>3. y - x + 1 = IF x <= y THEN y - x + 1 ELSE 0
      BY <1>4
    <3> HIDE DEF x, y
    <3>4. /\ SubSeq(s, x, y) \in Seq(Byte) /\ Len(SubSeq(s, x, y)) = y - x + 1
          /\ \A i \in 1 .. y - x + 1 : SubSeq(s, x, y)[i] = s[x + i - 1]
      BY <3>1, <3>3, SubSeqProperties
    <3>5. /\ SubSeq(t, x, y) \in Seq(Byte) /\ Len(SubSeq(t, x, y)) = y - x + 1
          /\ \A i \in 1 .. y - x + 1 : SubSeq(t, x, y)[i] = t[x + i - 1]
      BY <3>1, <3>3, SubSeqProperties
    <3>6. \A i \in 1 .. y - x + 1 : SubSeq(s, x, y)[i] = SubSeq(t, x, y)[i]
      BY <3>1, <3>2, <3>4, <3>5
    <3>7. SubSeq(t, x, y) = SubSeq(s, x, y)
      BY <3>4, <3>5, <3>6, SeqEqual
    <3>8. QED
      BY <2>1, <3>7 DEF x, y
<1>8. ASSUME ~pc.hashed PROVE PieceLength(pc) <= Len(s) /\ id # pr2.id /\ n < SectorSize
  <2>1. Len(s) = SectorSize /\ id # pr2.id /\ n < SectorSize
    BY <1>1, <1>3, <1>8
  <2>2. QED
    BY <1>4, <2>1 DEF PieceLength
<1>9. pc.hashed => pc.hash = SubSeq(t, o + 1, o + n) /\ o + n <= Len(t)
  BY <1>1, <1>7
<1>10. PieceKept(pc, pr2, ss2)
  <2>1. pc.hashed \in BOOLEAN
    BY PieceTyped
  <2>2. /\ pc.sector \in DOMAIN ss2
        /\ pc.sector # pr2.id => Len(t) = SectorSize
        /\ ~pc.hashed => pc.sector # pr2.id /\ pc.length < SectorSize
    BY <1>3, <1>5, <1>8
  <2>3. QED
    BY <1>9, <2>2 DEF PieceKept, t
<1>11. QED
  BY <1>1, <1>3, <1>8, <1>10 DEF s, t

\* A piece that has the bytes of its file keeps them.
LEMMA SameStays ==
  ASSUME NEW pr, NEW ss, NEW pr2, NEW ss2,
         SectorsFine(pr, ss), SectorsFine(pr2, ss2), Grows(pr, ss, pr2, ss2),
         NEW pc \in Pieces, PieceKept(pc, pr, ss), pc.hashed => pc.length # 0,
         NEW w, NEW at, Same(w, at, Source(pr, ss, pc.sector), pc.offset, PieceLength(pc))
  PROVE  Same(w, at, Source(pr2, ss2, pc.sector), pc.offset, PieceLength(pc))
<1> DEFINE s == Source(pr, ss, pc.sector)
           t == Source(pr2, ss2, pc.sector)
           o == pc.offset
           n == PieceLength(pc)
<1>1. s \in Seq(Byte) /\ Len(s) \in Nat
  BY SourceTyped, LenProperties DEF PieceKept
<1>2. /\ Prefix(s, t) /\ o \in Nat /\ n \in Nat
      /\ o + n <= Len(s)
  <2>1. Prefix(s, t) /\ o \in Nat /\ pc.length \in Nat /\ SectorSize \in Nat
    BY PieceStays, PieceTyped, FilesAssumption
  <2>2. CASE pc.hashed
    <3>1. o + pc.length <= Len(s) /\ n = pc.length
      BY <2>2, PieceStays DEF PieceLength
    <3>2. QED
      BY <2>1, <3>1
  <2>3. CASE ~pc.hashed
    <3>1. n <= Len(s) /\ o = 0
      BY <2>3, PieceStays, PieceTyped
    <3>2. n \in Nat
      BY <2>1 DEF PieceLength
    <3>3. QED
      BY <1>1, <2>1, <3>1, <3>2
  <2>4. QED
    BY <2>2, <2>3
<1>3. \A i \in 1 .. n : w[at + i] = s[o + i]
  BY DEF Same
<1> HIDE DEF s, t, n, o
<1>4. \A i \in 1 .. n : o + i \in 1 .. Len(s)
  BY <1>1, <1>2
<1>5. \A i \in 1 .. n : w[at + i] = t[o + i]
  BY <1>2, <1>3, <1>4 DEF Prefix
<1>6. QED
  BY <1>5 DEF Same, t, o, n

LEMMA GrowsFine ==
  ASSUME NEW pr, NEW ss, NEW pr2, NEW ss2, NEW fs, NEW ws,
         FilesFine(fs, ws, pr, ss), SectorsFine(pr2, ss2), Grows(pr, ss, pr2, ss2)
  PROVE  FilesFine(fs, ws, pr2, ss2)
<1>1. SectorsFine(pr, ss)
  BY DEF FilesFine
<1>2. ASSUME NEW fi, NEW w, FileFine(fi, w, pr, ss) PROVE FileFine(fi, w, pr2, ss2)
  <2> DEFINE n == Len(fi.pieces)
  <2>1. \A k \in 1 .. n : fi.pieces[k] \in Pieces /\ PieceKept(fi.pieces[k], pr, ss)
    <3>1. fi.pieces \in Seq(Pieces)
      BY <1>2 DEF FileFine, FileObjects
    <3>2. QED
      BY <1>2, <3>1, ElementOfSeq DEF FileFine
  <2>2. \A k \in 1 .. n : PieceKept(fi.pieces[k], pr2, ss2)
    BY <1>1, <2>1, PieceStays
  <2>3. ASSUME AllHaveBytes(fi.pieces) PROVE \E st : Laid(st, fi.pieces, w, pr2, ss2)
    <3>1. PICK st : Laid(st, fi.pieces, w, pr, ss)
      BY <1>2, <2>3 DEF FileFine
    <3>2. ASSUME NEW k \in 1 .. n
          PROVE  Same(w, st[k], Source(pr2, ss2, fi.pieces[k].sector), fi.pieces[k].offset,
                      PieceLength(fi.pieces[k]))
      <4> DEFINE pc == fi.pieces[k]
                 at == st[k]
      <4>1. /\ Same(w, at, Source(pr, ss, pc.sector), pc.offset, PieceLength(pc))
            /\ pc.hashed => pc.length # 0
        BY <2>3, <3>1 DEF Laid, AllHaveBytes
      <4>2. pc \in Pieces /\ PieceKept(pc, pr, ss)
        BY <2>1
      <4> HIDE DEF pc, at
      <4>3. Same(w, at, Source(pr2, ss2, pc.sector), pc.offset, PieceLength(pc))
        BY <1>1, <4>1, <4>2, SameStays
      <4>4. QED
        BY <4>3 DEF pc, at
    <3>3. Laid(st, fi.pieces, w, pr2, ss2)
      BY <3>1, <3>2 DEF Laid
    <3>4. QED
      BY <3>3
  <2>4. QED
    BY <1>2, <2>2, <2>3 DEF FileFine
<1>3. QED
  BY <1>2 DEF FilesFine

-----------------------------------------------------------------------------
(* What is done to sectors                                                 *)

LEMMA PrefixItself ==
  ASSUME NEW s \in Seq(Byte)
  PROVE  Prefix(s, s)
BY LenProperties DEF Prefix

LEMMA PaddedText ==
  ASSUME NEW p \in Text
  PROVE  Padded(p) \in Seq(Byte) /\ Len(Padded(p)) = SectorSize /\ Prefix(p, Padded(p))
<1> DEFINE n == SectorSize - Len(p)
           zeros == [i \in 1 .. n |-> Zero]
<1>1. p \in Seq(Byte) /\ Len(p) \in Nat /\ n \in Nat /\ SectorSize \in Nat /\ Zero \in Byte
  <2>1. p \in Seq(Byte) /\ Len(p) <= SectorSize
    BY DEF Text
  <2>2. Len(p) \in Nat
    BY <2>1, LenProperties
  <2>3. SectorSize \in Nat
    BY FilesAssumption
  <2>4. Zero \in Byte
    BY Zenon DEF Byte
  <2>5. n \in Nat
    BY <2>1, <2>2, <2>3
  <2>6. QED
    BY <2>1, <2>2, <2>3, <2>4, <2>5
<1>2. zeros \in Seq(Byte) /\ Len(zeros) = n
  <2> HIDE DEF n
  <2>1. \A i \in 1 .. n : Zero \in Byte
    BY <1>1
  <2>2. zeros \in Seq(Byte)
    <3>1. zeros \in [1 .. n -> Byte]
      BY <2>1
    <3>2. QED
      BY <1>1, <3>1, SeqDef
  <2>3. Len(zeros) \in Nat /\ DOMAIN zeros = 1 .. Len(zeros) /\ DOMAIN zeros = 1 .. n
    BY <2>2, LenProperties
  <2> HIDE DEF zeros
  <2>4. Len(zeros) = n
    <3>1. n \in Nat /\ Len(zeros) \in Nat /\ 1 .. Len(zeros) = 1 .. n
      BY <1>1, <2>3, Zenon
    <3>2. QED
      BY ONLY <3>1
  <2>5. QED
    BY <2>2, <2>4 DEF zeros
<1>3. Padded(p) = p \o zeros
  BY DEF Padded
<1> HIDE DEF zeros
<1>4. /\ p \o zeros \in Seq(Byte) /\ Len(p \o zeros) = Len(p) + n
      /\ \A i \in 1 .. Len(p) : (p \o zeros)[i] = p[i]
  BY <1>1, <1>2, ConcatProperties
<1>5. Len(p) + n = SectorSize
  BY <1>1
<1>6. QED
  BY <1>1, <1>3, <1>4, <1>5 DEF Prefix

\* uploadSectorInProgress.
LEMMA UploadGrows ==
  ASSUME NEW st, SectorsFine(st.progress, st.sectors)
  PROVE  /\ SectorsFine(Uploaded(st).progress, Uploaded(st).sectors)
         /\ Grows(st.progress, st.sectors, Uploaded(st).progress, Uploaded(st).sectors)
         /\ Uploaded(st).progress.data = << >>
<1> DEFINE pr == st.progress
           ss == st.sectors
           data == Padded(pr.data)
           ss2 == [ss EXCEPT ![pr.id] = data]
<1>1. /\ ss \in Seq(Seq(Byte)) /\ pr.id \in Nat /\ pr.data \in Text
      /\ pr.id # 0 => pr.id \in DOMAIN ss /\ ss[pr.id] = << >>
      /\ pr.id = 0 => pr.data = << >>
      /\ DOMAIN ss = 1 .. Len(ss) /\ Len(ss) \in Nat
  BY LenProperties DEF SectorsFine
<1>2. CASE pr.data = << >>
  BY <1>2, GrowsStays DEF Uploaded
<1>3. CASE pr.data # << >>
  <2>1. pr.id # 0 /\ pr.id \in 1 .. Len(ss) /\ ss[pr.id] = << >>
    BY <1>1, <1>3
  <2>2. Uploaded(st) = [progress |-> NoProgress, sectors |-> ss2]
    BY <1>1, <1>3, <2>1 DEF Uploaded, CanWriteSector
  <2>3. data \in Seq(Byte) /\ Len(data) = SectorSize /\ Prefix(pr.data, data)
    BY <1>1, PaddedText
  <2> HIDE DEF data
  <2>4. /\ ss2 \in Seq(Seq(Byte)) /\ Len(ss2) = Len(ss)
        /\ \A j \in 1 .. Len(ss) : ss2[j] = IF j = pr.id THEN data ELSE ss[j]
    BY <1>1, <2>1, <2>3, ExceptSeq
  <2>5. NoProgress.id = 0 /\ NoProgress.data = << >> /\ NoProgress \in [id : Nat, data : Text]
    <3>1. << >> \in Text
      BY EmptySeq, FilesAssumption DEF Text
    <3>2. QED
      BY <3>1 DEF NoProgress
  <2>6. DOMAIN ss2 = DOMAIN ss
    OBVIOUS
  <2> HIDE DEF ss2
  <2>7. SectorsFine(NoProgress, ss2)
    BY <2>4, <2>5 DEF SectorsFine
  <2>8. ASSUME NEW id \in DOMAIN ss, InUse(pr, ss, id)
        PROVE  /\ id \in DOMAIN ss2 /\ InUse(NoProgress, ss2, id)
               /\ Prefix(Source(pr, ss, id), Source(NoProgress, ss2, id))
               /\ id # NoProgress.id
    <3>1. id \in 1 .. Len(ss) /\ id # NoProgress.id
      BY <1>1, <2>5
    <3>2. CASE id = pr.id
      <4>1. ss2[id] = data
        BY <2>4, <3>1, <3>2
      <4>2. QED
        BY <2>3, <2>6, <3>1, <3>2, <4>1 DEF Source, InUse
    <3>3. CASE id # pr.id
      <4>1. ss2[id] = ss[id] /\ ss[id] \in Seq(Byte)
        BY <1>1, <2>4, <3>1, <3>3, ElementOfSeq
      <4>2. QED
        BY <2>6, <2>8, <3>1, <3>3, <4>1, PrefixItself DEF Source, InUse
    <3>4. QED
      BY <3>2, <3>3
  <2>9. QED
    BY <2>2, <2>5, <2>7, <2>8 DEF Grows
<1>4. QED
  BY <1>2, <1>3

\* A new sector at the end of the manager's.
LEMMA NewSectorGrows ==
  ASSUME NEW pr, NEW ss, NEW id, NEW new \in Seq(Byte), SectorsFine(pr, ss),
         \/ id = pr.id
         \/ pr.id = 0 /\ id = NextSector(ss) /\ new = << >>
  PROVE  LET pr2 == [pr EXCEPT !.id = id]
             ss2 == Append(ss, new)
         IN /\ SectorsFine(pr2, ss2) /\ Grows(pr, ss, pr2, ss2)
            /\ NextSector(ss) \in DOMAIN ss2 /\ ss2[NextSector(ss)] = new
            /\ NextSector(ss) # pr.id /\ NextSector(ss) \in Nat
<1> DEFINE ss2 == Append(ss, new)
           pr2 == [pr EXCEPT !.id = id]
           next == NextSector(ss)
<1>1. /\ ss \in Seq(Seq(Byte)) /\ pr \in [id : Nat, data : Text]
      /\ pr.id # 0 => pr.id \in DOMAIN ss /\ ss[pr.id] = << >>
      /\ pr.id = 0 => pr.data = << >>
      /\ DOMAIN ss = 1 .. Len(ss) /\ Len(ss) \in Nat
  BY LenProperties DEF SectorsFine
<1>2. next = Len(ss) + 1 /\ next \in Nat /\ next # 0 /\ next \notin DOMAIN ss /\ next # pr.id
  <2>1. next = Len(ss) + 1
    BY DEF NextSector
  <2>2. QED
    BY <1>1, <2>1
<1>3. /\ ss2 \in Seq(Seq(Byte)) /\ Len(ss2) = Len(ss) + 1
      /\ \A i \in 1 .. Len(ss) : ss2[i] = ss[i]
      /\ ss2[Len(ss) + 1] = new
  BY <1>1, AppendProperties
<1>4. DOMAIN ss2 = 1 .. Len(ss) + 1
  BY <1>3, LenProperties
<1> HIDE DEF ss2, next
<1>5. pr2 \in [id : Nat, data : Text] /\ pr2.id = id /\ pr2.data = pr.data
  BY <1>1, <1>2 DEF next
<1> HIDE DEF pr2
<1>6. SectorsFine(pr2, ss2)
  <2>1. CASE id = pr.id
    BY <1>1, <1>3, <1>4, <1>5, <2>1 DEF SectorsFine
  <2>2. CASE pr.id = 0 /\ id = next /\ new = << >>
    BY <1>1, <1>2, <1>3, <1>4, <1>5, <2>2 DEF SectorsFine
  <2>3. QED
    BY <2>1, <2>2 DEF next
<1>7. ASSUME NEW i \in DOMAIN ss, InUse(pr, ss, i)
      PROVE  /\ i \in DOMAIN ss2 /\ InUse(pr2, ss2, i)
             /\ Prefix(Source(pr, ss, i), Source(pr2, ss2, i))
             /\ i # pr.id => i # pr2.id
  <2>1. i \in 1 .. Len(ss) /\ i \in DOMAIN ss2 /\ ss2[i] = ss[i] /\ ss[i] \in Seq(Byte)
    BY <1>1, <1>3, <1>4, ElementOfSeq
  <2>2. /\ i = pr.id <=> i = pr2.id
        /\ pr.data \in Seq(Byte)
    BY <1>1, <1>2, <1>5, <2>1 DEF next, Text
  <2>3. QED
    BY <1>5, <1>7, <2>1, <2>2, PrefixItself DEF Source, InUse
<1>8. next \in DOMAIN ss2 /\ ss2[next] = new
  BY <1>1, <1>2, <1>3, <1>4
<1>9. QED
  BY <1>2, <1>6, <1>7, <1>8 DEF Grows, ss2, pr2, next

\* A write into the sector in progress.
LEMMA BufferGrows ==
  ASSUME NEW pr, NEW ss, NEW p \in Text, SectorsFine(pr, ss), pr.id # 0,
         Len(pr.data) + Len(p) <= SectorSize
  PROVE  LET pr2 == [pr EXCEPT !.data = @ \o p]
         IN SectorsFine(pr2, ss) /\ Grows(pr, ss, pr2, ss)
<1> DEFINE pr2 == [pr EXCEPT !.data = @ \o p]
           both == pr.data \o p
<1>1. /\ ss \in Seq(Seq(Byte)) /\ pr \in [id : Nat, data : Text]
      /\ pr.id \in DOMAIN ss /\ ss[pr.id] = << >>
      /\ DOMAIN ss = 1 .. Len(ss) /\ Len(ss) \in Nat
      /\ pr.data \in Seq(Byte) /\ p \in Seq(Byte)
  BY LenProperties DEF SectorsFine, Text
<1>2. both \in Seq(Byte) /\ both \in Text /\ Prefix(pr.data, both)
  <2>1. /\ both \in Seq(Byte) /\ Len(both) = Len(pr.data) + Len(p)
        /\ \A i \in 1 .. Len(pr.data) + Len(p) :
             both[i] = IF i <= Len(pr.data) THEN pr.data[i] ELSE p[i - Len(pr.data)]
    BY <1>1, ConcatProperties
  <2>2. Len(pr.data) \in Nat /\ Len(p) \in Nat
    BY <1>1, LenProperties
  <2>3. QED
    BY <2>1, <2>2 DEF Text, Prefix
<1> HIDE DEF both
<1>3. pr2 \in [id : Nat, data : Text] /\ pr2.id = pr.id /\ pr2.data = both
  BY <1>1, <1>2 DEF both
<1> HIDE DEF pr2
<1>4. SectorsFine(pr2, ss)
  BY <1>1, <1>3 DEF SectorsFine
<1>5. ASSUME NEW i \in DOMAIN ss, InUse(pr, ss, i)
      PROVE  /\ InUse(pr2, ss, i) /\ Prefix(Source(pr, ss, i), Source(pr2, ss, i))
             /\ i # pr.id => i # pr2.id
  <2>1. ss[i] \in Seq(Byte)
    BY <1>1, ElementOfSeq
  <2>2. QED
    BY <1>2, <1>3, <1>5, <2>1, PrefixItself DEF Source, InUse
<1>6. QED
  BY <1>4, <1>5 DEF Grows, pr2

\* The sector in progress that a short write goes to.
LEMMA RoomGrows ==
  ASSUME SectorsFine(progress, sectors), NEW p \in Text
  PROVE  LET st == RoomFor(p)
         IN /\ SectorsFine(st.progress, st.sectors)
            /\ Grows(progress, sectors, st.progress, st.sectors)
            /\ st.progress.id # 0 /\ Len(st.progress.data) + Len(p) <= SectorSize
<1> DEFINE x == IF Overflows(p) THEN Uploaded(Current) ELSE Current
           st == RoomFor(p)
           new == WithSector(x)
<1>1. Current.progress = progress /\ Current.sectors = sectors
  BY DEF Current
<1>2. Len(p) \in Nat /\ Len(p) <= SectorSize /\ SectorSize \in Nat
  <2>1. p \in Seq(Byte) /\ Len(p) <= SectorSize
    BY DEF Text
  <2>2. SectorSize \in Nat
    BY FilesAssumption
  <2>3. QED
    BY <2>1, <2>2, LenProperties
<1>3. /\ SectorsFine(x.progress, x.sectors)
      /\ Grows(progress, sectors, x.progress, x.sectors)
      /\ Len(x.progress.data) + Len(p) <= SectorSize
  <2>1. CASE Overflows(p)
    <3>1. x = Uploaded(Current)
      BY <2>1
    <3>2. /\ SectorsFine(x.progress, x.sectors)
          /\ Grows(progress, sectors, x.progress, x.sectors)
          /\ x.progress.data = << >>
      BY <1>1, <3>1, UploadGrows
    <3>3. Len(x.progress.data) = 0
      BY <3>2, EmptySeq
    <3>4. QED
      BY <1>2, <3>2, <3>3
  <2>2. CASE ~Overflows(p)
    <3>1. x = Current
      BY <2>2
    <3>2. Len(progress.data) \in Nat
      BY LenProperties DEF SectorsFine, Text
    <3>3. Len(progress.data) + Len(p) <= SectorSize
      BY <1>2, <2>2, <3>2 DEF Overflows
    <3>4. QED
      BY <1>1, <3>1, <3>3, GrowsStays
  <2>3. QED
    BY <2>1, <2>2
<1>4. st = new
  BY DEF RoomFor
<1> HIDE DEF x, st
<1>5. CASE x.progress.id # 0
  BY <1>3, <1>4, <1>5 DEF WithSector, st
<1>6. CASE x.progress.id = 0
  <2> DEFINE next == NextSector(x.sectors)
             ss2 == Append(x.sectors, << >>)
             pr2 == [x.progress EXCEPT !.id = next]
  <2>1. new = [progress |-> pr2, sectors |-> ss2]
    BY <1>6 DEF WithSector
  <2>2. << >> \in Seq(Byte)
    BY EmptySeq
  <2>3. /\ SectorsFine(pr2, ss2) /\ Grows(x.progress, x.sectors, pr2, ss2)
        /\ next # x.progress.id
    BY <1>3, <1>6, <2>2, NewSectorGrows
  <2>4. pr2.id = next /\ pr2.data = x.progress.data
    <3>1. x.progress \in [id : Nat, data : Text]
      BY <1>3 DEF SectorsFine
    <3>2. QED
      BY <3>1
  <2>5. Grows(progress, sectors, pr2, ss2)
    BY <1>3, <2>3, GrowsOn
  <2>6. new.progress = pr2 /\ new.sectors = ss2
    BY <2>1
  <2> HIDE DEF next, ss2, pr2, new
  <2>7. QED
    BY <1>3, <1>4, <1>6, <2>3, <2>4, <2>5, <2>6 DEF st
<1>7. QED
  BY <1>5, <1>6

-----------------------------------------------------------------------------
(* A piece is added to a file                                              *)

\* What a piece is of the bytes that were written.
Keeps(piece, p, pr, ss) ==
  /\ piece \in Pieces /\ p \in Text /\ PieceKept(piece, pr, ss)
  /\ piece.hashed => piece.hash = p /\ piece.length = Len(p)
  /\ (piece.hashed => piece.length # 0) =>
       /\ PieceLength(piece) = Len(p)
       /\ Same(p, 0, Source(pr, ss, piece.sector), piece.offset, Len(p))

LEMMA PieceAppended ==
  ASSUME NEW pr, NEW ss, NEW fi, NEW w, NEW piece, NEW p,
         FileFine(fi, w, pr, ss), Keeps(piece, p, pr, ss)
  PROVE  FileFine([pieces |-> Append(fi.pieces, piece), size |-> fi.size + Len(p)], w \o p, pr, ss)
<1> DEFINE n == Len(fi.pieces)
           pieces == Append(fi.pieces, piece)
           all == w \o p
           fi2 == [pieces |-> pieces, size |-> fi.size + Len(p)]
<1>1. /\ fi.pieces \in Seq(Pieces) /\ w \in Seq(Byte) /\ p \in Seq(Byte) /\ piece \in Pieces
      /\ fi.size = Len(w) /\ n \in Nat /\ Len(w) \in Nat /\ Len(p) \in Nat
  <2>1. /\ fi.pieces \in Seq(Pieces) /\ w \in Seq(Byte) /\ p \in Seq(Byte) /\ piece \in Pieces
        /\ fi.size = Len(w)
    BY DEF FileFine, FileObjects, Keeps, Text
  <2>2. QED
    BY <2>1, LenProperties
<1>2. /\ pieces \in Seq(Pieces) /\ Len(pieces) = n + 1
      /\ \A k \in 1 .. n : pieces[k] = fi.pieces[k]
      /\ pieces[n + 1] = piece
  BY <1>1, AppendProperties
<1>3. /\ all \in Seq(Byte) /\ Len(all) = Len(w) + Len(p)
      /\ \A i \in 1 .. Len(w) + Len(p) : all[i] = IF i <= Len(w) THEN w[i] ELSE p[i - Len(w)]
  BY <1>1, ConcatProperties
<1>4. fi2 \in FileObjects /\ fi2.size = Len(all) /\ fi2.pieces = pieces
  BY <1>1, <1>2, <1>3 DEF FileObjects
<1> HIDE DEF pieces, n, all
<1>5. \A k \in 1 .. n + 1 : k \in 1 .. n \/ k = n + 1
  BY <1>1
<1>6. \A k \in 1 .. n + 1 : PieceKept(pieces[k], pr, ss)
  BY <1>1, <1>2, <1>5 DEF FileFine, Keeps, n
<1>7. ASSUME n + 1 = 1, piece.hashed PROVE all = piece.hash
  <2>1. n = 0
    BY <1>1, <1>7
  <2>2. AllHaveBytes(fi.pieces)
    BY <2>1 DEF AllHaveBytes, n
  <2>3. PICK st : Laid(st, fi.pieces, w, pr, ss)
    BY <2>2 DEF FileFine
  <2>4. Len(w) = 0
    BY <2>1, <2>3 DEF Laid, n
  <2>5. w = << >>
    BY <1>1, <2>4, EmptySeq
  <2>6. all = p
    BY <1>1, <2>5, ConcatEmptySeq DEF all
  <2>7. QED
    BY <1>7, <2>6 DEF Keeps
<1>8. ASSUME AllHaveBytes(pieces) PROVE \E st : Laid(st, pieces, all, pr, ss)
  <2>1. \A k \in 1 .. n + 1 : pieces[k].hashed => pieces[k].length # 0
    BY <1>2, <1>8 DEF AllHaveBytes
  <2>2. AllHaveBytes(fi.pieces)
    <3>1. \A k \in 1 .. n : k \in 1 .. n + 1
      BY <1>1
    <3>2. \A k \in 1 .. n : fi.pieces[k].hashed => fi.pieces[k].length # 0
      BY <1>2, <2>1, <3>1
    <3>3. QED
      BY <3>2 DEF AllHaveBytes, n
  <2>3. PICK st : Laid(st, fi.pieces, w, pr, ss)
    BY <2>2 DEF FileFine
  <2>4. /\ st[1] = 0 /\ st[n + 1] = Len(w)
        /\ \A k \in 1 .. n + 1 : st[k] \in Nat /\ st[k] <= Len(w)
        /\ \A k \in 1 .. n :
             /\ st[k + 1] = st[k] + PieceLength(fi.pieces[k])
             /\ Same(w, st[k], Source(pr, ss, fi.pieces[k].sector), fi.pieces[k].offset,
                     PieceLength(fi.pieces[k]))
    BY <2>3 DEF Laid, n
  <2>5. /\ PieceLength(piece) = Len(p)
        /\ Same(p, 0, Source(pr, ss, piece.sector), piece.offset, Len(p))
    <3>1. n + 1 \in 1 .. n + 1
      BY <1>1
    <3>2. piece.hashed => piece.length # 0
      BY <1>2, <2>1, <3>1
    <3>3. QED
      BY <3>2 DEF Keeps
  <2> DEFINE st2 == [k \in 1 .. n + 2 |-> IF k = n + 2 THEN Len(w) + Len(p) ELSE st[k]]
  <2>6. /\ \A k \in 1 .. n + 1 : st2[k] = st[k]
        /\ st2[n + 2] = Len(w) + Len(p)
    BY <1>1
  <2> HIDE DEF st2
  <2>7. st2[1] = 0 /\ st2[n + 1 + 1] = Len(all)
    <3>1. 1 \in 1 .. n + 1 /\ n + 1 + 1 = n + 2
      BY <1>1
    <3>2. QED
      BY <1>3, <2>4, <2>6, <3>1
  <2>8. \A k \in 1 .. n + 1 + 1 : st2[k] \in Nat /\ st2[k] <= Len(all)
    <3>1. ASSUME NEW k \in 1 .. n + 1 PROVE st2[k] \in Nat /\ st2[k] <= Len(all)
      <4>1. st[k] \in Nat /\ st[k] <= Len(w) /\ st2[k] = st[k]
        BY <2>4, <2>6
      <4>2. QED
        BY <1>1, <1>3, <4>1
    <3>2. st2[n + 2] \in Nat /\ st2[n + 2] <= Len(all)
      BY <1>1, <1>3, <2>6
    <3>3. \A k \in 1 .. n + 1 + 1 : k \in 1 .. n + 1 \/ k = n + 2
      BY <1>1
    <3>4. QED
      BY <3>1, <3>2, <3>3
  <2>9. ASSUME NEW k \in 1 .. n
        PROVE  /\ st2[k + 1] = st2[k] + PieceLength(pieces[k])
               /\ Same(all, st2[k], Source(pr, ss, pieces[k].sector), pieces[k].offset,
                       PieceLength(pieces[k]))
    <3> DEFINE len == PieceLength(pieces[k])
               source == Source(pr, ss, pieces[k].sector)
               o == pieces[k].offset
    <3>1. k \in 1 .. n + 1 /\ k + 1 \in 1 .. n + 1 /\ pieces[k] = fi.pieces[k]
      BY <1>1, <1>2
    <3>2. st2[k] = st[k] /\ st2[k + 1] = st[k + 1] /\ st[k + 1] = st[k] + len
      BY <2>4, <2>6, <3>1
    <3>3. Same(w, st[k], source, o, len)
      BY <2>4, <3>1
    <3>4. len \in Nat
      <4>1. pieces[k] \in Pieces /\ SectorSize \in Nat
        BY <1>1, <3>1, ElementOfSeq, FilesAssumption DEF n
      <4>2. QED
        BY <4>1, PieceTyped DEF PieceLength
    <3>5. st[k] \in Nat /\ st[k] + len <= Len(w)
      BY <2>4, <3>1, <3>2
    <3> HIDE DEF len, source, o
    <3>6. \A i \in 1 .. len : st[k] + i \in 1 .. Len(w) + Len(p) /\ st[k] + i <= Len(w)
      BY <1>1, <3>4, <3>5
    <3>7. \A i \in 1 .. len : all[st[k] + i] = w[st[k] + i]
      BY <1>3, <3>6
    <3>8. Same(all, st[k], source, o, len)
      BY <3>3, <3>7 DEF Same
    <3>9. QED
      BY <3>2, <3>8 DEF len, source, o
  <2>10. /\ st2[n + 1 + 1] = st2[n + 1] + PieceLength(piece)
         /\ Same(all, st2[n + 1], Source(pr, ss, piece.sector), piece.offset, PieceLength(piece))
    <3>1. n + 1 \in 1 .. n + 1 /\ n + 1 + 1 = n + 2
      BY <1>1
    <3>2. st2[n + 1] = Len(w)
      BY <2>4, <2>6, <3>1
    <3>3. \A i \in 1 .. Len(p) : /\ Len(w) + i \in 1 .. Len(w) + Len(p)
                                 /\ ~(Len(w) + i <= Len(w)) /\ Len(w) + i - Len(w) = i
                                 /\ 0 + i = i
      BY <1>1
    <3>4. \A i \in 1 .. Len(p) : all[Len(w) + i] = p[i]
      BY <1>3, <3>3
    <3>5. Same(all, Len(w), Source(pr, ss, piece.sector), piece.offset, Len(p))
      BY <2>5, <3>3, <3>4 DEF Same
    <3>6. QED
      BY <2>5, <2>6, <3>1, <3>2, <3>5
  <2>11. \A k \in 1 .. n + 1 :
           /\ st2[k + 1] = st2[k] + PieceLength(pieces[k])
           /\ Same(all, st2[k], Source(pr, ss, pieces[k].sector), pieces[k].offset,
                   PieceLength(pieces[k]))
    BY <1>2, <1>5, <2>9, <2>10
  <2>12. Len(pieces) = n + 1
    BY <1>2
  <2>13. Laid(st2, pieces, all, pr, ss)
    BY <2>7, <2>8, <2>11, <2>12 DEF Laid
  <2>14. QED
    BY <2>13
<1>9. FileFine(fi2, all, pr, ss)
  <2> HIDE DEF fi2
  <2>1. Len(fi2.pieces) = n + 1
    BY <1>2, <1>4
  <2>2. Len(fi2.pieces) = 1 /\ fi2.pieces[1].hashed => all = fi2.pieces[1].hash
    <3>1. n + 1 = 1 => fi2.pieces[1] = piece
      BY <1>2, <1>4
    <3>2. QED
      BY <1>7, <2>1, <3>1
  <2>3. \A k \in 1 .. Len(fi2.pieces) : PieceKept(fi2.pieces[k], pr, ss)
    BY <1>4, <1>6, <2>1
  <2>4. AllHaveBytes(fi2.pieces) => \E st : Laid(st, fi2.pieces, all, pr, ss)
    BY <1>4, <1>8
  <2>5. fi2 \in FileObjects /\ all \in Seq(Byte) /\ fi2.size = Len(all)
    BY <1>3, <1>4
  <2> HIDE DEF all
  <2>6. QED
    BY <2>2, <2>3, <2>4, <2>5 DEF FileFine
<1>10. QED
  BY <1>9 DEF pieces, all

LEMMA KeepsStays ==
  ASSUME NEW pr, NEW ss, NEW pr2, NEW ss2, NEW piece, NEW p,
         SectorsFine(pr, ss), SectorsFine(pr2, ss2), Grows(pr, ss, pr2, ss2),
         Keeps(piece, p, pr, ss)
  PROVE  Keeps(piece, p, pr2, ss2)
<1>1. PieceKept(piece, pr2, ss2)
  BY PieceStays DEF Keeps
<1>2. ASSUME piece.hashed => piece.length # 0
      PROVE  /\ PieceLength(piece) = Len(p)
             /\ Same(p, 0, Source(pr2, ss2, piece.sector), piece.offset, Len(p))
  <2>1. /\ PieceLength(piece) = Len(p) /\ piece \in Pieces /\ PieceKept(piece, pr, ss)
        /\ Same(p, 0, Source(pr, ss, piece.sector), piece.offset, PieceLength(piece))
    BY <1>2 DEF Keeps
  <2>2. Same(p, 0, Source(pr2, ss2, piece.sector), piece.offset, PieceLength(piece))
    BY <1>2, <2>1, SameStays
  <2>3. QED
    BY <2>1, <2>2
<1>3. QED
  BY <1>1, <1>2 DEF Keeps

\* The piece of a short write.
LEMMA ShortKeeps ==
  ASSUME NEW pr, NEW ss, NEW p \in Text, SectorsFine(pr, ss), pr.id # 0,
         Len(pr.data) + Len(p) <= SectorSize
  PROVE  Keeps(Hashed(pr.id, Len(pr.data), p), p, [pr EXCEPT !.data = @ \o p], ss)
<1> DEFINE pr2 == [pr EXCEPT !.data = @ \o p]
           piece == Hashed(pr.id, Len(pr.data), p)
           both == pr.data \o p
           o == Len(pr.data)
           n == Len(p)
<1>1. /\ pr \in [id : Nat, data : Text] /\ pr.id \in DOMAIN ss /\ pr.id \in Nat
      /\ pr.data \in Seq(Byte) /\ p \in Seq(Byte) /\ o \in Nat /\ n \in Nat
  <2>1. /\ pr \in [id : Nat, data : Text] /\ pr.id \in DOMAIN ss /\ pr.id \in Nat
        /\ pr.data \in Seq(Byte) /\ p \in Seq(Byte)
    BY DEF SectorsFine, Text
  <2>2. QED
    BY <2>1, LenProperties
<1>2. /\ both \in Seq(Byte) /\ Len(both) = o + n
      /\ \A i \in 1 .. o + n : both[i] = IF i <= o THEN pr.data[i] ELSE p[i - o]
  BY <1>1, ConcatProperties
<1>3. pr2.id = pr.id /\ pr2.data = both
  BY <1>1
<1>4. /\ piece.sector = pr.id /\ piece.offset = o /\ piece.length = n
      /\ piece.hashed = TRUE /\ piece.hash = p
      /\ piece \in [sector : Nat, offset : Nat, length : Nat, hashed : {TRUE}, hash : Text]
  BY <1>1 DEF Hashed
<1>5. piece \in Pieces /\ piece.hashed
  BY <1>4, Zenon DEF Pieces
<1> HIDE DEF both, o, n, pr2, piece
<1>6. Source(pr2, ss, pr.id) = both
  BY <1>3 DEF Source
<1>7. \A i \in 1 .. n : both[o + i] = p[i]
  <2> TAKE i \in 1 .. n
  <2> DEFINE j == o + i
  <2>1. j \in 1 .. o + n /\ ~(j <= o) /\ j - o = i
    BY <1>1
  <2> HIDE DEF j
  <2>2. both[j] = IF j <= o THEN pr.data[j] ELSE p[j - o]
    BY <1>2, <2>1
  <2>3. both[j] = p[i]
    BY <2>1, <2>2
  <2>4. QED
    BY <2>3 DEF j
<1>8. p = SubSeq(both, o + 1, o + n)
  <2>1. \A i \in o + 1 .. o + n : i \in 1 .. Len(both) /\ both[i] \in Byte
    <3>1. \A i \in o + 1 .. o + n : i \in 1 .. Len(both)
      BY <1>1, <1>2
    <3>2. QED
      BY <1>2, <3>1, ElementOfSeq
  <2>2. /\ SubSeq(both, o + 1, o + n) \in Seq(Byte)
        /\ Len(SubSeq(both, o + 1, o + n)) = IF o + 1 <= o + n THEN (o + n) - (o + 1) + 1 ELSE 0
        /\ \A i \in 1 .. (o + n) - (o + 1) + 1 : SubSeq(both, o + 1, o + n)[i] = both[o + 1 + i - 1]
    <3> DEFINE x == o + 1
               y == o + n
    <3>1. x \in Int /\ y \in Int /\ \A i \in x .. y : both[i] \in Byte
      BY <1>1, <2>1
    <3> HIDE DEF x, y
    <3>2. /\ SubSeq(both, x, y) \in Seq(Byte)
          /\ Len(SubSeq(both, x, y)) = IF x <= y THEN y - x + 1 ELSE 0
          /\ \A i \in 1 .. y - x + 1 : SubSeq(both, x, y)[i] = both[x + i - 1]
      BY <3>1, SubSeqProperties
    <3>3. QED
      BY <3>2 DEF x, y
  <2>3. /\ (o + n) - (o + 1) + 1 = n
        /\ (IF o + 1 <= o + n THEN (o + n) - (o + 1) + 1 ELSE 0) = n
        /\ \A i \in 1 .. n : o + 1 + i - 1 = o + i
    BY <1>1
  <2> DEFINE sub == SubSeq(both, o + 1, o + n)
  <2>4. sub \in Seq(Byte) /\ Len(sub) = n /\ \A i \in 1 .. n : sub[i] = p[i]
    BY <1>7, <2>2, <2>3
  <2> HIDE DEF sub
  <2>5. p = sub
    BY <1>1, <2>4, SeqEqual DEF n
  <2>6. QED
    BY <2>5 DEF sub
<1>9. PieceKept(piece, pr2, ss)
  <2>1. piece.offset + piece.length <= Len(both)
    BY <1>1, <1>2, <1>4
  <2>2. QED
    BY <1>1, <1>3, <1>4, <1>5, <1>6, <1>8, <2>1 DEF PieceKept
<1>10. Same(p, 0, both, o, n)
  <2>1. \A i \in 1 .. n : 0 + i = i
    BY <1>1
  <2>2. QED
    BY <1>7, <2>1 DEF Same
<1>11. piece.length # 0 => PieceLength(piece) = n
  BY <1>4 DEF PieceLength
<1>12. Keeps(piece, p, pr2, ss)
  BY <1>4, <1>5, <1>6, <1>9, <1>10, <1>11 DEF Keeps, n
<1>13. QED
  BY <1>12 DEF piece, pr2

\* The piece of a sector of its own.
LEMMA PlainKeeps ==
  ASSUME NEW pr, NEW ss, NEW p \in Text, Len(p) >= MinSizeForSector, SectorsFine(pr, ss)
  PROVE  Keeps(Plain(NextSector(ss), p), p, pr, Append(ss, Padded(p)))
<1> DEFINE next == NextSector(ss)
           piece == Plain(next, p)
           ss2 == Append(ss, Padded(p))
           n == Len(p)
<1>1. p \in Seq(Byte) /\ n \in Nat /\ n <= SectorSize
  <2>1. p \in Seq(Byte) /\ Len(p) <= SectorSize
    BY DEF Text
  <2>2. QED
    BY <2>1, LenProperties
<1>2. SectorSize \in Nat /\ SectorSize > 1 /\ n # 0
  <2>1. SectorSize \in Nat /\ SectorSize > 1
    BY FilesAssumption
  <2>2. (SectorSize * 95) \div 100 >= 1
    BY <2>1
  <2>3. QED
    BY <1>1, <2>1, <2>2 DEF MinSizeForSector
<1>3. Padded(p) \in Seq(Byte) /\ Len(Padded(p)) = SectorSize /\ Prefix(p, Padded(p))
  BY PaddedText
<1>4. [pr EXCEPT !.id = pr.id] = pr
  BY DEF SectorsFine
<1>5. next \in DOMAIN ss2 /\ ss2[next] = Padded(p) /\ next # pr.id /\ next \in Nat
  BY <1>3, <1>4, NewSectorGrows
<1> HIDE DEF next, ss2
<1>6. /\ piece.sector = next /\ piece.offset = 0 /\ piece.hashed = FALSE
      /\ piece.length = IF n = SectorSize THEN 0 ELSE n
      /\ piece \in [sector : Nat, offset : {0}, length : Nat, hashed : {FALSE}]
  BY <1>1, <1>2, <1>5 DEF Plain
<1>7. piece \in Pieces
  BY <1>6, Zenon DEF Pieces
<1> HIDE DEF piece, n
<1>8. ~piece.hashed /\ piece.length < SectorSize /\ PieceLength(piece) = n
  BY <1>1, <1>2, <1>6 DEF PieceLength
<1>9. Source(pr, ss2, next) = Padded(p)
  BY <1>5 DEF Source
<1>10. PieceKept(piece, pr, ss2)
  BY <1>3, <1>5, <1>6, <1>8, <1>9 DEF PieceKept
<1>11. Same(p, 0, Padded(p), 0, n)
  <2>1. \A i \in 1 .. n : 0 + i = i
    BY <1>1
  <2>2. QED
    BY <1>3, <2>1 DEF Same, Prefix, n
<1>12. Keeps(piece, p, pr, ss2)
  BY <1>6, <1>7, <1>8, <1>9, <1>10, <1>11 DEF Keeps, n
<1>13. QED
  BY <1>12 DEF piece, next, ss2

-----------------------------------------------------------------------------
(* The calls of the file layer keep the files                              *)

AddingFine(a, pr, ss) == a # NotAdding => ~a.piece.hashed /\ Keeps(a.piece, a.data, pr, ss)

FilesInv ==
  /\ FilesFine(files, written, progress, sectors)
  /\ DOMAIN adding = Clients /\ DOMAIN handles = Clients
  /\ \A c \in Clients : AddingFine(adding[c], progress, sectors)

\* A new File object.
LEMMA FileAdded ==
  ASSUME NEW fs, NEW ws, NEW pr, NEW ss, NEW fi, NEW w,
         FilesFine(fs, ws, pr, ss), FileFine(fi, w, pr, ss)
  PROVE  /\ FilesFine(Append(fs, fi), Append(ws, w), pr, ss)
         /\ Len(Append(fs, fi)) = Len(fs) + 1 /\ Len(fs) \in Nat
<1> DEFINE fs2 == Append(fs, fi)
           ws2 == Append(ws, w)
<1>1. /\ fs \in Seq(FileObjects) /\ ws \in Seq(Seq(Byte)) /\ Len(fs) = Len(ws)
      /\ fi \in FileObjects /\ w \in Seq(Byte) /\ Len(fs) \in Nat
  <2>1. /\ fs \in Seq(FileObjects) /\ ws \in Seq(Seq(Byte)) /\ Len(fs) = Len(ws)
        /\ fi \in FileObjects /\ w \in Seq(Byte)
    BY DEF FilesFine, FileFine
  <2>2. QED
    BY <2>1, LenProperties
<1>2. /\ fs2 \in Seq(FileObjects) /\ Len(fs2) = Len(fs) + 1
      /\ \A f \in 1 .. Len(fs) : fs2[f] = fs[f]
      /\ fs2[Len(fs) + 1] = fi
  BY <1>1, AppendProperties
<1>3. /\ ws2 \in Seq(Seq(Byte)) /\ Len(ws2) = Len(ws) + 1
      /\ \A f \in 1 .. Len(ws) : ws2[f] = ws[f]
      /\ ws2[Len(ws) + 1] = w
  BY <1>1, AppendProperties
<1> HIDE DEF fs2, ws2
<1>4. ASSUME NEW f \in 1 .. Len(fs2) PROVE FileFine(fs2[f], ws2[f], pr, ss)
  <2>1. f \in 1 .. Len(fs) \/ f = Len(fs) + 1
    BY <1>1, <1>2
  <2>2. CASE f \in 1 .. Len(fs)
    BY <1>1, <1>2, <1>3, <2>2 DEF FilesFine
  <2>3. CASE f = Len(fs) + 1
    BY <1>1, <1>2, <1>3, <2>3
  <2>4. QED
    BY <2>1, <2>2, <2>3
<1>5. SectorsFine(pr, ss)
  BY DEF FilesFine
<1>6. FilesFine(fs2, ws2, pr, ss)
  BY <1>1, <1>2, <1>3, <1>4, <1>5 DEF FilesFine
<1>7. QED
  BY <1>1, <1>2, <1>6 DEF fs2, ws2

\* AppendPiece.
FilesWith(fs, f, piece, p) == [fs EXCEPT ![f].pieces = Append(@, piece), ![f].size = @ + Len(p)]
TextsWith(ws, f, p) == [ws EXCEPT ![f] = @ \o p]

LEMMA FileWritten ==
  ASSUME NEW fs, NEW ws, NEW pr, NEW ss, FilesFine(fs, ws, pr, ss),
         NEW f \in DOMAIN fs, NEW piece, NEW p, Keeps(piece, p, pr, ss)
  PROVE  LET fs2 == FilesWith(fs, f, piece, p)
             ws2 == TextsWith(ws, f, p)
         IN /\ FilesFine(fs2, ws2, pr, ss) /\ Len(fs2) = Len(fs)
            /\ DOMAIN ws = DOMAIN fs
            /\ \A g \in DOMAIN fs : ws2[g] = IF g = f THEN ws[f] \o p ELSE ws[g]
<1> DEFINE fi == [pieces |-> Append(fs[f].pieces, piece), size |-> fs[f].size + Len(p)]
           w == ws[f] \o p
           fs2 == [fs EXCEPT ![f].pieces = Append(@, piece), ![f].size = @ + Len(p)]
           ws2 == [ws EXCEPT ![f] = @ \o p]
<1>1. /\ fs \in Seq(FileObjects) /\ ws \in Seq(Seq(Byte)) /\ Len(fs) = Len(ws)
      /\ Len(fs) \in Nat /\ DOMAIN fs = 1 .. Len(fs) /\ DOMAIN ws = DOMAIN fs
  <2>1. fs \in Seq(FileObjects) /\ ws \in Seq(Seq(Byte)) /\ Len(fs) = Len(ws)
    BY DEF FilesFine
  <2>2. QED
    BY <2>1, LenProperties
<1>2. FileFine(fs[f], ws[f], pr, ss) /\ fs[f] \in FileObjects /\ f \in 1 .. Len(fs)
  BY <1>1 DEF FilesFine, FileFine
<1>3. FileFine(fi, w, pr, ss)
  <2> DEFINE old == fs[f]
             bytes == ws[f]
  <2>1. FileFine(old, bytes, pr, ss)
    BY <1>2
  <2> HIDE DEF old, bytes
  <2>2. FileFine([pieces |-> Append(old.pieces, piece), size |-> old.size + Len(p)], bytes \o p, pr, ss)
    BY <2>1, PieceAppended
  <2>3. QED
    BY <2>2 DEF old, bytes
<1>4. fi \in FileObjects /\ w \in Seq(Byte)
  BY <1>3 DEF FileFine
<1>5. fs2 = [fs EXCEPT ![f] = fi]
  <2>1. fs[f] = [pieces |-> fs[f].pieces, size |-> fs[f].size]
    BY <1>2 DEF FileObjects
  <2> DEFINE old == fs[f]
  <2>2. old = [pieces |-> old.pieces, size |-> old.size]
    BY <2>1
  <2>3. /\ DOMAIN fs2 = DOMAIN fs
        /\ fs2[f] = [[old EXCEPT !.pieces = Append(@, piece)] EXCEPT !.size = @ + Len(p)]
        /\ \A g \in DOMAIN fs \ {f} : fs2[g] = fs[g]
    OBVIOUS
  <2>4. [[old EXCEPT !.pieces = Append(@, piece)] EXCEPT !.size = @ + Len(p)] = fi
    <3> DEFINE z == [[old EXCEPT !.pieces = Append(@, piece)] EXCEPT !.size = @ + Len(p)]
               a == Append(old.pieces, piece)
               b == old.size + Len(p)
    <3>1. a \in Seq(Pieces) /\ b \in Nat
      BY <1>4 DEF FileObjects
    <3>2. old \in [pieces : Seq(Pieces), size : Nat]
      BY <1>2 DEF FileObjects
    <3> HIDE DEF old
    <3>3. z = [[old EXCEPT !.pieces = a] EXCEPT !.size = b]
      BY <3>2
    <3> HIDE DEF a, b, z
    <3>4. z = [pieces |-> a, size |-> b]
      BY <3>1, <3>2, <3>3
    <3>5. QED
      BY <3>4 DEF z, a, b, old
  <2>5. fs2 = [g \in DOMAIN fs |-> fs2[g]]
    OBVIOUS
  <2> HIDE DEF fs2, fi, old
  <2>6. QED
    BY <2>3, <2>4, <2>5
<1>6. ws2 = [ws EXCEPT ![f] = w]
  OBVIOUS
<1> HIDE DEF fi, w, fs2, ws2
<1>7. /\ fs2 \in Seq(FileObjects) /\ Len(fs2) = Len(fs)
      /\ \A g \in 1 .. Len(fs) : fs2[g] = IF g = f THEN fi ELSE fs[g]
  BY <1>1, <1>2, <1>4, <1>5, ExceptSeq
<1>8. /\ ws2 \in Seq(Seq(Byte)) /\ Len(ws2) = Len(ws)
      /\ \A g \in 1 .. Len(ws) : ws2[g] = IF g = f THEN w ELSE ws[g]
  BY <1>1, <1>2, <1>4, <1>6, ExceptSeq
<1>9. ASSUME NEW g \in 1 .. Len(fs2) PROVE FileFine(fs2[g], ws2[g], pr, ss)
  <2>1. g \in 1 .. Len(fs)
    BY <1>7
  <2>2. CASE g = f
    BY <1>1, <1>3, <1>7, <1>8, <2>1, <2>2
  <2>3. CASE g # f
    BY <1>1, <1>7, <1>8, <2>1, <2>3 DEF FilesFine
  <2>4. QED
    BY <2>2, <2>3
<1>10. FilesFine(fs2, ws2, pr, ss)
  <2>1. SectorsFine(pr, ss)
    BY DEF FilesFine
  <2>2. QED
    BY <1>1, <1>7, <1>8, <1>9, <2>1 DEF FilesFine
<1>11. QED
  BY <1>1, <1>7, <1>8, <1>10 DEF fs2, ws2, w, FilesWith, TextsWith

LEMMA AddingStays ==
  ASSUME NEW pr2, NEW ss2, NEW pr, NEW ss, NEW a, SectorsFine(pr, ss), SectorsFine(pr2, ss2),
         Grows(pr, ss, pr2, ss2), AddingFine(a, pr, ss)
  PROVE  AddingFine(a, pr2, ss2)
BY KeepsStays DEF AddingFine

\* What AppendPiece leaves of the other files.
OnlyWrites(f, p) ==
  /\ Len(files') = Len(files) /\ DOMAIN written = DOMAIN files
  /\ \A g \in DOMAIN files : written'[g] = IF g = f THEN written[f] \o p ELSE written[g]

LEMMA WriteShortFine ==
  ASSUME FilesInv, NEW c \in Clients, NEW p \in Text, handles[c] \in DOMAIN files, WriteShort(c, p)
  PROVE  FilesInv' /\ OnlyWrites(handles[c], p)
<1> DEFINE st == RoomFor(p)
           f == handles[c]
           pr == st.progress
           pr2 == [pr EXCEPT !.data = @ \o p]
           ss2 == st.sectors
           piece == Hashed(pr.id, Len(pr.data), p)
<1>1. SectorsFine(progress, sectors) /\ FilesFine(files, written, progress, sectors)
  BY DEF FilesInv, FilesFine
<1>2. /\ SectorsFine(pr, ss2) /\ Grows(progress, sectors, pr, ss2)
      /\ pr.id # 0 /\ Len(pr.data) + Len(p) <= SectorSize
  BY <1>1, RoomGrows
<1>3. /\ AppendPiece(f, piece, p) /\ progress' = pr2 /\ sectors' = ss2
      /\ adding' = adding /\ handles' = [handles EXCEPT ![c] = 0]
  BY DEF WriteShort, Close
<1> HIDE DEF st, pr, ss2
<1>4. SectorsFine(pr2, ss2) /\ Grows(pr, ss2, pr2, ss2) /\ Keeps(piece, p, pr2, ss2)
  BY <1>2, BufferGrows, ShortKeeps
<1> HIDE DEF piece, pr2
<1>5. Grows(progress, sectors, pr2, ss2)
  BY <1>1, <1>2, <1>4, GrowsOn
<1>6. FilesFine(files, written, pr2, ss2)
  BY <1>1, <1>4, <1>5, GrowsFine
<1>7. /\ FilesFine(files', written', pr2, ss2) /\ OnlyWrites(f, p)
  <2>1. files' = FilesWith(files, f, piece, p) /\ written' = TextsWith(written, f, p)
    BY <1>3 DEF AppendPiece, FilesWith, TextsWith
  <2>2. f \in DOMAIN files
    OBVIOUS
  <2> HIDE DEF f
  <2>3. /\ FilesFine(files', written', pr2, ss2) /\ Len(files') = Len(files)
        /\ DOMAIN written = DOMAIN files
        /\ \A g \in DOMAIN files : written'[g] = IF g = f THEN written[f] \o p ELSE written[g]
    BY <1>4, <1>6, <2>1, <2>2, FileWritten
  <2>4. QED
    BY <2>3 DEF OnlyWrites
<1>8. \A d \in Clients : AddingFine(adding[d], pr2, ss2)
  BY <1>1, <1>4, <1>5, AddingStays DEF FilesInv
<1>9. DOMAIN adding' = Clients /\ DOMAIN handles' = Clients
  BY <1>3 DEF FilesInv
<1>10. QED
  BY <1>3, <1>7, <1>8, <1>9 DEF FilesInv

LEMMA AddSectorFine ==
  ASSUME FilesInv, NEW c \in Clients, NEW p \in Text, AddSector(c, p)
  PROVE  FilesInv'
<1> DEFINE ss2 == Append(sectors, Padded(p))
           piece == Plain(NextSector(sectors), p)
<1>1. SectorsFine(progress, sectors) /\ FilesFine(files, written, progress, sectors)
  BY DEF FilesInv, FilesFine
<1>2. /\ sectors' = ss2 /\ adding' = [adding EXCEPT ![c] = [data |-> p, piece |-> piece]]
      /\ files' = files /\ progress' = progress /\ handles' = handles /\ written' = written
      /\ Len(p) >= MinSizeForSector
  BY DEF AddSector
<1>3. SectorsFine(progress, ss2) /\ Grows(progress, sectors, progress, ss2)
  <2>1. [progress EXCEPT !.id = progress.id] = progress
    <3>1. progress \in [id : Nat, data : Text]
      BY <1>1 DEF SectorsFine
    <3>2. QED
      BY ONLY <3>1
  <2>2. Padded(p) \in Seq(Byte)
    BY PaddedText
  <2>3. LET pr2 == [progress EXCEPT !.id = progress.id]
        IN SectorsFine(pr2, ss2) /\ Grows(progress, sectors, pr2, ss2)
    BY <1>1, <2>2, NewSectorGrows
  <2>4. QED
    BY <2>1, <2>3
<1>4. Keeps(piece, p, progress, ss2) /\ piece.hashed = FALSE
  BY <1>1, <1>2, PlainKeeps DEF Plain
<1> HIDE DEF ss2, piece
<1>5. FilesFine(files, written, progress, ss2)
  BY <1>1, <1>3, GrowsFine
<1>6. ASSUME NEW d \in Clients PROVE AddingFine(adding'[d], progress, ss2)
  <2>1. CASE d = c
    <3>1. adding'[d] = [data |-> p, piece |-> piece]
      BY <1>2, <2>1 DEF FilesInv
    <3>2. adding'[d].data = p /\ adding'[d].piece = piece
      BY <3>1
    <3>3. QED
      BY <1>4, <3>2 DEF AddingFine
  <2>2. CASE d # c
    <3>1. adding'[d] = adding[d]
      BY <1>2, <2>2 DEF FilesInv
    <3>2. QED
      BY <1>1, <1>3, <3>1, AddingStays DEF FilesInv
  <2>3. QED
    BY <2>1, <2>2
<1>7. DOMAIN adding' = Clients /\ DOMAIN handles' = Clients
  BY <1>2 DEF FilesInv
<1>8. QED
  BY <1>2, <1>5, <1>6, <1>7 DEF FilesInv

LEMMA FinishAddFine ==
  ASSUME FilesInv, NEW c \in Clients, handles[c] \in DOMAIN files, FinishAdd(c)
  PROVE  FilesInv' /\ OnlyWrites(handles[c], adding[c].data)
<1> DEFINE f == handles[c]
           piece == adding[c].piece
           p == adding[c].data
<1>1. /\ adding[c] # NotAdding /\ AppendPiece(f, piece, p)
      /\ adding' = [adding EXCEPT ![c] = NotAdding] /\ handles' = [handles EXCEPT ![c] = 0]
      /\ progress' = progress /\ sectors' = sectors
  BY DEF FinishAdd, Close
<1>2. Keeps(piece, p, progress, sectors)
  BY <1>1 DEF FilesInv, AddingFine
<1>3. files' = FilesWith(files, f, piece, p) /\ written' = TextsWith(written, f, p)
  BY <1>1 DEF AppendPiece, FilesWith, TextsWith
<1> HIDE DEF f, piece, p
<1>4. FilesFine(files', written', progress, sectors) /\ OnlyWrites(f, p)
  <2>1. f \in DOMAIN files /\ FilesFine(files, written, progress, sectors)
    BY DEF f, FilesInv
  <2>2. /\ FilesFine(files', written', progress, sectors) /\ Len(files') = Len(files)
        /\ DOMAIN written = DOMAIN files
        /\ \A g \in DOMAIN files : written'[g] = IF g = f THEN written[f] \o p ELSE written[g]
    BY <1>2, <1>3, <2>1, FileWritten
  <2>3. QED
    BY <2>2 DEF OnlyWrites
<1>5. \A d \in Clients : AddingFine(adding'[d], progress, sectors)
  <2> TAKE d \in Clients
  <2>1. adding'[d] = NotAdding \/ adding'[d] = adding[d]
    BY <1>1 DEF FilesInv
  <2>2. AddingFine(adding[d], progress, sectors)
    BY DEF FilesInv
  <2>3. CASE adding'[d] = NotAdding
    BY <2>3 DEF AddingFine
  <2>4. CASE adding'[d] = adding[d]
    BY <2>2, <2>4
  <2>5. QED
    BY <2>1, <2>3, <2>4
<1>6. QED
  BY <1>1, <1>4, <1>5 DEF FilesInv, f, p

LEMMA NewFileFine ==
  ASSUME FilesInv, NEW name, NEW fi, NEW w, NEW hs, NewFile(name, fi, w, hs),
         FileFine(fi, w, progress, sectors), DOMAIN hs = Clients,
         UNCHANGED <<progress, sectors, adding>>
  PROVE  /\ FilesInv' /\ Len(files') = Len(files) + 1 /\ Len(files) \in Nat
         /\ DOMAIN files = 1 .. Len(files) /\ written'[Len(files) + 1] = w
         /\ \A g \in DOMAIN files : written'[g] = written[g]
<1>1. FilesFine(files, written, progress, sectors)
  BY DEF FilesInv
<1>2. files' = Append(files, fi) /\ written' = Append(written, w) /\ handles' = hs
  BY DEF NewFile
<1>3. FilesFine(files', written', progress, sectors) /\ Len(files') = Len(files) + 1
  BY <1>1, <1>2, FileAdded
<1>4. /\ files \in Seq(FileObjects) /\ written \in Seq(Seq(Byte)) /\ Len(files) = Len(written)
      /\ w \in Seq(Byte)
  BY <1>1 DEF FilesFine, FileFine
<1>5. Len(files) \in Nat /\ DOMAIN files = 1 .. Len(files)
  BY <1>4, LenProperties
<1>6. written'[Len(files) + 1] = w /\ \A g \in DOMAIN files : written'[g] = written[g]
  BY <1>2, <1>4, <1>5, AppendProperties
<1>7. QED
  BY <1>2, <1>3, <1>5, <1>6 DEF FilesInv

LEMMA UploadFine ==
  ASSUME FilesInv, UploadSectorInProgress
  PROVE  FilesInv' /\ progress'.data = << >>
<1> DEFINE st == Uploaded(Current)
<1>1. SectorsFine(progress, sectors) /\ FilesFine(files, written, progress, sectors)
  BY DEF FilesInv, FilesFine
<1>2. Current.progress = progress /\ Current.sectors = sectors
  BY DEF Current
<1>3. /\ SectorsFine(st.progress, st.sectors) /\ st.progress.data = << >>
      /\ Grows(progress, sectors, st.progress, st.sectors)
  BY <1>1, <1>2, UploadGrows
<1>4. /\ progress' = st.progress /\ sectors' = st.sectors
      /\ UNCHANGED <<names, files, handles, adding, written>>
  BY DEF UploadSectorInProgress
<1> HIDE DEF st
<1>5. FilesFine(files, written, st.progress, st.sectors)
  BY <1>1, <1>3, GrowsFine
<1>6. \A d \in Clients : AddingFine(adding[d], st.progress, st.sectors)
  BY <1>1, <1>3, AddingStays DEF FilesInv
<1>7. QED
  BY <1>3, <1>4, <1>5, <1>6 DEF FilesInv

-----------------------------------------------------------------------------
(* Tuples as lists of calls                                                *)

LEMMA PartsOfTuples ==
  /\ \A a : Head(<<a>>) = a /\ Tail(<<a>>) = << >> /\ Len(<<a>>) = 1
  /\ \A a, b : Head(<<a, b>>) = a /\ Tail(<<a, b>>) = <<b>> /\ Len(<<a, b>>) = 2
  /\ \A a, b, c : Head(<<a, b, c>>) = a /\ Tail(<<a, b, c>>) = <<b, c>> /\ Len(<<a, b, c>>) = 3
  /\ \A a, b, c, d :
       Head(<<a, b, c, d>>) = a /\ Tail(<<a, b, c, d>>) = <<b, c, d>> /\ Len(<<a, b, c, d>>) = 4
OBVIOUS

LEMMA TwoAndTwo ==
  ASSUME NEW a, NEW b, NEW c, NEW d
  PROVE  <<a, b>> \o <<c, d>> = <<a, b, c, d>>
<1> DEFINE S == {a, b, c, d}
           x == <<a, b>>
           y == <<c, d>>
           z == <<a, b, c, d>>
<1>1. x \in Seq(S) /\ y \in Seq(S) /\ z \in Seq(S) /\ Len(x) = 2 /\ Len(y) = 2 /\ Len(z) = 4
  OBVIOUS
<1>3. x[1] = a /\ x[2] = b /\ y[1] = c /\ y[2] = d /\ z[1] = a /\ z[2] = b /\ z[3] = c /\ z[4] = d
  OBVIOUS
<1> HIDE DEF x, y, z, S
<1>2. /\ x \o y \in Seq(S) /\ Len(x \o y) = 4
      /\ (x \o y)[1] = a /\ (x \o y)[2] = b /\ (x \o y)[3] = c /\ (x \o y)[4] = d
  <2>1. /\ x \o y \in Seq(S) /\ Len(x \o y) = 2 + 2
        /\ \A i \in 1 .. 2 + 2 : (x \o y)[i] = IF i <= 2 THEN x[i] ELSE y[i - 2]
    <3>1. /\ x \o y \in Seq(S) /\ Len(x \o y) = Len(x) + Len(y)
          /\ \A i \in 1 .. Len(x) + Len(y) : (x \o y)[i] = IF i <= Len(x) THEN x[i] ELSE y[i - Len(x)]
      BY <1>1, ConcatProperties
    <3>2. QED
      BY <1>1, <3>1, Zenon
  <2>2. 1 \in 1 .. 2 + 2 /\ 2 \in 1 .. 2 + 2 /\ 3 \in 1 .. 2 + 2 /\ 4 \in 1 .. 2 + 2
    OBVIOUS
  <2>3. QED
    BY <1>3, <2>1, <2>2
<1>4. \A i \in 1 .. 4 : (x \o y)[i] = z[i]
  BY <1>2, <1>3
<1>5. x \o y = z
  BY <1>1, <1>2, <1>4, SeqEqual
<1>6. QED
  BY <1>5 DEF x, y, z

LEMMA TwoAndOne ==
  ASSUME NEW a, NEW b, NEW c
  PROVE  Append(<<a, b>>, c) = <<a, b, c>>
<1> DEFINE S == {a, b, c}
           x == <<a, b>>
           z == <<a, b, c>>
<1>1. x \in Seq(S) /\ c \in S /\ z \in Seq(S) /\ Len(x) = 2 /\ Len(z) = 3
  OBVIOUS
<1>3. x[1] = a /\ x[2] = b /\ z[1] = a /\ z[2] = b /\ z[3] = c
  OBVIOUS
<1> HIDE DEF x, z, S
<1>2. /\ Append(x, c) \in Seq(S) /\ Len(Append(x, c)) = Len(x) + 1
      /\ \A i \in 1 .. Len(x) : Append(x, c)[i] = x[i]
      /\ Append(x, c)[Len(x) + 1] = c
  <2>1. x \in Seq(S) /\ c \in S
    BY <1>1
  <2>2. QED
    BY ONLY <2>1, AppendProperties
<1>4. \A i \in 1 .. 3 : Append(x, c)[i] = z[i]
  <2>1. 1 \in 1 .. 2 /\ 2 \in 1 .. 2 /\ 2 + 1 = 3 /\ \A i \in 1 .. 3 : i = 1 \/ i = 2 \/ i = 3
    OBVIOUS
  <2>2. QED
    BY <1>1, <1>2, <1>3, <2>1, Zenon
<1>5. Append(x, c) = z
  BY <1>1, <1>2, <1>4, SeqEqual
<1>6. QED
  BY <1>5 DEF x, z

-----------------------------------------------------------------------------
(* Keys                                                                    *)

\* What is left of an operation; a file that is not there is created.
Put4(k, m, v) == <<Call("open", Metadata(k), m), Call("write", Metadata(k), m),
                   Call("open", Data(k), v), Call("write", Data(k), v)>>
PutCreate4(k, m, v) == <<Call("create", Metadata(k), m), Call("write", Metadata(k), m),
                         Call("open", Data(k), v), Call("write", Data(k), v)>>
Put3(k, m, v) == <<Call("write", Metadata(k), m), Call("open", Data(k), v), Call("write", Data(k), v)>>
Put2(k, v) == <<Call("open", Data(k), v), Call("write", Data(k), v)>>
PutCreate2(k, v) == <<Call("create", Data(k), v), Call("write", Data(k), v)>>
Put1(k, v) == <<Call("write", Data(k), v)>>

Link3(k, m, src) == <<Call("open", Metadata(k), m), Call("write", Metadata(k), m),
                      Call("link", Data(k), Data(src))>>
LinkCreate3(k, m, src) == <<Call("create", Metadata(k), m), Call("write", Metadata(k), m),
                            Call("link", Data(k), Data(src))>>
Link2(k, m, src) == <<Call("write", Metadata(k), m), Call("link", Data(k), Data(src))>>
Link1(k, src) == <<Call("link", Data(k), Data(src))>>

Delete2(k) == <<Call("delete", Metadata(k), << >>), Call("delete", Data(k), << >>)>>
Delete1(k) == <<Call("delete", Data(k), << >>)>>

\* The client has no file open; it has, and is to write p.
Fresh(c) == handles[c] = 0 /\ adding[c] = NotAdding
Writing(c, name, p) ==
  /\ name \in DOMAIN names /\ handles[c] = names[name]
  /\ adding[c] # NotAdding => adding[c].data = p

MetaIs(k, bytes) == Metadata(k) \in DOMAIN names /\ written[names[Metadata(k)]] = bytes

\* Also of keys that are written or halved.
ValueFine(k) ==
  /\ Data(k) \in DOMAIN names => written[names[Data(k)]] = Held(k).value
  /\ k \in DOMAIN store => Data(k) \in DOMAIN names

\* The files of a key are those of the store.
OldMeta(k) ==
  /\ k \in DOMAIN store => MetaIs(k, Held(k).meta)
  /\ k \notin DOMAIN store => Metadata(k) \notin DOMAIN names
OldValue(k) == Data(k) \in DOMAIN names => k \in DOMAIN store
Settled(k) == OldMeta(k) /\ OldValue(k)

\* Where an operation on k is, and what it has made of the files of k; of
\* halved keys only that a file is open and that a deleted one is not there.
Putting(c, k, m, v) ==
  LET sound == k \notin halved
      new == Held(k).meta \o m
  IN /\ m \in Text /\ v \in Text
     /\ \/ /\ todo[c] = Put4(k, m, v) /\ Fresh(c)
           /\ sound => Settled(k)
        \/ /\ todo[c] = PutCreate4(k, m, v) /\ Fresh(c) /\ Metadata(k) \notin DOMAIN names
           /\ sound => Settled(k)
        \/ /\ todo[c] = Put3(k, m, v) /\ Writing(c, Metadata(k), m)
           /\ sound => MetaIs(k, Held(k).meta) /\ OldValue(k)
        \/ /\ todo[c] = Put2(k, v) /\ Fresh(c)
           /\ sound => MetaIs(k, new) /\ OldValue(k)
        \/ /\ todo[c] = PutCreate2(k, v) /\ Fresh(c) /\ Data(k) \notin DOMAIN names
           /\ sound => MetaIs(k, new)
        \/ /\ todo[c] = Put1(k, v) /\ Writing(c, Data(k), v)
           /\ sound => MetaIs(k, new)

Linking(c, k, m, src) ==
  LET sound == k \notin halved
  IN /\ m \in Text /\ src \in Keys /\ src # k
     /\ \/ /\ todo[c] = Link3(k, m, src) /\ Fresh(c)
           /\ sound => Settled(k)
        \/ /\ todo[c] = LinkCreate3(k, m, src) /\ Fresh(c) /\ Metadata(k) \notin DOMAIN names
           /\ sound => Settled(k)
        \/ /\ todo[c] = Link2(k, m, src) /\ Writing(c, Metadata(k), m)
           /\ sound => MetaIs(k, Held(k).meta) /\ OldValue(k)
        \/ /\ todo[c] = Link1(k, src) /\ Fresh(c)
           /\ sound => MetaIs(k, Held(k).meta \o m) /\ OldValue(k)

Deleting(c, k) ==
  LET sound == k \notin halved
  IN /\ Fresh(c)
     /\ \/ /\ todo[c] = DeleteCalls(k)
           /\ sound => Settled(k)
        \/ /\ todo[c] = Delete2(k)
           /\ sound => OldValue(k)
        \/ /\ todo[c] = Delete1(k) /\ Metadata(k) \notin DOMAIN names

Stage(c, k) ==
  \/ wanted[c].op = "put" /\ Putting(c, k, wanted[c].meta, wanted[c].value)
  \/ wanted[c].op = "link" /\ Linking(c, k, wanted[c].meta, wanted[c].src)
  \/ wanted[c].op = "delete" /\ Deleting(c, k)

ClientFine(c) ==
  /\ todo[c] = << >> => Fresh(c)
  /\ todo[c] # << >> => key[c] \in Keys /\ Stage(c, key[c])

NamesFine ==
  /\ DOMAIN names \subseteq KeyFiles
  /\ \A x \in DOMAIN names : names[x] \in DOMAIN files
  /\ \A x, y \in DOMAIN names : names[x] = names[y] => x = y

KeysInv ==
  /\ NamesFine
  /\ \A k \in Keys : ValueFine(k)
  /\ \A k \in Keys : k \notin halved /\ ~Busy(k) => Settled(k)
  /\ DOMAIN todo = Clients /\ DOMAIN key = Clients /\ DOMAIN wanted = Clients
  /\ \A c \in Clients : ClientFine(c)
  /\ \A c, d \in Clients : todo[c] # << >> /\ todo[d] # << >> /\ key[c] = key[d] => c = d

-----------------------------------------------------------------------------
(* A step of one client leaves the keys of the others                      *)

FilesOf(j) == {Metadata(j), Data(j)}

FilesFrame(k) ==
  \A x \in KeyFiles \ FilesOf(k) :
    /\ x \in DOMAIN names' <=> x \in DOMAIN names
    /\ x \in DOMAIN names => names'[x] = names[x] /\ written'[names[x]] = written[names[x]]

StoreFrame(k) ==
  \A j \in Keys \ {k} :
    /\ j \in DOMAIN store' <=> j \in DOMAIN store
    /\ j \in DOMAIN store => store'[j] = store[j]
    /\ j \in halved' <=> j \in halved

TodoFrame(c) ==
  /\ DOMAIN todo' = Clients /\ DOMAIN key' = Clients /\ DOMAIN wanted' = Clients
  /\ \A d \in Clients \ {c} : todo'[d] = todo[d] /\ wanted'[d] = wanted[d] /\ key'[d] = key[d]

HandleFrame(c) ==
  \A d \in Clients \ {c} : handles'[d] = handles[d] /\ adding'[d] = adding[d]

Frame(c, k) == FilesFrame(k) /\ StoreFrame(k) /\ TodoFrame(c) /\ HandleFrame(c)

LEMMA FilesApart ==
  ASSUME NEW k \in Keys
  PROVE  /\ Metadata(k) \in FilesOf(k) /\ Data(k) \in FilesOf(k) /\ Metadata(k) # Data(k)
         /\ Metadata(k) \in KeyFiles /\ Data(k) \in KeyFiles
         /\ \A j \in Keys \ {k} : FilesOf(j) \subseteq KeyFiles \ FilesOf(k)
<1>1. \A j \in Keys : Metadata(j) \in KeyFiles /\ Data(j) \in KeyFiles
  BY DEF Metadata, Data, KeyFiles
<1>2. \A i, j : Metadata(i) # Data(j)
  BY DEF Metadata, Data
<1>3. \A i, j : i # j => Metadata(i) # Metadata(j) /\ Data(i) # Data(j)
  BY DEF Metadata, Data
<1>4. QED
  BY <1>1, <1>2, <1>3 DEF FilesOf

LEMMA KeysStay ==
  ASSUME NEW c, NEW k \in Keys, Frame(c, k), NEW j \in Keys \ {k}
  PROVE  /\ ValueFine(j) => ValueFine(j)'
         /\ OldValue(j) => OldValue(j)'
         /\ Settled(j) => Settled(j)'
         /\ \A bytes : MetaIs(j, bytes) => MetaIs(j, bytes)'
         /\ Held(j)' = Held(j)
         /\ j \in halved' <=> j \in halved
         /\ \A x \in FilesOf(j) :
              /\ x \in DOMAIN names' <=> x \in DOMAIN names
              /\ x \in DOMAIN names => names'[x] = names[x]
<1>1. Held(j)' = Held(j)
  BY DEF Frame, StoreFrame, Held
<1>2. \A x \in FilesOf(j) :
        /\ x \in DOMAIN names' <=> x \in DOMAIN names
        /\ x \in DOMAIN names => names'[x] = names[x] /\ written'[names[x]] = written[names[x]]
  BY FilesApart DEF Frame, FilesFrame
<1>3. /\ j \in DOMAIN store' <=> j \in DOMAIN store
      /\ j \in halved' <=> j \in halved
  BY DEF Frame, StoreFrame
<1>4. Metadata(j) \in FilesOf(j) /\ Data(j) \in FilesOf(j)
  BY DEF FilesOf
<1>5. ASSUME NEW bytes, MetaIs(j, bytes) PROVE MetaIs(j, bytes)'
  BY <1>2, <1>4, <1>5 DEF MetaIs
<1>6. OldMeta(j) => OldMeta(j)'
  BY <1>1, <1>2, <1>3, <1>4, <1>5 DEF OldMeta
<1>7. OldValue(j) => OldValue(j)'
  BY <1>2, <1>3, <1>4 DEF OldValue
<1>8. Settled(j) => Settled(j)'
  BY <1>6, <1>7 DEF Settled
<1>9. ValueFine(j) => ValueFine(j)'
  BY <1>1, <1>2, <1>3, <1>4 DEF ValueFine
<1>10. QED
  BY <1>1, <1>2, <1>3, <1>5, <1>7, <1>8, <1>9

LEMMA OthersStay ==
  ASSUME NEW c, NEW k \in Keys, Frame(c, k), NEW d \in Clients \ {c}, NEW j \in Keys \ {k}
  PROVE  /\ Stage(d, j) => Stage(d, j)'
         /\ Fresh(d) => Fresh(d)'
<1>1. /\ todo'[d] = todo[d] /\ wanted'[d] = wanted[d]
      /\ handles'[d] = handles[d] /\ adding'[d] = adding[d]
  BY DEF Frame, TodoFrame, HandleFrame
<1>2. /\ OldValue(j) => OldValue(j)'
      /\ Settled(j) => Settled(j)'
      /\ Held(j)' = Held(j)
      /\ j \in halved' <=> j \in halved
  BY KeysStay
<1>3. \A bytes : MetaIs(j, bytes) => MetaIs(j, bytes)'
  BY KeysStay
<1>4. \A x \in FilesOf(j) :
        /\ x \in DOMAIN names' <=> x \in DOMAIN names
        /\ x \in DOMAIN names => names'[x] = names[x]
  BY KeysStay
<1>5. Metadata(j) \in FilesOf(j) /\ Data(j) \in FilesOf(j)
  BY DEF FilesOf
<1>6. Fresh(d) => Fresh(d)'
  BY <1>1 DEF Fresh
<1>7. ASSUME NEW x \in FilesOf(j), NEW p, Writing(d, x, p) PROVE Writing(d, x, p)'
  BY <1>1, <1>4, <1>7 DEF Writing
<1>8. /\ Metadata(j) \notin DOMAIN names => Metadata(j) \notin DOMAIN names'
      /\ Data(j) \notin DOMAIN names => Data(j) \notin DOMAIN names'
  BY <1>4, <1>5
<1>9. ASSUME NEW m, NEW v, Putting(d, j, m, v) PROVE Putting(d, j, m, v)'
  <2> DEFINE new == Held(j).meta \o m
             old == Held(j).meta
  <2>1. new' = new /\ old' = old
    BY <1>2
  <2>2. /\ Writing(d, Metadata(j), m) => Writing(d, Metadata(j), m)'
        /\ Writing(d, Data(j), v) => Writing(d, Data(j), v)'
    BY <1>5, <1>7
  <2> HIDE DEF new, old
  <2>3. /\ MetaIs(j, new) => MetaIs(j, new)'
        /\ MetaIs(j, old) => MetaIs(j, old)'
    BY <1>3, <2>1 DEF MetaIs
  <2>4. QED
    BY <1>1, <1>2, <1>6, <1>8, <1>9, <2>2, <2>3 DEF Putting, new, old
<1>10. ASSUME NEW m, NEW src, Linking(d, j, m, src) PROVE Linking(d, j, m, src)'
  <2> DEFINE new == Held(j).meta \o m
             old == Held(j).meta
  <2>1. new' = new /\ old' = old
    BY <1>2
  <2>2. Writing(d, Metadata(j), m) => Writing(d, Metadata(j), m)'
    BY <1>5, <1>7
  <2> HIDE DEF new, old
  <2>3. /\ MetaIs(j, new) => MetaIs(j, new)'
        /\ MetaIs(j, old) => MetaIs(j, old)'
    BY <1>3, <2>1 DEF MetaIs
  <2>4. QED
    BY <1>1, <1>2, <1>6, <1>8, <1>10, <2>2, <2>3 DEF Linking, new, old
<1>11. Deleting(d, j) => Deleting(d, j)'
  BY <1>1, <1>2, <1>6, <1>8 DEF Deleting
<1>12. Stage(d, j) => Stage(d, j)'
  BY <1>1, <1>9, <1>10, <1>11 DEF Stage
<1>13. QED
  BY <1>6, <1>12

LEMMA StepKeeps ==
  ASSUME KeysInv, NEW c \in Clients, NEW k \in Keys, Frame(c, k),
         todo[c] # << >> => key[c] = k,
         todo'[c] # << >> => key'[c] = k,
         \A d \in Clients \ {c} : todo[d] # << >> => key[d] # k,
         NamesFine', ValueFine(k)', ClientFine(c)',
         todo'[c] = << >> /\ k \notin halved' => Settled(k)'
  PROVE  KeysInv'
<1>1. \A d \in Clients \ {c} : todo'[d] = todo[d] /\ key'[d] = key[d]
  BY DEF Frame, TodoFrame
<1>2. \A j \in Keys : ValueFine(j)'
  <2> TAKE j \in Keys
  <2>1. CASE j = k
    BY <2>1
  <2>2. CASE j # k
    BY <2>2, KeysStay DEF KeysInv
  <2>3. QED
    BY <2>1, <2>2
<1>3. \A j \in Keys : j \notin halved' /\ ~Busy(j)' => Settled(j)'
  <2> SUFFICES ASSUME NEW j \in Keys, j \notin halved', ~Busy(j)' PROVE Settled(j)'
    OBVIOUS
  <2>1. CASE j = k
    <3>1. todo'[c] = << >>
      BY <2>1 DEF Busy
    <3>2. QED
      BY <2>1, <3>1
  <2>2. CASE j # k
    <3>1. j \notin halved
      BY <2>2, KeysStay
    <3>2. ~Busy(j)
      BY <1>1, <2>2 DEF Busy
    <3>3. QED
      BY <2>2, <3>1, <3>2, KeysStay DEF KeysInv
  <2>3. QED
    BY <2>1, <2>2
<1>4. \A d \in Clients : ClientFine(d)'
  <2> TAKE d \in Clients
  <2>1. CASE d = c
    BY <2>1
  <2>2. CASE d # c
    <3>1. ClientFine(d) /\ todo'[d] = todo[d] /\ key'[d] = key[d] /\ d \in Clients \ {c}
      BY <1>1, <2>2 DEF KeysInv
    <3>2. CASE todo[d] = << >>
      <4>1. Fresh(d)
        BY <3>1, <3>2 DEF ClientFine
      <4>2. Fresh(d)'
        BY <2>2, <4>1 DEF Frame, HandleFrame, Fresh
      <4>3. QED
        BY <3>1, <3>2, <4>2 DEF ClientFine
    <3>3. CASE todo[d] # << >>
      <4>1. PICK j \in Keys \ {k} : j = key[d]
        BY <3>1, <3>3 DEF ClientFine
      <4>2. Stage(d, j)
        BY <3>1, <3>3, <4>1 DEF ClientFine
      <4>3. Stage(d, j)'
        BY <3>1, <4>2, OthersStay
      <4>4. j = key'[d]
        BY <3>1, <4>1
      <4>5. ClientFine(d)'
        <5>1. key'[d] \in Keys /\ Stage(d, key[d])'
          BY <4>3, <4>4
        <5>2. QED
          BY <3>1, <3>3, <5>1 DEF ClientFine
      <4>6. QED
        BY <4>5
    <3>4. QED
      BY <3>2, <3>3
  <2>3. QED
    BY <2>1, <2>2
<1>5. \A d, e \in Clients : todo'[d] # << >> /\ todo'[e] # << >> /\ key'[d] = key'[e] => d = e
  BY <1>1 DEF KeysInv
<1>6. QED
  BY <1>2, <1>3, <1>4, <1>5 DEF KeysInv, Frame, TodoFrame

-----------------------------------------------------------------------------
(* The calls of an operation, one after the other                          *)

LEMMA CallHas == \A f, x, a : Call(f, x, a).f = f /\ Call(f, x, a).name = x /\ Call(f, x, a).arg = a
BY DEF Call

\* What is to be done at each place of an operation, and what is left then.
LEMMA ShapesPut ==
  /\ \A k, m, v :
       /\ Head(Put4(k, m, v)) = Call("open", Metadata(k), m)
       /\ Tail(Put4(k, m, v)) = Put3(k, m, v) /\ Len(Put4(k, m, v)) = 4
       /\ Head(PutCreate4(k, m, v)) = Call("create", Metadata(k), m)
       /\ Tail(PutCreate4(k, m, v)) = Put3(k, m, v) /\ Len(PutCreate4(k, m, v)) = 4
       /\ Head(Put3(k, m, v)) = Call("write", Metadata(k), m)
       /\ Tail(Put3(k, m, v)) = Put2(k, v) /\ Len(Put3(k, m, v)) = 3
  /\ \A k, v :
       /\ Head(Put2(k, v)) = Call("open", Data(k), v)
       /\ Tail(Put2(k, v)) = Put1(k, v) /\ Len(Put2(k, v)) = 2
       /\ Head(PutCreate2(k, v)) = Call("create", Data(k), v)
       /\ Tail(PutCreate2(k, v)) = Put1(k, v) /\ Len(PutCreate2(k, v)) = 2
       /\ Head(Put1(k, v)) = Call("write", Data(k), v)
       /\ Tail(Put1(k, v)) = << >> /\ Len(Put1(k, v)) = 1
BY PartsOfTuples DEF Put4, PutCreate4, Put3, Put2, PutCreate2, Put1

LEMMA ShapesLink ==
  /\ \A k, m, src :
       /\ Head(Link3(k, m, src)) = Call("open", Metadata(k), m)
       /\ Tail(Link3(k, m, src)) = Link2(k, m, src) /\ Len(Link3(k, m, src)) = 3
       /\ Head(LinkCreate3(k, m, src)) = Call("create", Metadata(k), m)
       /\ Tail(LinkCreate3(k, m, src)) = Link2(k, m, src) /\ Len(LinkCreate3(k, m, src)) = 3
       /\ Head(Link2(k, m, src)) = Call("write", Metadata(k), m)
       /\ Tail(Link2(k, m, src)) = Link1(k, src) /\ Len(Link2(k, m, src)) = 2
  /\ \A k, src :
       /\ Head(Link1(k, src)) = Call("link", Data(k), Data(src))
       /\ Tail(Link1(k, src)) = << >> /\ Len(Link1(k, src)) = 1
BY PartsOfTuples DEF Link3, LinkCreate3, Link2, Link1

LEMMA ShapesDelete ==
  ASSUME NEW k
  PROVE  /\ Head(DeleteCalls(k)) = Call("get", Metadata(k), << >>)
         /\ Tail(DeleteCalls(k)) = Delete2(k) /\ Len(DeleteCalls(k)) = 3
         /\ Head(Delete2(k)) = Call("delete", Metadata(k), << >>)
         /\ Tail(Delete2(k)) = Delete1(k) /\ Len(Delete2(k)) = 2
         /\ Head(Delete1(k)) = Call("delete", Data(k), << >>)
         /\ Tail(Delete1(k)) = << >> /\ Len(Delete1(k)) = 1
BY PartsOfTuples DEF DeleteCalls, Delete2, Delete1

LEMMA OpenIsCreate ==
  /\ \A k, m, v : [Put4(k, m, v) EXCEPT ![1].f = "create"] = PutCreate4(k, m, v)
  /\ \A k, v : [Put2(k, v) EXCEPT ![1].f = "create"] = PutCreate2(k, v)
  /\ \A k, m, src : [Link3(k, m, src) EXCEPT ![1].f = "create"] = LinkCreate3(k, m, src)
<1>1. \A x, a : [Call("open", x, a) EXCEPT !.f = "create"] = Call("create", x, a)
  BY DEF Call
<1>2. \A a, b, c, d, e : [<<a, b, c, d>> EXCEPT ![1] = e] = <<e, b, c, d>>
  OBVIOUS
<1>3. \A a, b, c, e : [<<a, b, c>> EXCEPT ![1] = e] = <<e, b, c>>
  OBVIOUS
<1>4. \A a, b, e : [<<a, b>> EXCEPT ![1] = e] = <<e, b>>
  OBVIOUS
<1>5. QED
  BY <1>1, <1>2, <1>3, <1>4 DEF Put4, PutCreate4, Put2, PutCreate2, Link3, LinkCreate3

LEMMA NotEmpty == \A s : Len(s) \in {1, 2, 3, 4} => s # << >>
OBVIOUS

\* The next call at each place.
LEMMA HeadsAre ==
  ASSUME NEW k, NEW m, NEW v, NEW src
  PROVE  /\ Head(Put4(k, m, v)).f = "open" /\ Head(PutCreate4(k, m, v)).f = "create"
         /\ Head(Put3(k, m, v)).f = "write" /\ Head(Put2(k, v)).f = "open"
         /\ Head(PutCreate2(k, v)).f = "create" /\ Head(Put1(k, v)).f = "write"
         /\ Head(Link3(k, m, src)).f = "open" /\ Head(LinkCreate3(k, m, src)).f = "create"
         /\ Head(Link2(k, m, src)).f = "write" /\ Head(Link1(k, src)).f = "link"
         /\ Head(DeleteCalls(k)).f = "get" /\ Head(Delete2(k)).f = "delete"
         /\ Head(Delete1(k)).f = "delete"
<1>1. /\ Head(Put4(k, m, v)).f = "open" /\ Head(PutCreate4(k, m, v)).f = "create"
      /\ Head(Put3(k, m, v)).f = "write" /\ Head(Put2(k, v)).f = "open"
      /\ Head(PutCreate2(k, v)).f = "create" /\ Head(Put1(k, v)).f = "write"
  BY ShapesPut, CallHas
<1>2. /\ Head(Link3(k, m, src)).f = "open" /\ Head(LinkCreate3(k, m, src)).f = "create"
      /\ Head(Link2(k, m, src)).f = "write" /\ Head(Link1(k, src)).f = "link"
  BY ShapesLink, CallHas
<1>3. /\ Head(DeleteCalls(k)).f = "get" /\ Head(Delete2(k)).f = "delete"
      /\ Head(Delete1(k)).f = "delete"
  BY ShapesDelete, CallHas
<1>4. QED
  BY <1>1, <1>2, <1>3

\* A client that is to open a file.
LEMMA StageOpen ==
  ASSUME NEW c, NEW k, Stage(c, k), Head(todo[c]).f = "open"
  PROVE  LET w == wanted[c]
             sound == k \notin halved
         IN /\ Fresh(c)
            /\ \/ /\ w.op = "put" /\ w.meta \in Text /\ w.value \in Text
                  /\ todo[c] = Put4(k, w.meta, w.value)
                  /\ sound => Settled(k)
               \/ /\ w.op = "put" /\ w.meta \in Text /\ w.value \in Text
                  /\ todo[c] = Put2(k, w.value)
                  /\ sound => MetaIs(k, Held(k).meta \o w.meta) /\ OldValue(k)
               \/ /\ w.op = "link" /\ w.meta \in Text /\ w.src \in Keys /\ w.src # k
                  /\ todo[c] = Link3(k, w.meta, w.src)
                  /\ sound => Settled(k)
BY HeadsAre DEF Stage, Putting, Linking, Deleting

LEMMA StageCreate ==
  ASSUME NEW c, NEW k, Stage(c, k), Head(todo[c]).f = "create"
  PROVE  LET w == wanted[c]
             sound == k \notin halved
         IN /\ Fresh(c)
            /\ \/ /\ w.op = "put" /\ w.meta \in Text /\ w.value \in Text
                  /\ todo[c] = PutCreate4(k, w.meta, w.value) /\ Metadata(k) \notin DOMAIN names
                  /\ sound => Settled(k)
               \/ /\ w.op = "put" /\ w.meta \in Text /\ w.value \in Text
                  /\ todo[c] = PutCreate2(k, w.value) /\ Data(k) \notin DOMAIN names
                  /\ sound => MetaIs(k, Held(k).meta \o w.meta)
               \/ /\ w.op = "link" /\ w.meta \in Text /\ w.src \in Keys /\ w.src # k
                  /\ todo[c] = LinkCreate3(k, w.meta, w.src) /\ Metadata(k) \notin DOMAIN names
                  /\ sound => Settled(k)
BY HeadsAre DEF Stage, Putting, Linking, Deleting

LEMMA StageWrite ==
  ASSUME NEW c, NEW k, Stage(c, k), Head(todo[c]).f = "write"
  PROVE  LET w == wanted[c]
             sound == k \notin halved
         IN \/ /\ w.op = "put" /\ w.meta \in Text /\ w.value \in Text
               /\ todo[c] = Put3(k, w.meta, w.value) /\ Writing(c, Metadata(k), w.meta)
               /\ sound => MetaIs(k, Held(k).meta) /\ OldValue(k)
            \/ /\ w.op = "put" /\ w.meta \in Text /\ w.value \in Text
               /\ todo[c] = Put1(k, w.value) /\ Writing(c, Data(k), w.value)
               /\ sound => MetaIs(k, Held(k).meta \o w.meta)
            \/ /\ w.op = "link" /\ w.meta \in Text /\ w.src \in Keys /\ w.src # k
               /\ todo[c] = Link2(k, w.meta, w.src) /\ Writing(c, Metadata(k), w.meta)
               /\ sound => MetaIs(k, Held(k).meta) /\ OldValue(k)
BY HeadsAre DEF Stage, Putting, Linking, Deleting

LEMMA StageLink ==
  ASSUME NEW c, NEW k, Stage(c, k), Head(todo[c]).f = "link"
  PROVE  LET w == wanted[c]
         IN /\ Fresh(c) /\ w.op = "link" /\ w.meta \in Text /\ w.src \in Keys /\ w.src # k
            /\ todo[c] = Link1(k, w.src)
            /\ k \notin halved => MetaIs(k, Held(k).meta \o w.meta) /\ OldValue(k)
BY HeadsAre DEF Stage, Putting, Linking, Deleting

LEMMA StageGet ==
  ASSUME NEW c, NEW k, Stage(c, k), Head(todo[c]).f = "get"
  PROVE  /\ Fresh(c) /\ wanted[c].op = "delete" /\ todo[c] = DeleteCalls(k)
         /\ k \notin halved => Settled(k)
BY HeadsAre DEF Stage, Putting, Linking, Deleting

LEMMA StageDelete ==
  ASSUME NEW c, NEW k, Stage(c, k), Head(todo[c]).f = "delete"
  PROVE  /\ Fresh(c) /\ wanted[c].op = "delete"
         /\ \/ /\ todo[c] = Delete2(k)
               /\ k \notin halved => OldValue(k)
            \/ todo[c] = Delete1(k) /\ Metadata(k) \notin DOMAIN names
BY HeadsAre DEF Stage, Putting, Linking, Deleting

-----------------------------------------------------------------------------
(* What the calls leave alone                                              *)

LEMMA ClientIs ==
  ASSUME KeysInv, NEW c \in Clients, todo[c] # << >>
  PROVE  /\ key[c] \in Keys /\ Stage(c, key[c]) /\ ValueFine(key[c])
         /\ \A d \in Clients \ {c} : todo[d] # << >> => key[d] # key[c]
         /\ wanted[c].op \in {"put", "link", "delete"}
BY DEF KeysInv, ClientFine, Stage

LEMMA ReturnFrame ==
  ASSUME KeysInv, NEW c \in Clients, todo[c] # << >>, Return(c)
  PROVE  /\ StoreFrame(key[c]) /\ TodoFrame(c) /\ todo'[c] = Tail(todo[c])
         /\ Len(todo[c]) > 1 => UNCHANGED <<key, wanted, store, halved>>
         /\ ~(Len(todo[c]) > 1) =>
              /\ store' = Completed(key[c], wanted[c])
              /\ halved' = IF wanted[c].op = "delete" THEN halved \ {key[c]} ELSE halved
<1>1. DOMAIN todo = Clients /\ DOMAIN key = Clients /\ DOMAIN wanted = Clients
  BY DEF KeysInv
<1>2. todo' = [todo EXCEPT ![c] = Tail(@)]
  BY DEF Return
<1>3. CASE Len(todo[c]) > 1
  <2>1. UNCHANGED <<key, wanted, store, halved>>
    BY <1>3 DEF Return
  <2>2. QED
    BY <1>1, <1>2, <1>3, <2>1 DEF StoreFrame, TodoFrame
<1>4. CASE ~(Len(todo[c]) > 1)
  <2> DEFINE k == key[c]
             w == wanted[c]
  <2>1. /\ key' = [key EXCEPT ![c] = NoKey] /\ wanted' = [wanted EXCEPT ![c] = Nothing]
        /\ store' = Completed(k, w)
        /\ halved' = IF w.op = "delete" THEN halved \ {k} ELSE halved
    BY <1>4 DEF Return, Ended
  <2>2. w.op \in {"put", "link", "delete"}
    BY ClientIs
  <2>3. \A j \in Keys \ {k} :
          /\ j \in DOMAIN store' <=> j \in DOMAIN store
          /\ j \in DOMAIN store => store'[j] = store[j]
    <3>1. CASE w.op = "put"
      <4> DEFINE both == [meta |-> Held(k).meta \o w.meta, value |-> Held(k).value \o w.value]
      <4>1. store' = With(store, k, both)
        BY <2>1, <3>1 DEF Completed
      <4> HIDE DEF both
      <4>2. /\ DOMAIN store' = DOMAIN store \cup {k}
            /\ \A j \in DOMAIN store \ {k} : store'[j] = store[j]
        BY <4>1 DEF With
      <4>3. QED
        BY <4>2
    <3>2. CASE w.op = "link"
      <4> DEFINE both == [meta |-> Held(k).meta \o w.meta, value |-> Held(w.src).value]
      <4>1. store' = With(store, k, both)
        BY <2>1, <3>2 DEF Completed
      <4> HIDE DEF both
      <4>2. /\ DOMAIN store' = DOMAIN store \cup {k}
            /\ \A j \in DOMAIN store \ {k} : store'[j] = store[j]
        BY <4>1 DEF With
      <4>3. QED
        BY <4>2
    <3>3. CASE w.op = "delete"
      <4>1. store' = Restrict(store, DOMAIN store \ {k})
        BY <2>1, <3>3 DEF Completed
      <4>2. QED
        BY <4>1 DEF Restrict
    <3>4. QED
      BY <2>2, <3>1, <3>2, <3>3
  <2>4. StoreFrame(k)
    BY <2>1, <2>3 DEF StoreFrame
  <2>5. TodoFrame(c)
    BY <1>1, <1>2, <2>1 DEF TodoFrame
  <2>6. QED
    BY <1>1, <1>2, <1>4, <2>1, <2>4, <2>5
<1>5. QED
  BY <1>3, <1>4

\* Nothing is done to the files or to the store.
LEMMA AllKept ==
  ASSUME KeysInv, UNCHANGED <<names, files, written, store, halved>>, NEW k \in Keys
  PROVE  /\ FilesFrame(k) /\ StoreFrame(k) /\ NamesFine'
         /\ ValueFine(k)' /\ Held(k)' = Held(k)
         /\ OldValue(k) => OldValue(k)'
         /\ Settled(k) => Settled(k)'
         /\ \A bytes : MetaIs(k, bytes) => MetaIs(k, bytes)'
<1>1. Held(k)' = Held(k)
  BY DEF Held
<1>2. \A bytes : MetaIs(k, bytes) => MetaIs(k, bytes)'
  BY DEF MetaIs
<1>3. OldMeta(k) => OldMeta(k)'
  BY <1>1, <1>2 DEF OldMeta
<1>4. OldValue(k) => OldValue(k)'
  BY DEF OldValue
<1>5. ValueFine(k)'
  BY <1>1 DEF ValueFine, KeysInv
<1>6. NamesFine'
  BY DEF NamesFine, KeysInv
<1>7. FilesFrame(k) /\ StoreFrame(k)
  BY DEF FilesFrame, StoreFrame
<1>8. QED
  BY <1>1, <1>2, <1>3, <1>4, <1>5, <1>6, <1>7 DEF Settled

\* A new file under one name.
LEMMA NewName ==
  ASSUME KeysInv, NEW k \in Keys, NEW name \in FilesOf(k),
         names' = With(names, name, Len(files) + 1),
         Len(files') = Len(files) + 1, Len(files) \in Nat,
         DOMAIN files = 1 .. Len(files), DOMAIN files' = 1 .. Len(files'),
         \A g \in DOMAIN files : written'[g] = written[g]
  PROVE  /\ FilesFrame(k) /\ NamesFine'
         /\ DOMAIN names' = DOMAIN names \cup {name} /\ names'[name] = Len(files) + 1
         /\ \A x \in DOMAIN names \ {name} :
              names'[x] = names[x] /\ written'[names[x]] = written[names[x]]
<1>1. /\ DOMAIN names' = DOMAIN names \cup {name} /\ names'[name] = Len(files) + 1
      /\ \A x \in DOMAIN names \ {name} : names'[x] = names[x]
  BY DEF With
<1>2. /\ DOMAIN names \subseteq KeyFiles
      /\ \A x \in DOMAIN names : names[x] \in 1 .. Len(files)
      /\ \A x, y \in DOMAIN names : names[x] = names[y] => x = y
  BY DEF KeysInv, NamesFine
<1>3. \A x \in DOMAIN names \ {name} : written'[names[x]] = written[names[x]]
  BY <1>2
<1>4. name \in KeyFiles
  BY FilesApart DEF FilesOf
<1>5. NamesFine'
  <2>1. DOMAIN names' \subseteq KeyFiles
    BY <1>1, <1>2, <1>4
  <2>2. \A x \in DOMAIN names' : names'[x] \in 1 .. Len(files) + 1
    BY <1>1, <1>2
  <2>3. \A x \in DOMAIN names : names[x] # Len(files) + 1
    BY <1>2
  <2>4. \A x, y \in DOMAIN names' : names'[x] = names'[y] => x = y
    BY <1>1, <1>2, <2>3
  <2>5. QED
    BY <2>1, <2>2, <2>4 DEF NamesFine
<1>6. FilesFrame(k)
  BY <1>1, <1>3 DEF FilesFrame
<1>7. QED
  BY <1>1, <1>3, <1>5, <1>6

\* A write to the file of one name.
LEMMA OneWritten ==
  ASSUME KeysInv, NEW k \in Keys, NEW name \in FilesOf(k), name \in DOMAIN names, NEW p,
         OnlyWrites(names[name], p), names' = names, DOMAIN files' = DOMAIN files
  PROVE  /\ FilesFrame(k) /\ NamesFine'
         /\ written'[names[name]] = written[names[name]] \o p
         /\ \A x \in DOMAIN names \ {name} : written'[names[x]] = written[names[x]]
<1>1. /\ DOMAIN names \subseteq KeyFiles
      /\ \A x \in DOMAIN names : names[x] \in DOMAIN files
      /\ \A x, y \in DOMAIN names : names[x] = names[y] => x = y
  BY DEF KeysInv, NamesFine
<1>2. /\ written'[names[name]] = written[names[name]] \o p
      /\ \A x \in DOMAIN names \ {name} : written'[names[x]] = written[names[x]]
  BY <1>1 DEF OnlyWrites
<1>3. NamesFine'
  BY <1>1 DEF NamesFine
<1>4. FilesFrame(k)
  BY <1>2 DEF FilesFrame
<1>5. QED
  BY <1>2, <1>3, <1>4

\* A name is removed, or was not there.
LEMMA NameGone ==
  ASSUME KeysInv, NEW k \in Keys, NEW name \in FilesOf(k),
         DOMAIN names' = DOMAIN names \ {name}, files' = files, written' = written,
         \A x \in DOMAIN names \ {name} : names'[x] = names[x]
  PROVE  FilesFrame(k) /\ NamesFine'
<1>1. /\ DOMAIN names' = DOMAIN names \ {name}
      /\ \A x \in DOMAIN names \ {name} : names'[x] = names[x]
  OBVIOUS
<1>2. NamesFine'
  BY <1>1 DEF KeysInv, NamesFine
<1>3. FilesFrame(k)
  BY <1>1 DEF FilesFrame
<1>4. QED
  BY <1>2, <1>3

-----------------------------------------------------------------------------
(* Each call keeps the invariant                                           *)

\* What the call at each place is about; an operation that is not complete.
LEMMA PutNames ==
  /\ \A k, m, v :
       /\ Head(Put4(k, m, v)).name = Metadata(k) /\ Head(PutCreate4(k, m, v)).name = Metadata(k)
       /\ Head(Put3(k, m, v)).arg = m
       /\ PutCreate4(k, m, v) # << >> /\ Put3(k, m, v) # << >>
  /\ \A k, v :
       /\ Head(Put2(k, v)).name = Data(k) /\ Head(PutCreate2(k, v)).name = Data(k)
       /\ Head(Put1(k, v)).arg = v
       /\ Put2(k, v) # << >> /\ PutCreate2(k, v) # << >> /\ Put1(k, v) # << >>
BY ShapesPut, CallHas, NotEmpty

LEMMA LinkNames ==
  /\ \A k, m, src :
       /\ Head(Link3(k, m, src)).name = Metadata(k) /\ Head(LinkCreate3(k, m, src)).name = Metadata(k)
       /\ Head(Link2(k, m, src)).arg = m
       /\ LinkCreate3(k, m, src) # << >> /\ Link2(k, m, src) # << >>
  /\ \A k, src :
       /\ Head(Link1(k, src)).name = Data(k) /\ Head(Link1(k, src)).arg = Data(src)
       /\ Link1(k, src) # << >>
BY ShapesLink, CallHas, NotEmpty

LEMMA DeleteNames ==
  ASSUME NEW k
  PROVE  /\ Head(DeleteCalls(k)).name = Metadata(k) /\ Head(Delete2(k)).name = Metadata(k)
         /\ Head(Delete1(k)).name = Data(k)
         /\ Delete2(k) # << >> /\ Delete1(k) # << >>
<1>1. /\ Head(DeleteCalls(k)).name = Metadata(k) /\ Head(Delete2(k)).name = Metadata(k)
      /\ Head(Delete1(k)).name = Data(k)
  BY ShapesDelete, CallHas
<1>2. Delete2(k) # << >> /\ Delete1(k) # << >>
  BY ShapesDelete, NotEmpty
<1>3. QED
  BY <1>1, <1>2

\* The operation goes on, or is complete.
LEMMA GoesOn ==
  ASSUME FilesInv, KeysInv, FilesInv', NEW c \in Clients, todo[c] # << >>, NEW k, k = key[c],
         FilesFrame(k), StoreFrame(k), TodoFrame(c), HandleFrame(c), NamesFine', ValueFine(k)',
         todo'[c] # << >> => key'[c] = k /\ Stage(c, k)',
         todo'[c] = << >> => Fresh(c)' /\ (k \notin halved' => Settled(k)')
  PROVE  KeysInv'
<1>1. k \in Keys /\ \A d \in Clients \ {c} : todo[d] # << >> => key[d] # k
  BY ClientIs
<1>2. Frame(c, k)
  BY DEF Frame
<1>3. ClientFine(c)'
  <2>1. CASE todo'[c] = << >>
    BY <2>1 DEF ClientFine
  <2>2. CASE todo'[c] # << >>
    <3>1. k = key'[c] /\ Stage(c, k)'
      BY <2>2
    <3>2. key'[c] \in Keys /\ Stage(c, key[c])'
      BY <1>1, <3>1
    <3>3. QED
      BY <2>2, <3>2 DEF ClientFine
  <2>3. QED
    BY <2>1, <2>2
<1>4. QED
  BY <1>1, <1>2, <1>3, StepKeeps

LEMMA OpenKeeps ==
  ASSUME FilesInv, KeysInv, NEW c \in Clients, todo[c] # << >>, Head(todo[c]).f = "open",
         DoOpen(c, Head(todo[c]))
  PROVE  FilesInv' /\ KeysInv'
<1>1. PICK k, w, name : k \in Keys /\ k = key[c] /\ w = wanted[c] /\ name = Head(todo[c]).name
  BY ClientIs
<1> DEFINE old == Held(k).meta
           new == old \o w.meta
           First == /\ w.op = "put" /\ w.meta \in Text /\ w.value \in Text
                    /\ todo[c] = Put4(k, w.meta, w.value)
                    /\ k \notin halved => Settled(k)
           Second == /\ w.op = "put" /\ w.meta \in Text /\ w.value \in Text
                     /\ todo[c] = Put2(k, w.value)
                     /\ k \notin halved => MetaIs(k, new) /\ OldValue(k)
           OfLink == /\ w.op = "link" /\ w.meta \in Text /\ w.src \in Keys /\ w.src # k
                     /\ todo[c] = Link3(k, w.meta, w.src)
                     /\ k \notin halved => Settled(k)
<1>2. Stage(c, k)
  BY <1>1, ClientIs
<1>3. Fresh(c) /\ (First \/ Second \/ OfLink)
  BY <1>1, <1>2, StageOpen
<1>4. /\ DOMAIN todo = Clients /\ DOMAIN key = Clients /\ DOMAIN wanted = Clients
      /\ DOMAIN handles = Clients /\ DOMAIN adding = Clients
  BY DEF KeysInv, FilesInv
<1>5. CASE Open(c, name) /\ Return(c)
  <2>1. /\ name \in DOMAIN names /\ handles' = [handles EXCEPT ![c] = names[name]]
        /\ UNCHANGED <<names, files, progress, sectors, adding, written>> /\ adding[c] = NotAdding
    BY <1>5 DEF Open
  <2>2. FilesInv'
    BY <1>4, <2>1 DEF FilesInv
  <2>3. Len(todo[c]) > 1
    <3>1. First => Len(todo[c]) = 4
      BY ShapesPut
    <3>2. Second => Len(todo[c]) = 2
      BY ShapesPut
    <3>3. OfLink => Len(todo[c]) = 3
      BY ShapesLink
    <3>4. Len(todo[c]) = 4 \/ Len(todo[c]) = 2 \/ Len(todo[c]) = 3
      BY <1>3, <3>1, <3>2, <3>3, Zenon
    <3>5. QED
      BY <3>4
  <2>4. /\ StoreFrame(k) /\ TodoFrame(c) /\ todo'[c] = Tail(todo[c])
        /\ UNCHANGED <<key, wanted, store, halved>> /\ wanted'[c] = w
    BY <1>1, <1>5, <2>3, ReturnFrame
  <2>5. /\ FilesFrame(k) /\ NamesFine' /\ ValueFine(k)' /\ Held(k)' = Held(k)
        /\ OldValue(k) => OldValue(k)'
        /\ \A bytes : MetaIs(k, bytes) => MetaIs(k, bytes)'
    BY <1>1, <2>1, <2>4, AllKept
  <2>6. HandleFrame(c) /\ handles'[c] = names[name] /\ adding'[c] = NotAdding
    BY <1>4, <2>1 DEF HandleFrame
  <2>7. Settled(k) /\ name = Metadata(k) => MetaIs(k, old)
    BY <2>1 DEF Settled, OldMeta, MetaIs, Held
  <2>8. new' = new /\ old' = old
    BY <2>4, <2>5
  <2>9. ASSUME NEW p PROVE Writing(c, name, p)'
    BY <2>1, <2>6 DEF Writing
  <2> HIDE DEF new, old
  <2>10. Stage(c, k)' /\ todo'[c] # << >>
    <3>1. CASE First
      <4>1. name = Metadata(k) /\ todo'[c] = Put3(k, w.meta, w.value) /\ todo'[c] # << >>
        <5>1. name = Metadata(k)
          BY <1>1, <3>1, PutNames
        <5>2. todo'[c] = Put3(k, w.meta, w.value)
          BY <2>4, <3>1, ShapesPut
        <5>3. QED
          BY <5>1, <5>2, PutNames
      <4>2. k \notin halved' => MetaIs(k, old)' /\ OldValue(k)'
        BY <2>4, <2>5, <2>7, <2>8, <3>1, <4>1 DEF Settled, MetaIs
      <4>3. Putting(c, k, w.meta, w.value)'
        BY <2>9, <3>1, <4>1, <4>2 DEF Putting, old
      <4>4. QED
        BY <2>4, <3>1, <4>1, <4>3 DEF Stage
    <3>2. CASE Second
      <4>1. name = Data(k) /\ todo'[c] = Put1(k, w.value) /\ todo'[c] # << >>
        <5>1. name = Data(k)
          BY <1>1, <3>2, PutNames
        <5>2. todo'[c] = Put1(k, w.value)
          BY <2>4, <3>2, ShapesPut
        <5>3. QED
          BY <5>1, <5>2, PutNames
      <4>2. k \notin halved' => MetaIs(k, new)'
        BY <2>4, <2>5, <2>8, <3>2 DEF MetaIs
      <4>3. Putting(c, k, w.meta, w.value)'
        BY <2>9, <3>2, <4>1, <4>2 DEF Putting, new, old
      <4>4. QED
        BY <2>4, <3>2, <4>1, <4>3 DEF Stage
    <3>3. CASE OfLink
      <4>1. name = Metadata(k) /\ todo'[c] = Link2(k, w.meta, w.src) /\ todo'[c] # << >>
        <5>1. name = Metadata(k)
          BY <1>1, <3>3, LinkNames
        <5>2. todo'[c] = Link2(k, w.meta, w.src)
          BY <2>4, <3>3, ShapesLink
        <5>3. QED
          BY <5>1, <5>2, LinkNames
      <4>2. k \notin halved' => MetaIs(k, old)' /\ OldValue(k)'
        BY <2>4, <2>5, <2>7, <2>8, <3>3, <4>1 DEF Settled, MetaIs
      <4>3. Linking(c, k, w.meta, w.src)'
        BY <2>9, <3>3, <4>1, <4>2 DEF Linking, old
      <4>4. QED
        BY <2>4, <3>3, <4>1, <4>3 DEF Stage
    <3>4. QED
      BY <1>3, <3>1, <3>2, <3>3
  <2>11. QED
    BY <1>1, <2>2, <2>4, <2>5, <2>6, <2>10, GoesOn
<1>6. CASE name \notin DOMAIN names /\ todo' = [todo EXCEPT ![c][1].f = "create"]
           /\ UNCHANGED <<fileVars, key, wanted, store, halved>>
  <2>1. UNCHANGED <<names, files, progress, sectors, handles, adding, written>>
    BY <1>6 DEF fileVars
  <2>2. FilesInv'
    BY <2>1 DEF FilesInv
  <2>3. todo'[c] = [todo[c] EXCEPT ![1].f = "create"]
    BY <1>4, <1>6
  <2>4. TodoFrame(c) /\ HandleFrame(c) /\ Fresh(c)'
    <3>1. TodoFrame(c)
      BY <1>4, <1>6 DEF TodoFrame
    <3>2. HandleFrame(c) /\ Fresh(c)'
      BY <1>3, <2>1 DEF HandleFrame, Fresh
    <3>3. QED
      BY <3>1, <3>2
  <2>5. /\ FilesFrame(k) /\ StoreFrame(k) /\ NamesFine' /\ ValueFine(k)' /\ Held(k)' = Held(k)
        /\ Settled(k) => Settled(k)'
        /\ \A bytes : MetaIs(k, bytes) => MetaIs(k, bytes)'
    BY <1>1, <1>6, <2>1, AllKept
  <2>6. new' = new
    BY <2>5
  <2> HIDE DEF new, old
  <2>7. Stage(c, k)' /\ todo'[c] # << >>
    <3>1. CASE First
      <4>1. name = Metadata(k) /\ todo'[c] = PutCreate4(k, w.meta, w.value) /\ todo'[c] # << >>
        <5>1. name = Metadata(k)
          BY <1>1, <3>1, PutNames
        <5>2. todo'[c] = PutCreate4(k, w.meta, w.value)
          BY <2>3, <3>1, OpenIsCreate, Zenon
        <5>3. QED
          BY <5>1, <5>2, PutNames
      <4>2. Putting(c, k, w.meta, w.value)'
        BY <1>6, <2>1, <2>4, <2>5, <3>1, <4>1 DEF Putting
      <4>3. QED
        BY <1>1, <1>6, <3>1, <4>1, <4>2 DEF Stage
    <3>2. CASE Second
      <4>1. name = Data(k) /\ todo'[c] = PutCreate2(k, w.value) /\ todo'[c] # << >>
        <5>1. name = Data(k)
          BY <1>1, <3>2, PutNames
        <5>2. todo'[c] = PutCreate2(k, w.value)
          BY <2>3, <3>2, OpenIsCreate, Zenon
        <5>3. QED
          BY <5>1, <5>2, PutNames
      <4>2. k \notin halved' => MetaIs(k, new)'
        BY <1>6, <2>5, <2>6, <3>2 DEF MetaIs
      <4>3. Putting(c, k, w.meta, w.value)'
        BY <1>6, <2>1, <2>4, <3>2, <4>1, <4>2 DEF Putting, new, old
      <4>4. QED
        BY <1>1, <1>6, <3>2, <4>1, <4>3 DEF Stage
    <3>3. CASE OfLink
      <4>1. name = Metadata(k) /\ todo'[c] = LinkCreate3(k, w.meta, w.src) /\ todo'[c] # << >>
        <5>1. name = Metadata(k)
          BY <1>1, <3>3, LinkNames
        <5>2. todo'[c] = LinkCreate3(k, w.meta, w.src)
          BY <2>3, <3>3, OpenIsCreate, Zenon
        <5>3. QED
          BY <5>1, <5>2, LinkNames
      <4>2. Linking(c, k, w.meta, w.src)'
        BY <1>6, <2>1, <2>4, <2>5, <3>3, <4>1 DEF Linking
      <4>3. QED
        BY <1>1, <1>6, <3>3, <4>1, <4>2 DEF Stage
    <3>4. QED
      BY <1>3, <3>1, <3>2, <3>3
  <2>8. QED
    BY <1>1, <1>6, <2>2, <2>4, <2>5, <2>7, GoesOn
<1>7. QED
  BY <1>1, <1>5, <1>6 DEF DoOpen

LEMMA EmptyFile ==
  ASSUME FilesInv
  PROVE  FileFine([pieces |-> << >>, size |-> 0], << >>, progress, sectors)
<1> DEFINE fi == [pieces |-> << >>, size |-> 0]
           st == [i \in {1} |-> 0]
<1>1. << >> \in Seq(Pieces) /\ << >> \in Seq(Byte) /\ Len(<< >>) = 0
  OBVIOUS
<1>2. fi \in FileObjects /\ fi.pieces = << >> /\ fi.size = 0
  BY <1>1 DEF FileObjects
<1>3. st[1] = 0
  OBVIOUS
<1> HIDE DEF fi, st
<1>4. Laid(st, fi.pieces, << >>, progress, sectors)
  BY <1>1, <1>2, <1>3 DEF Laid
<1>5. FileFine(fi, << >>, progress, sectors)
  BY <1>1, <1>2, <1>4 DEF FileFine
<1>6. QED
  BY <1>5 DEF fi

LEMMA CreateKeeps ==
  ASSUME FilesInv, KeysInv, NEW c \in Clients, todo[c] # << >>, Head(todo[c]).f = "create",
         DoCreate(c, Head(todo[c]))
  PROVE  FilesInv' /\ KeysInv'
<1>1. PICK k, w, name : k \in Keys /\ k = key[c] /\ w = wanted[c] /\ name = Head(todo[c]).name
  BY ClientIs
<1> DEFINE old == Held(k).meta
           new == old \o w.meta
           First == /\ w.op = "put" /\ w.meta \in Text /\ w.value \in Text
                    /\ todo[c] = PutCreate4(k, w.meta, w.value) /\ Metadata(k) \notin DOMAIN names
                    /\ k \notin halved => Settled(k)
           Second == /\ w.op = "put" /\ w.meta \in Text /\ w.value \in Text
                     /\ todo[c] = PutCreate2(k, w.value) /\ Data(k) \notin DOMAIN names
                     /\ k \notin halved => MetaIs(k, new)
           OfLink == /\ w.op = "link" /\ w.meta \in Text /\ w.src \in Keys /\ w.src # k
                     /\ todo[c] = LinkCreate3(k, w.meta, w.src) /\ Metadata(k) \notin DOMAIN names
                     /\ k \notin halved => Settled(k)
<1>2. Stage(c, k)
  BY <1>1, ClientIs
<1>3. Fresh(c) /\ (First \/ Second \/ OfLink)
  BY <1>1, <1>2, StageCreate
<1>4. /\ DOMAIN handles = Clients /\ ValueFine(k)
  BY <1>1 DEF KeysInv, FilesInv
<1>5. /\ name \notin DOMAIN names
      /\ NewFile(name, [pieces |-> << >>, size |-> 0], << >>,
                 [handles EXCEPT ![c] = Len(files) + 1])
      /\ UNCHANGED <<progress, sectors, adding>> /\ Return(c)
  BY <1>1 DEF DoCreate, Create
<1>6. /\ FilesInv' /\ Len(files') = Len(files) + 1 /\ Len(files) \in Nat
      /\ DOMAIN files = 1 .. Len(files) /\ written'[Len(files) + 1] = << >>
      /\ \A g \in DOMAIN files : written'[g] = written[g]
  <2> DEFINE hs == [handles EXCEPT ![c] = Len(files) + 1]
  <2>1. DOMAIN hs = Clients
    BY <1>4
  <2>2. NewFile(name, [pieces |-> << >>, size |-> 0], << >>, hs)
    BY <1>5
  <2> HIDE DEF hs
  <2>3. QED
    BY <1>5, <2>1, <2>2, EmptyFile, NewFileFine
<1>7. /\ names' = With(names, name, Len(files) + 1)
      /\ handles' = [handles EXCEPT ![c] = Len(files) + 1]
  BY <1>5 DEF NewFile
<1>8. DOMAIN files' = 1 .. Len(files')
  BY <1>6, LenProperties DEF FilesInv, FilesFine
<1>9. name \in FilesOf(k)
  <2>1. name = Metadata(k) \/ name = Data(k)
    BY <1>1, <1>3, PutNames, LinkNames
  <2>2. QED
    BY <2>1 DEF FilesOf
<1>10. /\ FilesFrame(k) /\ NamesFine'
       /\ DOMAIN names' = DOMAIN names \cup {name} /\ names'[name] = Len(files) + 1
       /\ \A x \in DOMAIN names \ {name} :
            names'[x] = names[x] /\ written'[names[x]] = written[names[x]]
  BY <1>1, <1>6, <1>7, <1>8, <1>9, NewName
<1>11. Len(todo[c]) > 1
  <2>1. First => Len(todo[c]) = 4
    BY ShapesPut
  <2>2. Second => Len(todo[c]) = 2
    BY ShapesPut
  <2>3. OfLink => Len(todo[c]) = 3
    BY ShapesLink
  <2>4. Len(todo[c]) = 4 \/ Len(todo[c]) = 2 \/ Len(todo[c]) = 3
    BY <1>3, <2>1, <2>2, <2>3, Zenon
  <2>5. QED
    BY <2>4
<1>12. /\ StoreFrame(k) /\ TodoFrame(c) /\ todo'[c] = Tail(todo[c])
       /\ UNCHANGED <<key, wanted, store, halved>> /\ wanted'[c] = w
  BY <1>1, <1>5, <1>11, ReturnFrame
<1>13. /\ HandleFrame(c) /\ handles'[c] = names'[name]
       /\ adding'[c] = NotAdding
  BY <1>3, <1>4, <1>5, <1>7, <1>10 DEF HandleFrame, Fresh
<1>14. Held(k)' = Held(k) /\ (k \in DOMAIN store' <=> k \in DOMAIN store)
  BY <1>12 DEF Held
<1>15. new' = new /\ old' = old
  BY <1>14
<1>16. ASSUME NEW p PROVE Writing(c, name, p)'
  BY <1>10, <1>13 DEF Writing
<1>17. k \notin DOMAIN store => old = << >> /\ Held(k).value = << >>
  BY DEF Held
<1>18. written'[names'[name]] = << >> /\ name \in DOMAIN names'
  BY <1>6, <1>10
<1>19. Metadata(k) # Data(k)
  BY <1>1, FilesApart
<1> HIDE DEF new, old
<1>20. CASE name = Metadata(k)
  <2>1. Settled(k) => MetaIs(k, old)' /\ OldValue(k)'
    <3>1. Settled(k) => k \notin DOMAIN store
      BY <1>5, <1>20 DEF Settled, OldMeta, MetaIs
    <3>2. Settled(k) => MetaIs(k, old)'
      BY <1>15, <1>17, <1>18, <1>20, <3>1 DEF MetaIs
    <3>3. Settled(k) => OldValue(k)'
      BY <1>10, <1>12, <1>19, <1>20 DEF Settled, OldValue
    <3>4. QED
      BY <3>2, <3>3
  <2>2. ValueFine(k)'
    <3>1. Data(k) \in DOMAIN names' <=> Data(k) \in DOMAIN names
      BY <1>10, <1>19, <1>20
    <3>2. Data(k) \in DOMAIN names => written'[names'[Data(k)]] = written[names[Data(k)]]
      BY <1>10, <1>19, <1>20
    <3>3. QED
      BY <1>4, <1>14, <3>1, <3>2 DEF ValueFine
  <2>3. CASE First
    <3>1. todo'[c] = Put3(k, w.meta, w.value) /\ todo'[c] # << >>
      BY <1>12, <2>3, ShapesPut, PutNames
    <3>2. k \notin halved' => MetaIs(k, old)' /\ OldValue(k)'
      BY <1>12, <2>1, <2>3
    <3>3. Putting(c, k, w.meta, w.value)'
      BY <1>16, <1>20, <2>3, <3>1, <3>2 DEF Putting, old
    <3>4. Stage(c, k)'
      BY <1>12, <2>3, <3>3 DEF Stage
    <3>5. QED
      BY <1>1, <1>6, <1>10, <1>12, <1>13, <2>2, <3>1, <3>4, GoesOn
  <2>4. CASE OfLink
    <3>1. todo'[c] = Link2(k, w.meta, w.src) /\ todo'[c] # << >>
      BY <1>12, <2>4, ShapesLink, LinkNames
    <3>2. k \notin halved' => MetaIs(k, old)' /\ OldValue(k)'
      BY <1>12, <2>1, <2>4
    <3>3. Linking(c, k, w.meta, w.src)'
      BY <1>16, <1>20, <2>4, <3>1, <3>2 DEF Linking, old
    <3>4. Stage(c, k)'
      BY <1>12, <2>4, <3>3 DEF Stage
    <3>5. QED
      BY <1>1, <1>6, <1>10, <1>12, <1>13, <2>2, <3>1, <3>4, GoesOn
  <2>5. ~Second
    BY <1>1, <1>19, <1>20, PutNames
  <2>6. QED
    BY <1>3, <2>3, <2>4, <2>5
<1>21. CASE name = Data(k)
  <2>1. Second
    BY <1>1, <1>3, <1>19, <1>21, PutNames, LinkNames
  <2>2. k \notin DOMAIN store
    BY <1>4, <1>5, <1>21 DEF ValueFine
  <2>3. ValueFine(k)'
    BY <1>12, <1>14, <1>17, <1>18, <1>21, <2>2 DEF ValueFine
  <2>4. todo'[c] = Put1(k, w.value) /\ todo'[c] # << >>
    BY <1>12, <2>1, ShapesPut, PutNames
  <2>5. k \notin halved' => MetaIs(k, new)'
    BY <1>10, <1>12, <1>15, <1>19, <1>21, <2>1 DEF MetaIs
  <2>6. Putting(c, k, w.meta, w.value)'
    BY <1>16, <1>21, <2>1, <2>4, <2>5 DEF Putting, new, old
  <2>7. Stage(c, k)'
    BY <1>12, <2>1, <2>6 DEF Stage
  <2>8. QED
    BY <1>1, <1>6, <1>10, <1>12, <1>13, <2>3, <2>4, <2>7, GoesOn
<1>22. QED
  BY <1>9, <1>20, <1>21 DEF FilesOf

\* A write to the file that is open is done.
LEMMA WrittenKeeps ==
  ASSUME FilesInv, KeysInv, FilesInv', NEW c \in Clients, todo[c] # << >>, Return(c),
         Head(todo[c]).f = "write", OnlyWrites(handles[c], Head(todo[c]).arg),
         names' = names, HandleFrame(c), Fresh(c)'
  PROVE  KeysInv'
<1>1. PICK k, w, p, f : /\ k \in Keys /\ k = key[c] /\ w = wanted[c] /\ p = Head(todo[c]).arg
                        /\ f = handles[c]
  BY ClientIs
<1> DEFINE old == Held(k).meta
           new == old \o w.meta
           First == /\ w.op = "put" /\ w.meta \in Text /\ w.value \in Text
                    /\ todo[c] = Put3(k, w.meta, w.value) /\ Writing(c, Metadata(k), w.meta)
                    /\ k \notin halved => MetaIs(k, old) /\ OldValue(k)
           Second == /\ w.op = "put" /\ w.meta \in Text /\ w.value \in Text
                     /\ todo[c] = Put1(k, w.value) /\ Writing(c, Data(k), w.value)
                     /\ k \notin halved => MetaIs(k, new)
           OfLink == /\ w.op = "link" /\ w.meta \in Text /\ w.src \in Keys /\ w.src # k
                     /\ todo[c] = Link2(k, w.meta, w.src) /\ Writing(c, Metadata(k), w.meta)
                     /\ k \notin halved => MetaIs(k, old) /\ OldValue(k)
<1>2. Stage(c, k) /\ ValueFine(k)
  BY <1>1, ClientIs
<1>3. First \/ Second \/ OfLink
  BY <1>1, <1>2, StageWrite
<1>4. OnlyWrites(f, p)
  BY <1>1
<1>5. DOMAIN files' = DOMAIN files
  <2>1. Len(files') = Len(files)
    BY <1>4 DEF OnlyWrites
  <2>2. DOMAIN files = 1 .. Len(files) /\ DOMAIN files' = 1 .. Len(files')
    BY LenProperties DEF FilesInv, FilesFine
  <2>3. QED
    BY <2>1, <2>2
<1>6. Metadata(k) # Data(k) /\ Metadata(k) \in FilesOf(k) /\ Data(k) \in FilesOf(k)
  BY <1>1, FilesApart DEF FilesOf
<1>7. ASSUME NEW name \in FilesOf(k), name \in DOMAIN names, names[name] = f
      PROVE  /\ FilesFrame(k) /\ NamesFine' /\ written'[names[name]] = written[names[name]] \o p
             /\ \A x \in DOMAIN names \ {name} : written'[names[x]] = written[names[x]]
  BY <1>1, <1>4, <1>5, <1>7, OneWritten
<1> HIDE DEF old, new
<1>8. CASE First \/ OfLink
  <2>1. Metadata(k) \in DOMAIN names /\ names[Metadata(k)] = f /\ p = w.meta
    <3>1. Writing(c, Metadata(k), w.meta) /\ p = w.meta
      BY <1>1, <1>8, PutNames, LinkNames
    <3>2. QED
      BY <1>1, <3>1 DEF Writing
  <2>2. /\ FilesFrame(k) /\ NamesFine' /\ written'[names[Metadata(k)]] = written[names[Metadata(k)]] \o p
        /\ \A x \in DOMAIN names \ {Metadata(k)} : written'[names[x]] = written[names[x]]
    BY <1>6, <1>7, <2>1
  <2>3. Len(todo[c]) > 1
    <3>1. First => Len(todo[c]) = 3
      BY ShapesPut
    <3>2. OfLink => Len(todo[c]) = 2
      BY ShapesLink
    <3>3. Len(todo[c]) = 3 \/ Len(todo[c]) = 2
      BY <1>8, <3>1, <3>2, Zenon
    <3>4. QED
      BY <3>3
  <2>4. /\ StoreFrame(k) /\ TodoFrame(c) /\ todo'[c] = Tail(todo[c])
        /\ UNCHANGED <<key, wanted, store, halved>> /\ wanted'[c] = w
    BY <1>1, <2>3, ReturnFrame
  <2>5. Held(k)' = Held(k)
    BY <2>4 DEF Held
  <2>6. new' = new
    BY <2>5 DEF new, old
  <2>7. Data(k) \in DOMAIN names => written'[names[Data(k)]] = written[names[Data(k)]]
    BY <1>6, <2>2
  <2>8. ValueFine(k)' /\ (OldValue(k) => OldValue(k)')
    BY <1>2, <2>4, <2>5, <2>7 DEF ValueFine, OldValue
  <2>9. MetaIs(k, old) => MetaIs(k, new)'
    <3>1. MetaIs(k, old) => written'[names'[Metadata(k)]] = new
      BY <2>1, <2>2 DEF MetaIs, new
    <3>2. QED
      BY <2>1, <2>6, <3>1 DEF MetaIs
  <2>10. k \notin halved' => MetaIs(k, new)' /\ OldValue(k)'
    BY <1>8, <2>4, <2>8, <2>9
  <2>11. CASE First
    <3>1. todo'[c] = Put2(k, w.value) /\ todo'[c] # << >>
      BY <2>4, <2>11, ShapesPut, PutNames
    <3>2. Putting(c, k, w.meta, w.value)'
      BY <2>10, <2>11, <3>1 DEF Putting, new, old
    <3>3. Stage(c, k)'
      BY <2>4, <2>11, <3>2 DEF Stage
    <3>4. QED
      BY <1>1, <2>2, <2>4, <2>8, <3>1, <3>3, GoesOn
  <2>12. CASE OfLink
    <3>1. todo'[c] = Link1(k, w.src) /\ todo'[c] # << >>
      BY <2>4, <2>12, ShapesLink, LinkNames
    <3>2. Linking(c, k, w.meta, w.src)'
      BY <2>10, <2>12, <3>1 DEF Linking, new, old
    <3>3. Stage(c, k)'
      BY <2>4, <2>12, <3>2 DEF Stage
    <3>4. QED
      BY <1>1, <2>2, <2>4, <2>8, <3>1, <3>3, GoesOn
  <2>13. QED
    BY <1>8, <2>11, <2>12
<1>9. CASE Second
  <2>1. Data(k) \in DOMAIN names /\ names[Data(k)] = f /\ p = w.value
    <3>1. Writing(c, Data(k), w.value) /\ p = w.value
      BY <1>1, <1>9, PutNames
    <3>2. QED
      BY <1>1, <3>1 DEF Writing
  <2>2. /\ FilesFrame(k) /\ NamesFine' /\ written'[names[Data(k)]] = written[names[Data(k)]] \o p
        /\ \A x \in DOMAIN names \ {Data(k)} : written'[names[x]] = written[names[x]]
    BY <1>6, <1>7, <2>1
  <2>3. Len(todo[c]) = 1 /\ Tail(todo[c]) = << >>
    BY <1>9, ShapesPut
  <2>4. ~(Len(todo[c]) > 1)
    BY <2>3
  <2>5. /\ StoreFrame(k) /\ TodoFrame(c) /\ todo'[c] = << >>
        /\ store' = Completed(k, w) /\ halved' = halved
    BY <1>1, <1>9, <2>3, <2>4, ReturnFrame
  <2> DEFINE value == Held(k).value \o w.value
             both == [meta |-> new, value |-> value]
  <2>6. store' = With(store, k, both)
    BY <1>9, <2>5 DEF Completed, new, old
  <2>7. both.meta = new /\ both.value = value
    OBVIOUS
  <2> HIDE DEF both, value
  <2>8. k \in DOMAIN store' /\ store'[k] = both
    BY <2>6 DEF With
  <2>9. Held(k)' = both
    BY <2>8 DEF Held
  <2>10. ValueFine(k)'
    <3>1. written'[names[Data(k)]] = value
      BY <1>2, <2>1, <2>2 DEF ValueFine, value
    <3>2. QED
      BY <2>1, <2>7, <2>9, <3>1 DEF ValueFine
  <2>11. k \notin halved' => Settled(k)'
    <3>1. MetaIs(k, new) => Metadata(k) \in DOMAIN names' /\ written'[names'[Metadata(k)]] = new
      BY <1>6, <2>2 DEF MetaIs
    <3>2. MetaIs(k, new) => OldMeta(k)'
      BY <2>7, <2>8, <2>9, <3>1 DEF OldMeta, MetaIs
    <3>3. OldValue(k)'
      BY <2>8 DEF OldValue
    <3>4. QED
      BY <1>9, <2>5, <3>2, <3>3 DEF Settled
  <2>12. QED
    BY <1>1, <2>2, <2>5, <2>10, <2>11, GoesOn
<1>10. QED
  BY <1>3, <1>8, <1>9

LEMMA WriteKeeps ==
  ASSUME FilesInv, KeysInv, NEW c \in Clients, todo[c] # << >>, Head(todo[c]).f = "write",
         DoWrite(c, Head(todo[c]))
  PROVE  FilesInv' /\ KeysInv'
<1>1. PICK k, w, p : k \in Keys /\ k = key[c] /\ w = wanted[c] /\ p = Head(todo[c]).arg
  BY ClientIs
<1>2. Stage(c, k) /\ ValueFine(k)
  BY <1>1, ClientIs
<1>3. PICK name \in FilesOf(k) : Writing(c, name, p) /\ p \in Text
  <2>1. /\ Metadata(k) \in FilesOf(k) /\ Data(k) \in FilesOf(k)
    BY DEF FilesOf
  <2>2. QED
    BY <1>1, <1>2, <2>1, StageWrite, PutNames, LinkNames
<1>4. /\ DOMAIN handles = Clients /\ DOMAIN adding = Clients
      /\ name \in DOMAIN names /\ handles[c] = names[name]
      /\ adding[c] # NotAdding => adding[c].data = p
  BY <1>3 DEF FilesInv, Writing
<1>5. handles[c] \in DOMAIN files
  BY <1>4 DEF KeysInv, NamesFine
<1>6. CASE adding[c] = NotAdding /\ WriteShort(c, p) /\ Return(c)
  <2>1. /\ handles' = [handles EXCEPT ![c] = 0] /\ UNCHANGED <<names, adding>>
    BY <1>6 DEF WriteShort, Close
  <2>2. HandleFrame(c) /\ Fresh(c)'
    BY <1>4, <1>6, <2>1 DEF HandleFrame, Fresh
  <2>3. FilesInv' /\ OnlyWrites(handles[c], p)
    BY <1>3, <1>5, <1>6, WriteShortFine
  <2>4. QED
    BY <1>1, <1>6, <2>1, <2>2, <2>3, WrittenKeeps
<1>7. CASE FinishAdd(c) /\ Return(c)
  <2>1. /\ adding[c] # NotAdding /\ adding' = [adding EXCEPT ![c] = NotAdding]
        /\ handles' = [handles EXCEPT ![c] = 0] /\ names' = names
    BY <1>7 DEF FinishAdd, Close
  <2>2. HandleFrame(c) /\ Fresh(c)'
    BY <1>4, <2>1 DEF HandleFrame, Fresh
  <2>3. FilesInv' /\ OnlyWrites(handles[c], p)
    BY <1>4, <1>5, <1>7, <2>1, FinishAddFine
  <2>4. QED
    BY <1>1, <1>7, <2>1, <2>2, <2>3, WrittenKeeps
<1>8. CASE AddSector(c, p) /\ UNCHANGED <<todo, key, wanted, store, halved>>
  <2>1. FilesInv'
    BY <1>3, <1>8, AddSectorFine
  <2> DEFINE sector == [data |-> p, piece |-> Plain(NextSector(sectors), p)]
  <2>2. /\ adding' = [adding EXCEPT ![c] = sector] /\ sector.data = p
        /\ UNCHANGED <<names, files, progress, handles, written>>
    BY <1>8 DEF AddSector
  <2> HIDE DEF sector
  <2>3. HandleFrame(c) /\ adding'[c].data = p /\ TodoFrame(c)
    <3>1. HandleFrame(c) /\ adding'[c].data = p
      BY <1>4, <2>2 DEF HandleFrame
    <3>2. TodoFrame(c)
      BY <1>8 DEF TodoFrame, KeysInv
    <3>3. QED
      BY <3>1, <3>2
  <2>4. /\ FilesFrame(k) /\ StoreFrame(k) /\ NamesFine' /\ ValueFine(k)' /\ Held(k)' = Held(k)
        /\ OldValue(k) => OldValue(k)'
        /\ \A bytes : MetaIs(k, bytes) => MetaIs(k, bytes)'
    BY <1>1, <1>8, <2>2, AllKept
  <2>5. Stage(c, k)'
    <3> DEFINE old == Held(k).meta
               new == old \o w.meta
               First == /\ w.op = "put" /\ w.meta \in Text /\ w.value \in Text
                        /\ todo[c] = Put3(k, w.meta, w.value) /\ Writing(c, Metadata(k), w.meta)
                        /\ k \notin halved => MetaIs(k, old) /\ OldValue(k)
               Second == /\ w.op = "put" /\ w.meta \in Text /\ w.value \in Text
                         /\ todo[c] = Put1(k, w.value) /\ Writing(c, Data(k), w.value)
                         /\ k \notin halved => MetaIs(k, new)
               OfLink == /\ w.op = "link" /\ w.meta \in Text /\ w.src \in Keys /\ w.src # k
                         /\ todo[c] = Link2(k, w.meta, w.src) /\ Writing(c, Metadata(k), w.meta)
                         /\ k \notin halved => MetaIs(k, old) /\ OldValue(k)
    <3>1. First \/ Second \/ OfLink
      BY <1>1, <1>2, StageWrite
    <3>2. new' = new /\ old' = old
      BY <2>4
    <3>3. ASSUME NEW x, Writing(c, x, p) PROVE Writing(c, x, p)'
      BY <2>2, <2>3, <3>3 DEF Writing
    <3>4. wanted'[c] = w /\ todo'[c] = todo[c] /\ halved' = halved
      BY <1>1, <1>8
    <3> HIDE DEF new, old
    <3>5. /\ MetaIs(k, old) => MetaIs(k, old)'
          /\ MetaIs(k, new) => MetaIs(k, new)'
      BY <2>4, <3>2 DEF MetaIs
    <3>6. CASE First
      <4>1. p = w.meta
        BY <1>1, <3>6, PutNames
      <4>2. Putting(c, k, w.meta, w.value)'
        BY <2>4, <3>3, <3>4, <3>5, <3>6, <4>1 DEF Putting, old
      <4>3. QED
        BY <3>4, <3>6, <4>2 DEF Stage
    <3>7. CASE Second
      <4>1. p = w.value
        BY <1>1, <3>7, PutNames
      <4>2. Putting(c, k, w.meta, w.value)'
        BY <3>3, <3>4, <3>5, <3>7, <4>1 DEF Putting, new, old
      <4>3. QED
        BY <3>4, <3>7, <4>2 DEF Stage
    <3>8. CASE OfLink
      <4>1. p = w.meta
        BY <1>1, <3>8, LinkNames
      <4>2. Linking(c, k, w.meta, w.src)'
        BY <2>4, <3>3, <3>4, <3>5, <3>8, <4>1 DEF Linking, old
      <4>3. QED
        BY <3>4, <3>8, <4>2 DEF Stage
    <3>9. QED
      BY <3>1, <3>6, <3>7, <3>8
  <2>6. QED
    BY <1>1, <1>8, <2>1, <2>3, <2>4, <2>5, GoesOn
<1>9. QED
  BY <1>1, <1>6, <1>7, <1>8 DEF DoWrite

\* An operation ends with an error.
LEMMA AbortKeeps ==
  ASSUME FilesInv, KeysInv, NEW c \in Clients, todo[c] # << >>, Abort(c), Fresh(c),
         wanted[c].op = "link" \/ (key[c] \notin halved => Settled(key[c]))
  PROVE  FilesInv' /\ KeysInv'
<1>1. PICK k, w : k \in Keys /\ k = key[c] /\ w = wanted[c]
  BY ClientIs
<1>2. /\ todo' = [todo EXCEPT ![c] = << >>] /\ key' = [key EXCEPT ![c] = NoKey]
      /\ wanted' = [wanted EXCEPT ![c] = Nothing]
      /\ halved' = IF w.op = "link" THEN halved \cup {k} ELSE halved
      /\ UNCHANGED <<names, files, progress, sectors, handles, adding, written, store>>
  BY <1>1 DEF Abort, Ended, fileVars
<1>3. FilesInv'
  BY <1>2 DEF FilesInv
<1>4. TodoFrame(c) /\ todo'[c] = << >> /\ HandleFrame(c) /\ Fresh(c)'
  BY <1>2 DEF KeysInv, TodoFrame, HandleFrame, Fresh
<1>5. FilesFrame(k) /\ StoreFrame(k) /\ NamesFine' /\ ValueFine(k)'
  BY <1>1, <1>2 DEF FilesFrame, StoreFrame, KeysInv, NamesFine, ValueFine, Held
<1>6. k \notin halved' => Settled(k)'
  <2>1. k \notin halved' => Settled(k)
    BY <1>1, <1>2
  <2>2. Settled(k) => Settled(k)'
    BY <1>2 DEF Settled, OldMeta, OldValue, MetaIs, Held
  <2>3. QED
    BY <2>1, <2>2
<1>7. QED
  BY <1>1, <1>3, <1>4, <1>5, <1>6, GoesOn

LEMMA LinkKeeps ==
  ASSUME FilesInv, KeysInv, NEW c \in Clients, todo[c] # << >>, Head(todo[c]).f = "link",
         DoLink(c, Head(todo[c]))
  PROVE  FilesInv' /\ KeysInv'
<1>1. PICK k, w : k \in Keys /\ k = key[c] /\ w = wanted[c]
  BY ClientIs
<1> DEFINE old == Held(k).meta
           new == old \o w.meta
           src == w.src
<1>2. /\ Fresh(c) /\ w.op = "link" /\ w.meta \in Text /\ src \in Keys /\ src # k
      /\ todo[c] = Link1(k, src)
      /\ k \notin halved => MetaIs(k, new) /\ OldValue(k)
  BY <1>1, ClientIs, StageLink
<1>3. Head(todo[c]).name = Data(k) /\ Head(todo[c]).arg = Data(src)
  BY <1>2, LinkNames
<1>4. CASE Abort(c)
  BY <1>1, <1>2, <1>4, AbortKeeps
<1>5. CASE Link(Data(k), Data(src)) /\ Return(c)
  <2>1. /\ Data(src) \in DOMAIN names
        /\ NewFile(Data(k), files[names[Data(src)]], written[names[Data(src)]], handles)
        /\ UNCHANGED <<progress, sectors, adding>>
    BY <1>5 DEF Link
  <2>2. names[Data(src)] \in DOMAIN files
    BY <2>1 DEF KeysInv, NamesFine
  <2>3. FileFine(files[names[Data(src)]], written[names[Data(src)]], progress, sectors)
    BY <2>2, LenProperties DEF FilesInv, FilesFine
  <2>4. /\ FilesInv' /\ Len(files') = Len(files) + 1 /\ Len(files) \in Nat
        /\ DOMAIN files = 1 .. Len(files)
        /\ written'[Len(files) + 1] = written[names[Data(src)]]
        /\ \A g \in DOMAIN files : written'[g] = written[g]
    <3> DEFINE fi == files[names[Data(src)]]
               bytes == written[names[Data(src)]]
    <3>1. DOMAIN handles = Clients
      BY DEF FilesInv
    <3>2. FileFine(fi, bytes, progress, sectors) /\ NewFile(Data(k), fi, bytes, handles)
      BY <2>1, <2>3
    <3> HIDE DEF fi, bytes
    <3>3. /\ FilesInv' /\ Len(files') = Len(files) + 1 /\ Len(files) \in Nat
          /\ DOMAIN files = 1 .. Len(files) /\ written'[Len(files) + 1] = bytes
          /\ \A g \in DOMAIN files : written'[g] = written[g]
      BY <2>1, <3>1, <3>2, NewFileFine
    <3>4. QED
      BY <3>3 DEF bytes
  <2>5. names' = With(names, Data(k), Len(files) + 1) /\ handles' = handles
    BY <2>1 DEF NewFile
  <2>6. DOMAIN files' = 1 .. Len(files')
    BY <2>4, LenProperties DEF FilesInv, FilesFine
  <2>7. Metadata(k) # Data(k) /\ Data(k) \in FilesOf(k)
    BY <1>1, FilesApart DEF FilesOf
  <2>8. /\ FilesFrame(k) /\ NamesFine'
        /\ DOMAIN names' = DOMAIN names \cup {Data(k)} /\ names'[Data(k)] = Len(files) + 1
        /\ \A x \in DOMAIN names \ {Data(k)} :
             names'[x] = names[x] /\ written'[names[x]] = written[names[x]]
    BY <1>1, <2>4, <2>5, <2>6, <2>7, NewName
  <2>9. Len(todo[c]) = 1 /\ Tail(todo[c]) = << >>
    BY <1>2, ShapesLink
  <2>10. ~(Len(todo[c]) > 1)
    BY <2>9
  <2>11. /\ StoreFrame(k) /\ TodoFrame(c) /\ todo'[c] = << >>
         /\ store' = Completed(k, w) /\ halved' = halved
    BY <1>1, <1>2, <1>5, <2>9, <2>10, ReturnFrame
  <2> DEFINE value == Held(src).value
             both == [meta |-> new, value |-> value]
  <2>12. store' = With(store, k, both)
    BY <1>2, <2>11 DEF Completed
  <2>13. both.meta = new /\ both.value = value
    OBVIOUS
  <2> HIDE DEF both, new, old
  <2>14. k \in DOMAIN store' /\ store'[k] = both
    BY <2>12 DEF With
  <2>15. Held(k)' = both
    BY <2>14 DEF Held
  <2>16. ValueFine(k)'
    <3>1. written'[names'[Data(k)]] = value
      BY <1>2, <2>1, <2>4, <2>8 DEF KeysInv, ValueFine
    <3>2. QED
      BY <2>8, <2>13, <2>15, <3>1 DEF ValueFine
  <2>17. k \notin halved' => Settled(k)'
    <3>1. MetaIs(k, new) => Metadata(k) \in DOMAIN names' /\ written'[names'[Metadata(k)]] = new
      BY <2>7, <2>8 DEF MetaIs
    <3>2. MetaIs(k, new) => OldMeta(k)'
      BY <2>13, <2>14, <2>15, <3>1 DEF OldMeta, MetaIs
    <3>3. OldValue(k)'
      BY <2>14 DEF OldValue
    <3>4. QED
      BY <1>2, <2>11, <3>2, <3>3 DEF Settled
  <2>18. HandleFrame(c) /\ Fresh(c)'
    BY <1>2, <2>1, <2>5 DEF HandleFrame, Fresh
  <2>19. QED
    BY <1>1, <2>4, <2>8, <2>11, <2>16, <2>17, <2>18, GoesOn
<1>6. QED
  BY <1>3, <1>4, <1>5 DEF DoLink

LEMMA GetKeeps ==
  ASSUME FilesInv, KeysInv, NEW c \in Clients, todo[c] # << >>, Head(todo[c]).f = "get",
         DoGet(c, Head(todo[c]))
  PROVE  FilesInv' /\ KeysInv'
<1>1. PICK k, w : k \in Keys /\ k = key[c] /\ w = wanted[c]
  BY ClientIs
<1>2. /\ Fresh(c) /\ w.op = "delete" /\ todo[c] = DeleteCalls(k)
      /\ k \notin halved => Settled(k)
  BY <1>1, ClientIs, StageGet
<1>3. CASE Abort(c)
  BY <1>1, <1>2, <1>3, AbortKeeps
<1>4. CASE Return(c) /\ UNCHANGED fileVars
  <2>1. UNCHANGED <<names, files, progress, sectors, handles, adding, written>>
    BY <1>4 DEF fileVars
  <2>2. FilesInv'
    BY <2>1 DEF FilesInv
  <2>3. Len(todo[c]) = 3 /\ Tail(todo[c]) = Delete2(k)
    BY <1>2, ShapesDelete
  <2>4. Len(todo[c]) > 1
    BY <2>3
  <2>5. /\ StoreFrame(k) /\ TodoFrame(c) /\ todo'[c] = Delete2(k)
        /\ UNCHANGED <<key, wanted, store, halved>> /\ wanted'[c] = w
    BY <1>1, <1>4, <2>3, <2>4, ReturnFrame
  <2>6. /\ FilesFrame(k) /\ NamesFine' /\ ValueFine(k)'
        /\ OldValue(k) => OldValue(k)'
    BY <1>1, <2>1, <2>5, AllKept
  <2>7. HandleFrame(c) /\ Fresh(c)'
    BY <1>2, <2>1 DEF HandleFrame, Fresh
  <2>8. Stage(c, k)' /\ todo'[c] # << >>
    BY <1>2, <2>5, <2>6, <2>7, DeleteNames DEF Stage, Deleting, Settled
  <2>9. QED
    BY <1>1, <2>2, <2>5, <2>6, <2>7, <2>8, GoesOn
<1>5. QED
  BY <1>3, <1>4 DEF DoGet

LEMMA DeleteKeeps ==
  ASSUME FilesInv, KeysInv, NEW c \in Clients, todo[c] # << >>, Head(todo[c]).f = "delete",
         DoDelete(c, Head(todo[c]))
  PROVE  FilesInv' /\ KeysInv'
<1>1. PICK k, w, name : k \in Keys /\ k = key[c] /\ w = wanted[c] /\ name = Head(todo[c]).name
  BY ClientIs
<1> DEFINE First == todo[c] = Delete2(k) /\ (k \notin halved => OldValue(k))
           Ending == todo[c] = Delete1(k) /\ Metadata(k) \notin DOMAIN names
<1>2. Fresh(c) /\ w.op = "delete" /\ (First \/ Ending) /\ ValueFine(k)
  BY <1>1, ClientIs, StageDelete
<1>3. Return(c) /\ (IF name \in DOMAIN names THEN Delete(name) ELSE UNCHANGED fileVars)
  BY <1>1 DEF DoDelete
<1>4. /\ DOMAIN names' = DOMAIN names \ {name}
      /\ \A x \in DOMAIN names \ {name} : names'[x] = names[x]
      /\ UNCHANGED <<files, progress, sectors, handles, adding, written>>
  <2>1. CASE name \in DOMAIN names
    BY <1>3, <2>1 DEF Delete, Restrict
  <2>2. CASE name \notin DOMAIN names
    BY <1>3, <2>2 DEF fileVars
  <2>3. QED
    BY <2>1, <2>2
<1>5. FilesInv'
  BY <1>4 DEF FilesInv
<1>6. Metadata(k) # Data(k) /\ Metadata(k) \in FilesOf(k) /\ Data(k) \in FilesOf(k)
  BY <1>1, FilesApart DEF FilesOf
<1>7. HandleFrame(c) /\ Fresh(c)'
  BY <1>2, <1>4 DEF HandleFrame, Fresh
<1>8. name \in FilesOf(k) => FilesFrame(k) /\ NamesFine'
  BY <1>1, <1>4, NameGone
<1>9. CASE First
  <2>1. name = Metadata(k)
    BY <1>1, <1>9, DeleteNames
  <2>2. /\ FilesFrame(k) /\ NamesFine' /\ DOMAIN names' = DOMAIN names \ {Metadata(k)}
        /\ \A x \in DOMAIN names \ {Metadata(k)} : names'[x] = names[x]
    BY <1>4, <1>6, <1>8, <2>1
  <2>3. Len(todo[c]) = 2 /\ Tail(todo[c]) = Delete1(k)
    BY <1>9, ShapesDelete
  <2>4. Len(todo[c]) > 1
    BY <2>3
  <2>5. /\ StoreFrame(k) /\ TodoFrame(c) /\ todo'[c] = Delete1(k)
        /\ UNCHANGED <<key, wanted, store, halved>> /\ wanted'[c] = w
    BY <1>1, <1>3, <2>3, <2>4, ReturnFrame
  <2>6. ValueFine(k)'
    <3>1. Held(k)' = Held(k)
      BY <2>5 DEF Held
    <3>2. /\ Data(k) \in DOMAIN names' <=> Data(k) \in DOMAIN names
          /\ Data(k) \in DOMAIN names => names'[Data(k)] = names[Data(k)]
      BY <1>6, <2>2
    <3>3. QED
      BY <1>2, <1>4, <2>5, <3>1, <3>2 DEF ValueFine
  <2>7. Stage(c, k)' /\ todo'[c] # << >>
    BY <1>2, <1>7, <2>2, <2>5, DeleteNames DEF Stage, Deleting
  <2>8. QED
    BY <1>1, <1>5, <1>7, <2>2, <2>5, <2>6, <2>7, GoesOn
<1>10. CASE Ending
  <2>1. name = Data(k)
    BY <1>1, <1>10, DeleteNames
  <2>2. /\ FilesFrame(k) /\ NamesFine' /\ DOMAIN names' = DOMAIN names \ {Data(k)}
    BY <1>4, <1>6, <1>8, <2>1
  <2>3. Len(todo[c]) = 1 /\ Tail(todo[c]) = << >>
    BY <1>10, ShapesDelete
  <2>4. ~(Len(todo[c]) > 1)
    BY <2>3
  <2>5. /\ StoreFrame(k) /\ TodoFrame(c) /\ todo'[c] = << >> /\ store' = Completed(k, w)
    BY <1>1, <1>3, <2>3, <2>4, ReturnFrame
  <2>6. k \notin DOMAIN store'
    BY <1>2, <2>5 DEF Completed, Restrict
  <2>7. ValueFine(k)' /\ Settled(k)'
    BY <1>10, <2>2, <2>6 DEF ValueFine, Settled, OldMeta, OldValue
  <2>8. QED
    BY <1>1, <1>5, <1>7, <2>2, <2>5, <2>7, GoesOn
<1>11. QED
  BY <1>2, <1>9, <1>10

-----------------------------------------------------------------------------
(* Requests                                                                *)

LEMMA TextsOfRequests == Payloads \cup Metas \subseteq Text
<1> SUFFICES ASSUME NEW p \in Payloads \cup Metas PROVE p \in Text
  OBVIOUS
<1>1. p \in Seq(Range(p)) /\ Len(p) <= SectorSize
  BY FilesAssumption, KvSiaAssumption
<1>2. Range(p) \subseteq Byte
  BY DEF Byte
<1>3. p \in Seq(Byte)
  BY <1>1, <1>2, SeqMonotonic
<1>4. QED
  BY <1>1, <1>3 DEF Text

\* A client begins an operation.
LEMMA BeginKeeps ==
  ASSUME FilesInv, KeysInv, NEW c \in Clients, NEW k \in Keys, NEW calls, calls # << >>,
         Begin(c, k, calls), UNCHANGED <<fileVars, store, halved>>,
         NEW w, wanted' = [wanted EXCEPT ![c] = w],
         \/ \E m, v \in Text : w = [op |-> "put", meta |-> m, value |-> v] /\ calls = Put4(k, m, v)
         \/ \E m \in Text, src \in Keys \ {k} :
              w = [op |-> "link", meta |-> m, src |-> src] /\ calls = Link3(k, m, src)
         \/ w = [op |-> "delete"] /\ calls = DeleteCalls(k)
  PROVE  FilesInv' /\ KeysInv'
<1>1. /\ todo[c] = << >> /\ \A d \in Clients : todo[d] # << >> => key[d] # k
      /\ todo' = [todo EXCEPT ![c] = calls] /\ key' = [key EXCEPT ![c] = k]
      /\ UNCHANGED <<names, files, progress, sectors, handles, adding, written>>
      /\ DOMAIN todo = Clients /\ DOMAIN key = Clients /\ DOMAIN wanted = Clients
  BY DEF Begin, fileVars, KeysInv
<1>2. FilesInv'
  BY <1>1 DEF FilesInv
<1>3. /\ TodoFrame(c) /\ HandleFrame(c)
      /\ todo'[c] = calls /\ key'[c] = k /\ wanted'[c] = w
  BY <1>1 DEF TodoFrame, HandleFrame
<1>4. /\ FilesFrame(k) /\ StoreFrame(k) /\ NamesFine' /\ ValueFine(k)'
      /\ Settled(k) => Settled(k)'
  BY <1>1, AllKept
<1>5. Fresh(c)'
  BY <1>1 DEF KeysInv, ClientFine, Fresh
<1>6. k \notin halved' => Settled(k)'
  <2>1. ~Busy(k)
    BY <1>1 DEF Busy
  <2>2. QED
    BY <1>4, <2>1 DEF KeysInv
<1>7. Stage(c, k)'
  <2>1. ASSUME NEW m \in Text, NEW v \in Text, calls = Put4(k, m, v),
               w = [op |-> "put", meta |-> m, value |-> v]
        PROVE  Stage(c, k)'
    <3>1. w.op = "put" /\ w.meta = m /\ w.value = v
      BY <2>1
    <3>2. Putting(c, k, w.meta, w.value)'
      BY <1>3, <1>5, <1>6, <2>1, <3>1 DEF Putting
    <3>3. QED
      BY <1>3, <3>1, <3>2 DEF Stage
  <2>2. ASSUME NEW m \in Text, NEW src \in Keys \ {k}, calls = Link3(k, m, src),
               w = [op |-> "link", meta |-> m, src |-> src]
        PROVE  Stage(c, k)'
    <3>1. w.op = "link" /\ w.meta = m /\ w.src = src
      BY <2>2
    <3>2. Linking(c, k, w.meta, w.src)'
      BY <1>3, <1>5, <1>6, <2>2, <3>1 DEF Linking
    <3>3. QED
      BY <1>3, <3>1, <3>2 DEF Stage
  <2>3. ASSUME w = [op |-> "delete"], calls = DeleteCalls(k) PROVE Stage(c, k)'
    <3>1. w.op = "delete"
      BY <2>3
    <3>2. QED
      BY <1>3, <1>5, <1>6, <2>3, <3>1 DEF Stage, Deleting
  <2>4. QED
    BY <2>1, <2>2, <2>3
<1>8. Frame(c, k)
  BY <1>3, <1>4 DEF Frame
<1>9. ClientFine(c)'
  <2>1. key'[c] \in Keys /\ Stage(c, key[c])'
    BY <1>3, <1>7
  <2>2. QED
    BY <1>3, <2>1 DEF ClientFine
<1>10. QED
  BY <1>1, <1>2, <1>3, <1>4, <1>8, <1>9, StepKeeps

LEMMA CallsAre ==
  ASSUME NEW k, NEW m, NEW v, NEW src
  PROVE  /\ PutCalls(k, v, m) = Put4(k, m, v) /\ Put4(k, m, v) # << >>
         /\ LinkCalls(k, src, m) = Link3(k, m, src) /\ Link3(k, m, src) # << >>
         /\ DeleteCalls(k) # << >>
<1>1. PutCalls(k, v, m) = Put4(k, m, v)
  BY TwoAndTwo DEF PutCalls, PutFile, Put4
<1>2. LinkCalls(k, src, m) = Link3(k, m, src)
  BY TwoAndOne DEF LinkCalls, PutFile, Link3
<1>3. Put4(k, m, v) # << >> /\ Link3(k, m, src) # << >> /\ DeleteCalls(k) # << >>
  BY ShapesPut, ShapesLink, ShapesDelete, NotEmpty
<1>4. QED
  BY <1>1, <1>2, <1>3

LEMMA RequestKeeps ==
  ASSUME FilesInv, KeysInv, NEW c \in Clients, Request(c)
  PROVE  FilesInv' /\ KeysInv'
<1>1. ASSUME NEW k \in Keys, NEW v \in Payloads, NEW m \in Metas, KvPut(c, k, v, m)
      PROVE  FilesInv' /\ KeysInv'
  <2> DEFINE w == [op |-> "put", meta |-> m, value |-> v]
             calls == PutCalls(k, v, m)
  <2>1. /\ Begin(c, k, calls) /\ UNCHANGED <<fileVars, store, halved>>
        /\ wanted' = [wanted EXCEPT ![c] = w]
    BY <1>1 DEF KvPut
  <2>2. m \in Text /\ v \in Text /\ calls = Put4(k, m, v) /\ calls # << >>
    BY TextsOfRequests, CallsAre
  <2>3. \E x, y \in Text : w = [op |-> "put", meta |-> x, value |-> y] /\ calls = Put4(k, x, y)
    BY <2>2
  <2> HIDE DEF w, calls
  <2>4. QED
    BY <2>1, <2>2, <2>3, BeginKeeps
<1>2. ASSUME NEW k \in Keys, NEW src \in Keys, NEW m \in Metas, KvLink(c, k, src, m)
      PROVE  FilesInv' /\ KeysInv'
  <2> DEFINE w == [op |-> "link", meta |-> m, src |-> src]
             calls == LinkCalls(k, src, m)
  <2>1. /\ Begin(c, k, calls) /\ UNCHANGED <<fileVars, store, halved>>
        /\ wanted' = [wanted EXCEPT ![c] = w] /\ src # k
    BY <1>2 DEF KvLink
  <2>2. m \in Text /\ src \in Keys \ {k} /\ calls = Link3(k, m, src) /\ calls # << >>
    BY <2>1, TextsOfRequests, CallsAre
  <2>3. \E x \in Text, y \in Keys \ {k} :
          w = [op |-> "link", meta |-> x, src |-> y] /\ calls = Link3(k, x, y)
    BY <2>2
  <2> HIDE DEF w, calls
  <2>4. QED
    BY <2>1, <2>2, <2>3, BeginKeeps
<1>3. ASSUME NEW k \in Keys, KvDelete(c, k) PROVE FilesInv' /\ KeysInv'
  <2> DEFINE w == [op |-> "delete"]
             calls == DeleteCalls(k)
  <2>1. /\ Begin(c, k, calls) /\ UNCHANGED <<fileVars, store, halved>>
        /\ wanted' = [wanted EXCEPT ![c] = w]
    BY <1>3 DEF KvDelete
  <2>2. calls # << >>
    BY CallsAre
  <2>3. w = [op |-> "delete"] /\ calls = DeleteCalls(k)
    OBVIOUS
  <2> HIDE DEF w, calls
  <2>4. QED
    BY <2>1, <2>2, <2>3, BeginKeeps
<1>4. CASE Step(c)
  <2> DEFINE call == Head(todo[c])
  <2>1. todo[c] # << >>
    BY <1>4 DEF Step
  <2>2. /\ call.f = "open" => DoOpen(c, call)
        /\ call.f = "create" => DoCreate(c, call)
        /\ call.f = "write" => DoWrite(c, call)
        /\ call.f = "link" => DoLink(c, call)
        /\ call.f = "get" => DoGet(c, call)
        /\ call.f = "delete" => DoDelete(c, call)
    BY <1>4 DEF Step
  <2>3. call.f \in {"open", "create", "write", "link", "get", "delete"}
    <3>1. PICK k : Stage(c, k)
      BY <2>1, ClientIs
    <3>2. QED
      BY <3>1, HeadsAre DEF Stage, Putting, Linking, Deleting
  <2>4. QED
    BY <2>1, <2>2, <2>3, OpenKeeps, CreateKeeps, WriteKeeps, LinkKeeps, GetKeeps, DeleteKeeps
<1>5. QED
  BY <1>1, <1>2, <1>3, <1>4 DEF Request

-----------------------------------------------------------------------------
(* Saves and starts                                                        *)

\* What a dump of the files keeps of FilesInv and KeysInv, with the sectors of
\* its moment.
HeldIn(d, k) == IF k \in DOMAIN d.store THEN d.store[k] ELSE [meta |-> << >>, value |-> << >>]
DumpFine(d, ss) ==
  /\ FilesFine(d.files, d.written, d.progress, ss)
  /\ DOMAIN d.names \subseteq KeyFiles
  /\ \A x \in DOMAIN d.names : d.names[x] \in DOMAIN d.files
  /\ \A x, y \in DOMAIN d.names : d.names[x] = d.names[y] => x = y
  /\ \A k \in Keys :
       /\ Data(k) \in DOMAIN d.names => d.written[d.names[Data(k)]] = HeldIn(d, k).value
       /\ k \in DOMAIN d.store => Data(k) \in DOMAIN d.names
  /\ \A k \in Keys \ d.halved :
       /\ k \in DOMAIN d.store =>
            Metadata(k) \in DOMAIN d.names /\ d.written[d.names[Metadata(k)]] = HeldIn(d, k).meta
       /\ k \notin DOMAIN d.store => Metadata(k) \notin DOMAIN d.names
       /\ Data(k) \in DOMAIN d.names => k \in DOMAIN d.store

\* How far a shutdown is, and what it has on disk if no request came after it.
ExitInv ==
  /\ saver \in {"none", "periodic", "shutdown"}
  /\ saver = "shutdown" => stage \in {"closed", "sent"} /\ (~late => disk.manager = sectors)
  /\ stage \in {"sent", "exited"} /\ ~late => progress.data = << >>
  /\ stage = "exited" /\ ~late => disk.manager = sectors /\ disk.files = FilesDump
  /\ stage = "serving" => ~late

PersistenceInv ==
  /\ stage # "mixed" => FilesInv /\ KeysInv
  /\ DOMAIN disk = {"manager", "files", "at"} /\ DumpFine(disk.files, disk.at)
  /\ ExitInv

LEMMA DumpIsFine ==
  ASSUME FilesInv, KeysInv
  PROVE  DumpFine(FilesDump, sectors)
<1> DEFINE d == FilesDump
<1>1. /\ d.names = names /\ d.files = files /\ d.progress = progress /\ d.written = written
      /\ d.store = store /\ d.halved = halved \cup {k \in Keys : Busy(k)}
  BY DEF FilesDump
<1> HIDE DEF d
<1>2. \A k \in Keys : HeldIn(d, k) = Held(k)
  BY <1>1 DEF HeldIn, Held
<1>3. FilesFine(d.files, d.written, d.progress, sectors)
  BY <1>1 DEF FilesInv
<1>4. /\ DOMAIN d.names \subseteq KeyFiles
      /\ \A x \in DOMAIN d.names : d.names[x] \in DOMAIN d.files
      /\ \A x, y \in DOMAIN d.names : d.names[x] = d.names[y] => x = y
  BY <1>1 DEF KeysInv, NamesFine
<1>5. ASSUME NEW k \in Keys
      PROVE  /\ Data(k) \in DOMAIN d.names => d.written[d.names[Data(k)]] = HeldIn(d, k).value
             /\ k \in DOMAIN d.store => Data(k) \in DOMAIN d.names
  BY <1>1, <1>2 DEF KeysInv, ValueFine
<1>6. ASSUME NEW k \in Keys \ d.halved
      PROVE  /\ k \in DOMAIN d.store =>
                  /\ Metadata(k) \in DOMAIN d.names
                  /\ d.written[d.names[Metadata(k)]] = HeldIn(d, k).meta
             /\ k \notin DOMAIN d.store => Metadata(k) \notin DOMAIN d.names
             /\ Data(k) \in DOMAIN d.names => k \in DOMAIN d.store
  <2>1. Settled(k)
    BY <1>1 DEF KeysInv
  <2>2. QED
    BY <1>1, <1>2, <2>1 DEF Settled, OldMeta, OldValue, MetaIs
<1>7. QED
  BY <1>3, <1>4, <1>5, <1>6 DEF DumpFine, d

\* A start from two databases of one moment.
LEMMA LoadIsFine ==
  ASSUME DumpFine(disk.files, disk.at), disk.at = disk.manager, Restart
  PROVE  FilesInv' /\ KeysInv'
<1>1. PICK d : d = disk.files
  OBVIOUS
<1>2. /\ sectors' = disk.at /\ progress' = d.progress /\ names' = d.names /\ files' = d.files
      /\ written' = d.written /\ store' = d.store /\ halved' = d.halved
      /\ handles' = [c \in Clients |-> 0] /\ adding' = [c \in Clients |-> NotAdding]
      /\ todo' = [c \in Clients |-> << >>] /\ key' = [c \in Clients |-> NoKey]
      /\ wanted' = [c \in Clients |-> Nothing]
  BY <1>1 DEF Restart, Load
<1>3. DumpFine(d, sectors')
  BY <1>1, <1>2
<1>4. FilesInv'
  BY <1>2, <1>3 DEF DumpFine, FilesInv, AddingFine
<1>5. NamesFine'
  BY <1>2, <1>3 DEF DumpFine, NamesFine
<1>6. \A k \in Keys : Held(k)' = HeldIn(d, k)
  BY <1>2 DEF Held, HeldIn
<1>7. \A k \in Keys : ValueFine(k)'
  BY <1>2, <1>3, <1>6 DEF DumpFine, ValueFine
<1>8. \A k \in Keys : k \notin halved' => Settled(k)'
  BY <1>2, <1>3, <1>6 DEF DumpFine, Settled, OldMeta, OldValue, MetaIs
<1>9. \A c \in Clients : todo'[c] = << >> /\ Fresh(c)'
  BY <1>2 DEF Fresh
<1>10. \A c \in Clients : ClientFine(c)'
  BY <1>9 DEF ClientFine
<1>11. DOMAIN todo' = Clients /\ DOMAIN key' = Clients /\ DOMAIN wanted' = Clients
  BY <1>2
<1>12. QED
  BY <1>4, <1>5, <1>7, <1>8, <1>9, <1>10, <1>11 DEF KeysInv

LEMMA StartIsFine ==
  ASSUME PInit
  PROVE  PersistenceInv
<1>1. /\ names = << >> /\ files = << >> /\ written = << >> /\ progress = NoProgress
      /\ sectors = << >> /\ handles = [c \in Clients |-> 0]
      /\ adding = [c \in Clients |-> NotAdding] /\ todo = [c \in Clients |-> << >>]
      /\ key = [c \in Clients |-> NoKey] /\ wanted = [c \in Clients |-> Nothing]
      /\ store = << >> /\ halved = {} /\ disk.files = FilesDump /\ disk.at = sectors
      /\ saver = "none" /\ stage = "serving" /\ late = FALSE
      /\ DOMAIN disk = {"manager", "files", "at"}
  BY DEF PInit, KInit, Init
<1>2. SectorsFine(progress, sectors)
  <2>1. << >> \in Text
    BY EmptySeq, FilesAssumption DEF Text
  <2>2. progress.id = 0 /\ progress.data = << >> /\ progress \in [id : Nat, data : Text]
    BY <1>1, <2>1 DEF NoProgress
  <2>3. QED
    BY <1>1, <2>2, EmptySeq DEF SectorsFine
<1>3. FilesInv
  <2>1. Len(files) = 0 /\ Len(written) = 0 /\ files \in Seq(FileObjects) /\ written \in Seq(Seq(Byte))
    BY <1>1, EmptySeq
  <2>2. FilesFine(files, written, progress, sectors)
    BY <1>2, <2>1 DEF FilesFine
  <2>3. QED
    BY <1>1, <2>2 DEF FilesInv, AddingFine
<1>4. KeysInv
  <2>1. DOMAIN names = {} /\ DOMAIN store = {}
    BY <1>1
  <2>2. NamesFine /\ \A k \in Keys : ValueFine(k) /\ Settled(k)
    BY <2>1 DEF NamesFine, ValueFine, Settled, OldMeta, OldValue, MetaIs
  <2>3. \A c \in Clients : todo[c] = << >> /\ ClientFine(c)
    BY <1>1 DEF ClientFine, Fresh
  <2>4. QED
    BY <1>1, <2>2, <2>3 DEF KeysInv
<1>5. DumpFine(disk.files, disk.at)
  BY <1>1, <1>3, <1>4, DumpIsFine
<1>6. ExitInv
  BY <1>1 DEF ExitInv
<1>7. QED
  BY <1>1, <1>3, <1>4, <1>5, <1>6 DEF PersistenceInv

LEMMA KeysUnmoved ==
  ASSUME UNCHANGED <<names, files, handles, adding, written>>,
         UNCHANGED <<wanted, todo, key, store, halved>>
  PROVE  /\ KeysInv => KeysInv'
         /\ \A k : Busy(k)' = Busy(k)
<1>1. \A k : Held(k)' = Held(k) /\ Busy(k)' = Busy(k)
  BY DEF Held, Busy
<1>2. ASSUME KeysInv PROVE KeysInv'
  <2>1. NamesFine' /\ \A k \in Keys : ValueFine(k)'
    BY <1>1, <1>2 DEF KeysInv, NamesFine, ValueFine
  <2>2. \A k \in Keys : k \notin halved' /\ ~Busy(k)' => Settled(k)'
    BY <1>1, <1>2 DEF KeysInv, Settled, OldMeta, OldValue, MetaIs
  <2>3. ASSUME NEW c, NEW k, Stage(c, k) PROVE Stage(c, k)'
    <3>1. Fresh(c)' <=> Fresh(c)
      BY DEF Fresh
    <3>2. \A x, p : Writing(c, x, p)' <=> Writing(c, x, p)
      BY DEF Writing
    <3>3. /\ \A bytes : MetaIs(k, bytes)' <=> MetaIs(k, bytes)
          /\ OldValue(k)' <=> OldValue(k)
          /\ Settled(k)' <=> Settled(k)
      BY <1>1 DEF MetaIs, OldValue, Settled, OldMeta
    <3> DEFINE old == Held(k).meta
    <3>4. old' = old
      BY <1>1
    <3> HIDE DEF old
    <3>5. \A m, v : Putting(c, k, m, v) => Putting(c, k, m, v)'
      BY <3>1, <3>2, <3>3, <3>4 DEF Putting, old
    <3>6. \A m, src : Linking(c, k, m, src) => Linking(c, k, m, src)'
      BY <3>1, <3>2, <3>3, <3>4 DEF Linking, old
    <3>7. Deleting(c, k) => Deleting(c, k)'
      BY <3>1, <3>3 DEF Deleting
    <3>8. QED
      BY <2>3, <3>5, <3>6, <3>7 DEF Stage
  <2>4. \A c \in Clients : ClientFine(c)'
    BY <1>2, <2>3 DEF KeysInv, ClientFine, Fresh
  <2>5. QED
    BY <1>2, <2>1, <2>2, <2>4 DEF KeysInv
<1>3. QED
  BY <1>1, <1>2

LEMMA Unmoved ==
  ASSUME UNCHANGED <<names, files, progress, sectors, handles, adding, written>>,
         UNCHANGED <<wanted, todo, key, store, halved>>
  PROVE  /\ FilesInv => FilesInv'
         /\ KeysInv => KeysInv'
         /\ FilesDump' = FilesDump
<1>1. FilesInv => FilesInv'
  BY DEF FilesInv
<1>2. /\ KeysInv => KeysInv'
      /\ \A k : Busy(k)' = Busy(k)
  BY KeysUnmoved
<1>3. FilesDump' = FilesDump
  BY <1>2 DEF FilesDump
<1>4. QED
  BY <1>1, <1>2, <1>3

LEMMA PersistenceKeeps ==
  ASSUME PersistenceInv, PNext
  PROVE  PersistenceInv'
<1>1. /\ stage # "mixed" => FilesInv /\ KeysInv
      /\ DOMAIN disk = {"manager", "files", "at"} /\ DumpFine(disk.files, disk.at) /\ ExitInv
  BY DEF PersistenceInv
<1>2. CASE Serve
  <2>1. PICK c \in Clients : Request(c)
    BY <1>2 DEF Serve
  <2>2. /\ stage \notin {"exited", "mixed"} /\ late' = (late \/ stage # "serving")
        /\ UNCHANGED <<disk, saver, stage, saves, restarts>>
    BY <1>2 DEF Serve, Running
  <2>3. FilesInv' /\ KeysInv'
    BY <1>1, <2>1, <2>2, RequestKeeps
  <2>4. ExitInv'
    BY <1>1, <2>2 DEF ExitInv
  <2>5. QED
    BY <1>1, <2>2, <2>3, <2>4 DEF PersistenceInv
<1>3. CASE \E who \in {"periodic", "shutdown"} : SaveManager(who)
  <2>1. PICK who \in {"periodic", "shutdown"} : SaveManager(who)
    BY <1>3
  <2>2. /\ saver = "none" /\ stage \notin {"exited", "mixed"}
        /\ who = "shutdown" => stage \in {"closed", "sent"}
        /\ disk' = [disk EXCEPT !.manager = sectors] /\ saver' = who
        /\ UNCHANGED <<stage, restarts, late>>
        /\ UNCHANGED <<names, files, progress, sectors, handles, adding, written>>
        /\ UNCHANGED <<wanted, todo, key, store, halved, requests>>
    BY <2>1 DEF SaveManager, Running, fileVars, kvVars
  <2>3. FilesInv' /\ KeysInv'
    BY <1>1, <2>2, Unmoved
  <2>4. /\ disk'.files = disk.files /\ disk'.at = disk.at /\ disk'.manager = sectors
        /\ DOMAIN disk' = DOMAIN disk
    BY <1>1, <2>2
  <2>5. ExitInv'
    BY <1>1, <2>2, <2>4 DEF ExitInv
  <2>6. QED
    BY <1>1, <2>3, <2>4, <2>5 DEF PersistenceInv
<1>4. CASE SaveFiles
  <2>1. /\ saver # "none" /\ stage \notin {"exited", "mixed"}
        /\ disk' = [disk EXCEPT !.files = FilesDump, !.at = sectors] /\ saver' = "none"
        /\ stage' = IF saver = "periodic" THEN stage
                    ELSE IF stage = "closed" THEN "saved" ELSE "exited"
        /\ UNCHANGED <<names, files, progress, sectors, handles, adding, written>>
        /\ UNCHANGED <<wanted, todo, key, store, halved, requests, late>>
    BY <1>4 DEF SaveFiles, Running, fileVars, kvVars
  <2>2. FilesInv' /\ KeysInv' /\ FilesDump' = FilesDump
    BY <1>1, <2>1, Unmoved
  <2>3. /\ disk'.files = FilesDump /\ disk'.at = sectors /\ disk'.manager = disk.manager
        /\ DOMAIN disk' = DOMAIN disk
    BY <1>1, <2>1
  <2>4. DumpFine(disk'.files, disk'.at)
    BY <1>1, <2>1, <2>3, DumpIsFine
  <2>5. ExitInv'
    BY <1>1, <2>1, <2>2, <2>3 DEF ExitInv
  <2>6. QED
    BY <1>1, <2>2, <2>3, <2>4, <2>5 DEF PersistenceInv
<1>5. CASE CloseListener
  <2>1. /\ stage = "serving" /\ stage' = "closed" /\ UNCHANGED <<disk, saver, late>>
        /\ UNCHANGED <<names, files, progress, sectors, handles, adding, written>>
        /\ UNCHANGED <<wanted, todo, key, store, halved, requests>>
    BY <1>5 DEF CloseListener, fileVars, kvVars
  <2>2. FilesInv' /\ KeysInv'
    BY <1>1, <2>1, Unmoved
  <2>3. ExitInv'
    BY <1>1, <2>1 DEF ExitInv
  <2>4. QED
    BY <1>1, <2>1, <2>2, <2>3 DEF PersistenceInv
<1>6. CASE Send
  <2>1. /\ stage = "saved" /\ UNCHANGED <<disk, saver, late>>
        /\ stage' = IF progress'.data = << >> THEN "sent" ELSE "stuck"
        /\ UNCHANGED <<wanted, todo, key, store, halved, requests>>
    BY <1>6 DEF Send, kvVars
  <2>2. FilesInv' /\ KeysInv'
    <3>1. CASE progress.data = << >>
      <4>1. UNCHANGED <<names, files, progress, sectors, handles, adding, written>>
        BY <1>6, <3>1 DEF Send, fileVars
      <4>2. QED
        BY <1>1, <2>1, <4>1, Unmoved
    <3>2. CASE progress.data # << >>
      <4>1. UploadSectorInProgress
        BY <1>6, <3>2 DEF Send
      <4>2. FilesInv'
        BY <1>1, <2>1, <4>1, UploadFine
      <4>3. UNCHANGED <<names, files, handles, adding, written>>
        BY <4>1 DEF UploadSectorInProgress
      <4>4. KeysInv'
        BY <1>1, <2>1, <4>3, KeysUnmoved
      <4>5. QED
        BY <4>2, <4>4
    <3>3. QED
      BY <3>1, <3>2
  <2>3. ExitInv'
    BY <1>1, <2>1 DEF ExitInv
  <2>4. QED
    BY <1>1, <2>1, <2>2, <2>3 DEF PersistenceInv
<1>7. CASE Restart
  <2>1. /\ disk' = disk /\ saver' = "none" /\ late' = FALSE
        /\ stage' = IF disk.at = disk.manager THEN "serving" ELSE "mixed"
    BY <1>7 DEF Restart
  <2>2. stage' # "mixed" => FilesInv' /\ KeysInv'
    BY <1>1, <1>7, <2>1, LoadIsFine
  <2>3. ExitInv'
    BY <2>1 DEF ExitInv
  <2>4. QED
    BY <1>1, <2>1, <2>2, <2>3 DEF PersistenceInv
<1>8. QED
  BY <1>2, <1>3, <1>4, <1>5, <1>6, <1>7 DEF PNext

LEMMA PersistenceHolds == PSpec => []PersistenceInv
<1>1. PersistenceInv /\ UNCHANGED vars => PersistenceInv'
  <2> SUFFICES ASSUME PersistenceInv, UNCHANGED vars PROVE PersistenceInv'
    OBVIOUS
  <2>1. /\ UNCHANGED <<names, files, progress, sectors, handles, adding, written>>
        /\ UNCHANGED <<wanted, todo, key, store, halved>>
        /\ UNCHANGED <<disk, saver, stage, late>>
    BY DEF vars, fileVars, kvVars
  <2>2. /\ FilesInv => FilesInv'
        /\ KeysInv => KeysInv'
        /\ FilesDump' = FilesDump
    BY <2>1, Unmoved
  <2>3. ExitInv'
    BY <2>1, <2>2 DEF PersistenceInv, ExitInv
  <2>4. QED
    BY <2>1, <2>2, <2>3 DEF PersistenceInv
<1>2. QED
  BY <1>1, StartIsFine, PersistenceKeeps, PTL DEF PSpec

-----------------------------------------------------------------------------
(* Theorems                                                                *)

LEMMA FilesAreTyped ==
  ASSUME FilesInv, KeysInv
  PROVE  TypeOK /\ InProgressFits
<1>1. SectorsFine(progress, sectors) /\ Len(files) \in Nat /\ Len(written) = Len(files)
  BY LenProperties DEF FilesInv, FilesFine
<1>2. DOMAIN files = 1 .. Len(files) /\ DOMAIN written = 1 .. Len(files)
  BY LenProperties DEF FilesInv, FilesFine
<1>3. ASSUME NEW c \in Clients PROVE handles[c] \in DOMAIN files \cup {0}
  <2>1. Fresh(c) \/ \E x, p : Writing(c, x, p)
    <3>1. CASE todo[c] = << >>
      BY <3>1 DEF KeysInv, ClientFine
    <3>2. CASE todo[c] # << >>
      <4>1. PICK k : Stage(c, k)
        BY <3>2, ClientIs
      <4>2. ASSUME NEW m, NEW v, Putting(c, k, m, v)
            PROVE  Fresh(c) \/ \E x, p : Writing(c, x, p)
        BY <4>2 DEF Putting
      <4>3. ASSUME NEW m, NEW src, Linking(c, k, m, src)
            PROVE  Fresh(c) \/ \E x, p : Writing(c, x, p)
        BY <4>3 DEF Linking
      <4>4. Fresh(c) \/ \E x, p : Writing(c, x, p)
        BY <4>1, <4>2, <4>3 DEF Stage, Deleting
      <4>5. QED
        BY <4>4
    <3>3. QED
      BY <3>1, <3>2
  <2>2. QED
    BY <2>1 DEF Fresh, Writing, KeysInv, NamesFine
<1>4. ASSUME NEW f \in DOMAIN files, NEW k \in DOMAIN files[f].pieces
      PROVE  files[f].pieces[k].sector \in DOMAIN sectors
  <2>1. FileFine(files[f], written[f], progress, sectors)
    BY <1>2 DEF FilesInv, FilesFine
  <2>2. files[f].pieces \in Seq(Pieces)
    BY <2>1 DEF FileFine, FileObjects
  <2>3. k \in 1 .. Len(files[f].pieces)
    BY <2>2, LenProperties
  <2>4. QED
    BY <2>1, <2>3 DEF FileFine, PieceKept
<1>5. progress.id # 0 => CanWriteSector(sectors, progress.id)
  BY <1>1 DEF SectorsFine, CanWriteSector
<1>6. progress.id = 0 => progress.data = << >>
  BY <1>1 DEF SectorsFine
<1>7. InProgressFits
  BY <1>1 DEF SectorsFine, InProgressFits, Text
<1>8. \A name \in DOMAIN names : names[name] \in DOMAIN files
  BY DEF KeysInv, NamesFine
<1>9. QED
  BY <1>2, <1>3, <1>4, <1>5, <1>6, <1>7, <1>8 DEF TypeOK

LEMMA KeysAreWhole ==
  ASSUME FilesInv, KeysInv
  PROVE  KeyIsBothFiles /\ GetReturnsStore
<1>1. \A f \in DOMAIN files : Readable(f) => Get(f) = Answer(written[f])
  BY FilesRead DEF FilesInv
<1>2. ASSUME NEW k \in Keys, ~Busy(k), k \notin halved
      PROVE  /\ Metadata(k) \in DOMAIN names <=> Data(k) \in DOMAIN names
             /\ Has(k) <=> k \in DOMAIN store
  BY <1>2 DEF KeysInv, Settled, OldMeta, OldValue, MetaIs, ValueFine, Has
<1>3. ASSUME NEW k \in Keys, ~Busy(k), k \notin halved, k \in DOMAIN store,
             Readable(names[Metadata(k)]), Readable(names[Data(k)])
      PROVE  /\ Get(names[Metadata(k)]) = Answer(store[k].meta)
             /\ Get(names[Data(k)]) = Answer(store[k].value)
  <2>1. /\ Metadata(k) \in DOMAIN names /\ written[names[Metadata(k)]] = store[k].meta
        /\ Data(k) \in DOMAIN names /\ written[names[Data(k)]] = store[k].value
    BY <1>3 DEF KeysInv, Settled, OldMeta, MetaIs, ValueFine, Held
  <2>2. names[Metadata(k)] \in DOMAIN files /\ names[Data(k)] \in DOMAIN files
    BY <2>1 DEF KeysInv, NamesFine
  <2>3. QED
    BY <1>1, <1>3, <2>1, <2>2
<1>4. KeyIsBothFiles
  BY <1>2 DEF KeyIsBothFiles
<1>5. GetReturnsStore
  BY <1>3 DEF GetReturnsStore
<1>6. QED
  BY <1>4, <1>5

\* A start from two databases of one moment finds all that the files name, and
\* every file is read as it was written.
THEOREM SavesAreReadable == PSpec => []WholeSavesAreReadable
<1>1. PersistenceInv => WholeSavesAreReadable
  BY FilesRead, FilesAreTyped DEF PersistenceInv, WholeSavesAreReadable, FilesInv
<1>2. QED
  BY <1>1, PersistenceHolds, PTL

\* A key has both of its files or none, and Get returns what the completed
\* requests have put, also after a start.
THEOREM StoreStaysWhole == PSpec => []StoreIsWhole
<1>1. PersistenceInv => StoreIsWhole
  BY KeysAreWhole DEF PersistenceInv, StoreIsWhole
<1>2. QED
  BY <1>1, PersistenceHolds, PTL

\* Every range of every ordinary file, which is one without a piece of no bytes, is
\* read as written or refused.
THEOREM RangesReadAsWritten == PSpec => []RangesAreHonest
<1>1. PersistenceInv => RangesAreHonest
  BY FilesRead DEF PersistenceInv, RangesAreHonest, FilesInv
<1>2. QED
  BY <1>1, PersistenceHolds, PTL

\* After an orderly exit both databases on disk are those of memory.
THEOREM OrderlyExitsAreDurable == PSpec => []ExitIsDurable
<1>1. PersistenceInv => ExitIsDurable
  BY DEF PersistenceInv, ExitInv, ExitIsDurable
<1>2. QED
  BY <1>1, PersistenceHolds, PTL

=============================================================================
