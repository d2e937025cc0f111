-------------------------- MODULE ChunkAppenderProofs --------------------------
(***************************************************************************)
(* Proofs about ChunkAppender for every value of the constants: what the   *)
(* bytes and the ends of a sequence of chunks are, that the file is        *)
(* stored, and that reads and the cache have the file's bytes.             *)
(***************************************************************************)
EXTENDS ChunkAppender, TLAPS, SequenceTheorems, FiniteSetTheorems, WellFoundedInduction

-----------------------------------------------------------------------------
(* The bytes of a sequence of chunks                                       *)

\* A set of natural numbers that is not empty has a least element.
LEMMA LeastOfNat ==
  ASSUME NEW S, S \subseteq Nat, S # {}
  PROVE  \E x \in S : \A y \in S : x <= y
<1> DEFINE R == OpToRel(<, Nat)
<1>1. IsWellFoundedOn(R, Nat)
  BY NatLessThanWellFounded
<1>2. R = {ss \in Nat \X Nat : ss[1] < ss[2]}
  BY Zenon DEF OpToRel
<1> HIDE DEF R
<1>3. PICK x \in S : \A y \in S : ~(<<y, x>> \in R)
  BY <1>1, WFMin
<1>4. ASSUME NEW y \in S PROVE x <= y
  <2>1. x \in Nat /\ y \in Nat /\ ~(<<y, x>> \in {ss \in Nat \X Nat : ss[1] < ss[2]})
    BY <1>2, <1>3
  <2>2. QED
    BY ONLY <2>1
<1>5. QED
  BY <1>4

Strings == Seq(Byte)

\* The function that FlattenSeq is defined by: what precedes, and the next chunk.
Joins(f, s) == f = [i \in 1 .. Len(s) |-> IF i = 1 THEN s[i] ELSE f[i - 1] \o s[i]]
Join(s) == CHOOSE f : Joins(f, s)

LEMMA BytesAreJoined ==
  ASSUME NEW s
  PROVE  Bytes(s) = IF Len(s) = 0 THEN s ELSE Join(s)[Len(s)]
BY DEF Bytes, FlattenSeq, Join, Joins

\* A function for the chunks gives one for those and another.
LEMMA JoinOneMore ==
  ASSUME NEW s \in Seq(Strings), NEW x \in Strings, NEW f, Joins(f, s)
  PROVE  \E g : Joins(g, Append(s, x))
<1> DEFINE n == Len(s)
           t == Append(s, x)
           g == [i \in 1 .. n + 1 |-> IF i = n + 1 THEN (IF n = 0 THEN x ELSE f[n] \o x) ELSE f[i]]
<1>1. n \in Nat /\ Len(t) = n + 1 /\ t[n + 1] = x /\ \A i \in 1 .. n : t[i] = s[i]
  BY AppendProperties, LenProperties
<1>2. \A i \in 1 .. n : f[i] = IF i = 1 THEN s[i] ELSE f[i - 1] \o s[i]
  BY Zenon DEF Joins
<1> HIDE DEF n, t
<1>3. ASSUME NEW i \in 1 .. n + 1
      PROVE  g[i] = IF i = 1 THEN t[i] ELSE g[i - 1] \o t[i]
  <2>1. CASE i = n + 1
    <3>1. n # 0 => /\ i # 1 /\ i - 1 = n /\ n \in 1 .. n + 1 /\ n # n + 1
      BY <1>1, <2>1
    <3>2. n # 0 => g[i - 1] = f[n]
      BY <3>1
    <3>3. g[i] = IF n = 0 THEN x ELSE f[n] \o x
      BY <2>1
    <3> HIDE DEF g
    <3>4. QED
      BY <1>1, <2>1, <3>1, <3>2, <3>3
  <2>2. CASE i # n + 1
    <3>1. i \in 1 .. n /\ (i # 1 => i - 1 \in 1 .. n + 1 /\ i - 1 # n + 1)
      BY <1>1, <2>2
    <3>2. g[i] = f[i] /\ (i # 1 => g[i - 1] = f[i - 1])
      BY <2>2, <3>1
    <3> HIDE DEF g
    <3>3. QED
      BY <1>1, <1>2, <3>1, <3>2
  <2>3. QED
    BY <2>1, <2>2
<1>4. g = [i \in 1 .. n + 1 |-> g[i]]
  OBVIOUS
<1> HIDE DEF g
<1>5. g = [i \in 1 .. n + 1 |-> IF i = 1 THEN t[i] ELSE g[i - 1] \o t[i]]
  BY <1>3, <1>4, Zenon
<1>6. Joins(g, t)
  BY <1>1, <1>5 DEF Joins
<1>7. QED
  BY <1>6 DEF t

LEMMA JoinExists ==
  ASSUME NEW s \in Seq(Strings)
  PROVE  Joins(Join(s), s)
<1> DEFINE Bad == {n \in Nat : \E t \in Seq(Strings) : Len(t) = n /\ ~ \E f : Joins(f, t)}
<1>1. Bad = {}
  <2> SUFFICES ASSUME Bad # {} PROVE FALSE
    OBVIOUS
  <2>1. PICK n \in Bad : \A m \in Bad : n <= m
    BY LeastOfNat
  <2>2. PICK t \in Seq(Strings) : Len(t) = n /\ ~ \E f : Joins(f, t)
    BY <2>1
  <2>3. CASE t = << >>
    <3>1. \E f : Joins(f, t)
      <4> DEFINE f == [i \in 1 .. Len(t) |-> 0]
      <4>1. Len(t) = 0 /\ 1 .. Len(t) = {}
        BY <2>3
      <4>2. Joins(f, t)
        BY <4>1 DEF Joins
      <4>3. QED
        BY <4>2
    <3>2. QED
      BY <2>2, <3>1
  <2>4. CASE t # << >>
    <3>1. PICK u \in Seq(Strings), x \in Strings : t = Append(u, x)
      BY <2>4, SequenceEmptyOrAppend
    <3>2. Len(u) \in Nat /\ Len(t) = Len(u) + 1
      BY <3>1, AppendProperties, LenProperties
    <3>3. ~ (n <= Len(u))
      BY <2>2, <3>2
    <3>4. Len(u) \notin Bad
      BY <2>1, <3>3
    <3>5. PICK f : Joins(f, u)
      BY <3>2, <3>4
    <3>6. \E g : Joins(g, t)
      BY <3>1, <3>5, JoinOneMore
    <3>7. QED
      BY <2>2, <3>6
  <2>5. QED
    BY <2>3, <2>4
<1>2. \E f : Joins(f, s)
  BY <1>1, LenProperties
<1>3. QED
  BY <1>2 DEF Join

\* Functions for the same chunks agree, and join bytes to bytes.
LEMMA JoinsAgree ==
  ASSUME NEW s \in Seq(Strings), NEW t \in Seq(Strings), NEW f, NEW g,
         Joins(f, s), Joins(g, t), Len(s) <= Len(t), \A i \in 1 .. Len(s) : s[i] = t[i]
  PROVE  \A i \in 1 .. Len(s) : f[i] = g[i] /\ f[i] \in Strings
<1> DEFINE n == Len(s)
           Bad == {i \in 1 .. n : ~(f[i] = g[i] /\ f[i] \in Strings)}
<1>1. n \in Nat /\ Len(t) \in Nat /\ \A i \in 1 .. n : s[i] \in Strings /\ i \in 1 .. Len(t)
  BY ElementOfSeq, LenProperties
<1>2. /\ \A i \in 1 .. n : f[i] = IF i = 1 THEN s[i] ELSE f[i - 1] \o s[i]
      /\ \A i \in 1 .. Len(t) : g[i] = IF i = 1 THEN t[i] ELSE g[i - 1] \o t[i]
  BY Zenon DEF Joins
<1> HIDE DEF n
<1> SUFFICES ASSUME Bad # {} PROVE FALSE
  BY DEF n
<1>3. Bad \subseteq Nat
  BY <1>1
<1>4. PICK i \in Bad : \A j \in Bad : i <= j
  BY <1>3, LeastOfNat
<1>5. i \in 1 .. n /\ ~(f[i] = g[i] /\ f[i] \in Strings)
  BY <1>4
<1>6. s[i] = t[i]
  BY <1>5 DEF n
<1>7. i # 1
  BY <1>1, <1>2, <1>5, <1>6
<1>8. i - 1 \in 1 .. n /\ ~(i <= i - 1)
  BY <1>1, <1>5, <1>7
<1>9. f[i - 1] = g[i - 1] /\ f[i - 1] \in Strings
  BY <1>4, <1>8
<1>10. f[i] = f[i - 1] \o s[i] /\ g[i] = f[i - 1] \o s[i]
  BY <1>1, <1>2, <1>5, <1>6, <1>7, <1>9
<1>11. f[i - 1] \o s[i] \in Strings
  BY <1>1, <1>5, <1>9, ConcatProperties DEF Strings
<1>12. QED
  BY <1>5, <1>10, <1>11

LEMMA BytesTyped ==
  ASSUME NEW s \in Seq(Strings)
  PROVE  Bytes(s) \in Strings /\ Len(Bytes(s)) \in Nat
<1>1. Bytes(s) \in Strings
  <2>1. Len(s) \in Nat
    BY LenProperties
  <2>2. CASE Len(s) = 0
    <3>1. s = << >>
      BY <2>2, EmptySeq
    <3>2. QED
      BY <2>2, <3>1, BytesAreJoined, EmptySeq DEF Strings
  <2>3. CASE Len(s) # 0
    <3>1. Len(s) \in 1 .. Len(s) /\ Len(s) <= Len(s)
      BY <2>1, <2>3
    <3>2. Join(s)[Len(s)] \in Strings
      BY <3>1, JoinExists, JoinsAgree
    <3>3. QED
      BY <2>3, <3>2, BytesAreJoined
  <2>4. QED
    BY <2>2, <2>3
<1>2. QED
  BY <1>1, LenProperties DEF Strings

\* The bytes of a chunk come after those of the chunks before it.
LEMMA BytesOfAppend ==
  ASSUME NEW s \in Seq(Strings), NEW x \in Strings
  PROVE  Bytes(Append(s, x)) = Bytes(s) \o x
<1> DEFINE t == Append(s, x)
           n == Len(s)
           f == Join(s)
           g == Join(t)
<1>1. /\ t \in Seq(Strings) /\ Len(t) = n + 1 /\ n \in Nat
      /\ t[n + 1] = x /\ \A i \in 1 .. n : t[i] = s[i]
  BY AppendProperties, LenProperties
<1>2. Joins(f, s) /\ Joins(g, t)
  BY <1>1, JoinExists
<1> HIDE DEF t, f, g
<1>3. g[n + 1] = IF n + 1 = 1 THEN t[n + 1] ELSE g[(n + 1) - 1] \o t[n + 1]
  <2>1. \A i \in 1 .. Len(t) : g[i] = IF i = 1 THEN t[i] ELSE g[i - 1] \o t[i]
    BY <1>2, Zenon DEF Joins
  <2>2. n + 1 \in 1 .. Len(t)
    BY <1>1
  <2>3. QED
    BY <2>1, <2>2
<1>4. Bytes(t) = g[n + 1]
  <2>1. Len(t) # 0
    BY <1>1
  <2>2. QED
    BY <1>1, <2>1, BytesAreJoined DEF g
<1>5. CASE n = 0
  <2>1. s = << >> /\ Bytes(s) = << >>
    <3>1. s = << >>
      BY <1>5, EmptySeq
    <3>2. QED
      BY <1>5, <3>1, BytesAreJoined
  <2>2. << >> \o x = x
    BY ConcatEmptySeq DEF Strings
  <2>3. n + 1 = 1
    BY <1>5
  <2>4. Bytes(t) = x
    BY <1>1, <1>3, <1>4, <2>3
  <2>5. QED
    BY <2>1, <2>2, <2>4 DEF t
<1>6. CASE n # 0
  <2>1. n \in 1 .. n /\ n + 1 # 1 /\ (n + 1) - 1 = n /\ n <= n + 1
    BY <1>1, <1>6
  <2>2. f[n] = g[n]
    BY <1>1, <1>2, <2>1, JoinsAgree
  <2>3. Bytes(s) = f[n]
    BY <1>6, BytesAreJoined DEF f
  <2>4. QED
    BY <1>1, <1>3, <1>4, <2>1, <2>2, <2>3 DEF t
<1>7. QED
  BY <1>5, <1>6

LEMMA BytesOfNone == Bytes(<< >>) = << >> /\ Len(Bytes(<< >>)) = 0
BY BytesAreJoined

-----------------------------------------------------------------------------
(* Where chunks begin and end                                              *)

Chunks == Strings \ {<< >>}

LEMMA ChunksAreStrings == Chunks \subseteq Strings /\ Seq(Chunks) \subseteq Seq(Strings)
<1>1. Chunks \subseteq Strings
  BY DEF Chunks
<1>2. QED
  BY <1>1, SeqMonotonic

LEMMA PrefixOfChunks ==
  ASSUME NEW s \in Seq(Chunks), NEW n \in 0 .. Len(s)
  PROVE  /\ SubSeq(s, 1, n) \in Seq(Chunks) /\ Len(SubSeq(s, 1, n)) = n
         /\ DOMAIN SubSeq(s, 1, n) = 1 .. n
         /\ \A i \in 1 .. n : SubSeq(s, 1, n)[i] = s[i] /\ i \in 1 .. Len(s)
         /\ n = Len(s) => SubSeq(s, 1, n) = s
<1>1. Len(s) \in Nat /\ n \in Nat
  BY LenProperties
<1>2. \A i \in 1 .. n : i \in 1 .. Len(s) /\ s[i] \in Chunks
  BY <1>1, ElementOfSeq
<1>3. /\ SubSeq(s, 1, n) \in Seq(Chunks) /\ Len(SubSeq(s, 1, n)) = n
      /\ \A i \in 1 .. n : SubSeq(s, 1, n)[i] = s[i]
  BY <1>1, <1>2, SubSeqProperties
<1>4. DOMAIN SubSeq(s, 1, n) = 1 .. n
  BY <1>3, LenProperties
<1>5. n = Len(s) => SubSeq(s, 1, n) = s
  BY <1>3, SeqEqual
<1>6. QED
  BY <1>2, <1>3, <1>4, <1>5

\* Prefixes of a sequence and of one that has more.
LEMMA PrefixOfAppend ==
  ASSUME NEW s \in Seq(Chunks), NEW x \in Chunks, NEW n \in 0 .. Len(s)
  PROVE  SubSeq(Append(s, x), 1, n) = SubSeq(s, 1, n)
<1> DEFINE t == Append(s, x)
<1>1. /\ t \in Seq(Chunks) /\ Len(t) = Len(s) + 1 /\ Len(s) \in Nat
      /\ \A i \in 1 .. Len(s) : t[i] = s[i]
  BY AppendProperties, LenProperties
<1>2. n \in 0 .. Len(t)
  BY <1>1
<1> HIDE DEF t
<1>3. /\ SubSeq(t, 1, n) \in Seq(Chunks) /\ Len(SubSeq(t, 1, n)) = n
      /\ \A i \in 1 .. n : SubSeq(t, 1, n)[i] = t[i]
  BY <1>1, <1>2, PrefixOfChunks
<1>4. /\ SubSeq(s, 1, n) \in Seq(Chunks) /\ Len(SubSeq(s, 1, n)) = n
      /\ \A i \in 1 .. n : SubSeq(s, 1, n)[i] = s[i]
  BY PrefixOfChunks
<1>5. \A i \in 1 .. n : SubSeq(t, 1, n)[i] = SubSeq(s, 1, n)[i]
  BY <1>1, <1>3, <1>4
<1>6. SubSeq(t, 1, n) = SubSeq(s, 1, n)
  BY <1>3, <1>4, <1>5, SeqEqual
<1>7. QED
  BY <1>6 DEF t

LEMMA EndsTyped ==
  ASSUME NEW s \in Seq(Chunks)
  PROVE  /\ EndsOf(s) \in Seq(Nat) /\ Len(EndsOf(s)) = Len(s)
         /\ DOMAIN EndsOf(s) = 1 .. Len(s)
         /\ \A i \in 1 .. Len(s) : EndsOf(s)[i] = Len(Bytes(SubSeq(s, 1, i)))
<1>1. Len(s) \in Nat /\ DOMAIN s = 1 .. Len(s)
  BY LenProperties
<1>2. ASSUME NEW i \in 1 .. Len(s) PROVE Len(Bytes(SubSeq(s, 1, i))) \in Nat
  <2>1. i \in 0 .. Len(s)
    BY <1>1
  <2>2. SubSeq(s, 1, i) \in Seq(Strings)
    BY <2>1, PrefixOfChunks, ChunksAreStrings
  <2>3. QED
    BY <2>2, BytesTyped
<1> DEFINE E == EndsOf(s)
<1>3. E = [i \in 1 .. Len(s) |-> Len(Bytes(SubSeq(s, 1, i)))]
  BY <1>1 DEF EndsOf
<1>4. E \in [1 .. Len(s) -> Nat]
  BY <1>2, <1>3
<1>5. DOMAIN E = 1 .. Len(s) /\ \A i \in 1 .. Len(s) : E[i] = Len(Bytes(SubSeq(s, 1, i)))
  BY <1>3
<1> HIDE DEF E
<1>6. E \in Seq(Nat) /\ Len(E) = Len(s)
  BY <1>1, <1>4
<1>7. QED
  BY <1>5, <1>6 DEF E

LEMMA EndsOfAppend ==
  ASSUME NEW s \in Seq(Chunks), NEW x \in Chunks
  PROVE  EndsOf(Append(s, x)) = Append(EndsOf(s), Len(Bytes(s)) + Len(x))
<1> DEFINE t == Append(s, x)
           n == Len(s)
           e == Len(Bytes(s)) + Len(x)
           E == EndsOf(s)
           F == EndsOf(t)
<1>1. /\ t \in Seq(Chunks) /\ Len(t) = n + 1 /\ n \in Nat
      /\ s \in Seq(Strings) /\ x \in Strings
  BY AppendProperties, LenProperties, ChunksAreStrings
<1>2. Bytes(s) \in Seq(Byte) /\ Len(Bytes(s)) \in Nat /\ x \in Seq(Byte) /\ Len(x) \in Nat
  BY <1>1, BytesTyped, LenProperties DEF Strings
<1>3. Len(Bytes(t)) = e /\ e \in Nat
  BY <1>1, <1>2, BytesOfAppend, ConcatProperties
<1>4. SubSeq(t, 1, n + 1) = t
  <2>1. n + 1 \in 0 .. Len(t)
    BY <1>1
  <2>2. QED
    BY <1>1, <2>1, PrefixOfChunks
<1>5. \A i \in 1 .. n : SubSeq(t, 1, i) = SubSeq(s, 1, i)
  <2>1. \A i \in 1 .. n : i \in 0 .. Len(s)
    BY <1>1
  <2>2. QED
    BY <2>1, PrefixOfAppend
<1> HIDE DEF t, e
<1>6. /\ F \in Seq(Nat) /\ Len(F) = n + 1
      /\ \A i \in 1 .. n + 1 : F[i] = Len(Bytes(SubSeq(t, 1, i)))
  BY <1>1, EndsTyped
<1>7. /\ E \in Seq(Nat) /\ Len(E) = n
      /\ \A i \in 1 .. n : E[i] = Len(Bytes(SubSeq(s, 1, i)))
  BY EndsTyped
<1> HIDE DEF E, F, n
<1>8. /\ Append(E, e) \in Seq(Nat) /\ Len(Append(E, e)) = n + 1
      /\ \A i \in 1 .. n : Append(E, e)[i] = E[i]
      /\ Append(E, e)[n + 1] = e
  BY <1>3, <1>7, AppendProperties
<1>9. \A i \in 1 .. n + 1 : F[i] = Append(E, e)[i]
  <2>1. \A i \in 1 .. n + 1 : i \in 1 .. n \/ i = n + 1
    BY <1>1
  <2>2. F[n + 1] = e
    <3>1. n + 1 \in 1 .. n + 1
      BY <1>1
    <3>2. QED
      BY <1>3, <1>4, <1>6, <3>1
  <2>3. \A i \in 1 .. n : F[i] = E[i]
    <3>1. \A i \in 1 .. n : i \in 1 .. n + 1
      BY <1>1
    <3>2. QED
      BY <1>5, <1>6, <1>7, <3>1
  <2>4. QED
    BY <1>8, <2>1, <2>2, <2>3
<1>10. F = Append(E, e)
  BY <1>6, <1>8, <1>9, SeqEqual
<1>11. QED
  BY <1>10 DEF F, E, e, t

\* Where chunk b begins when E are the ends.
Start(E, b) == IF b = 1 THEN 0 ELSE E[b - 1]

\* Chunks follow each other: E are their ends, and f their bytes.
Follow(s, E, f) ==
  /\ \A b \in 1 .. Len(s) :
       /\ Start(E, b) \in Nat /\ E[b] = Start(E, b) + Len(s[b]) /\ E[b] <= Len(f)
       /\ \A j \in 1 .. Len(s[b]) : f[Start(E, b) + j] = s[b][j]
  /\ Len(f) = IF Len(s) = 0 THEN 0 ELSE E[Len(s)]
  /\ \A a, b \in 1 .. Len(s) : a < b => E[a] < E[b]
  /\ \A p \in 1 .. Len(f) : \E b \in 1 .. Len(s) : Start(E, b) < p /\ p <= E[b]

Layout(s) == Follow(s, EndsOf(s), Bytes(s))

\* One more chunk follows.
LEMMA FollowMore ==
  ASSUME NEW s \in Seq(Chunks), NEW x \in Chunks, NEW E \in Seq(Nat), NEW f \in Strings,
         Len(E) = Len(s), Follow(s, E, f)
  PROVE  Follow(Append(s, x), Append(E, Len(f) + Len(x)), f \o x)
<1> DEFINE t == Append(s, x)
           n == Len(s)
           F == Append(E, Len(f) + Len(x))
           g == f \o x
<1>1. /\ n \in Nat /\ Len(f) \in Nat /\ Len(x) \in Nat \ {0}
      /\ f \in Seq(Byte) /\ x \in Seq(Byte)
  BY LenProperties, EmptySeq DEF Chunks, Strings
<1>2. /\ Len(t) = n + 1 /\ t[n + 1] = x /\ \A i \in 1 .. n : t[i] = s[i]
  BY <1>1, AppendProperties
<1>3. /\ \A i \in 1 .. n : F[i] = E[i] /\ E[i] \in Nat
      /\ F[n + 1] = Len(f) + Len(x)
  BY <1>1, AppendProperties, ElementOfSeq
<1>4. /\ Len(g) = Len(f) + Len(x)
      /\ \A i \in 1 .. Len(f) : g[i] = f[i]
      /\ \A j \in 1 .. Len(x) : g[Len(f) + j] = x[j]
  <2>1. /\ Len(g) = Len(f) + Len(x)
        /\ \A i \in 1 .. Len(f) + Len(x) : g[i] = IF i <= Len(f) THEN f[i] ELSE x[i - Len(f)]
    BY <1>1, ConcatProperties
  <2> HIDE DEF g
  <2>2. ASSUME NEW j \in 1 .. Len(x) PROVE g[Len(f) + j] = x[j]
    <3>1. /\ Len(f) + j \in 1 .. Len(f) + Len(x) /\ ~(Len(f) + j <= Len(f))
          /\ (Len(f) + j) - Len(f) = j
      BY <1>1
    <3>2. QED
      BY <2>1, <3>1
  <2>3. QED
    BY <1>1, <2>1, <2>2
<1>5. \A b \in 1 .. n : Start(F, b) = Start(E, b)
  <2>1. \A b \in 1 .. n : b # 1 => b - 1 \in 1 .. n
    BY <1>1
  <2>2. QED
    BY <1>3, <2>1 DEF Start
<1>6. Start(F, n + 1) = Len(f)
  <2>1. CASE n = 0
    BY <1>1, <2>1 DEF Start, Follow
  <2>2. CASE n # 0
    <3>1. n + 1 # 1 /\ (n + 1) - 1 = n /\ n \in 1 .. n
      BY <1>1, <2>2
    <3>2. QED
      BY <1>3, <2>2, <3>1 DEF Start, Follow
  <2>3. QED
    BY <2>1, <2>2
<1>7. \A b \in 1 .. n : /\ Start(E, b) \in Nat /\ E[b] = Start(E, b) + Len(s[b]) /\ E[b] <= Len(f)
                        /\ Len(s[b]) \in Nat
                        /\ \A j \in 1 .. Len(s[b]) : f[Start(E, b) + j] = s[b][j]
  <2>1. \A b \in 1 .. n : Len(s[b]) \in Nat
    <3>1. \A b \in 1 .. n : s[b] \in Seq(Byte)
      BY ElementOfSeq DEF Chunks, Strings
    <3>2. QED
      BY <3>1, LenProperties
  <2>2. QED
    BY <2>1 DEF Follow
<1>8. \A a, b \in 1 .. n : a < b => E[a] < E[b]
  BY DEF Follow
<1>9. \A p \in 1 .. Len(f) : \E b \in 1 .. n : Start(E, b) < p /\ p <= E[b]
  BY DEF Follow
<1> HIDE DEF t, F, g, n
<1>10. ASSUME NEW b \in 1 .. n + 1
       PROVE  /\ Start(F, b) \in Nat /\ F[b] = Start(F, b) + Len(t[b]) /\ F[b] <= Len(g)
              /\ \A j \in 1 .. Len(t[b]) : g[Start(F, b) + j] = t[b][j]
  <2>1. CASE b \in 1 .. n
    <3>1. /\ Start(F, b) = Start(E, b) /\ F[b] = E[b] /\ t[b] = s[b]
      BY <1>2, <1>3, <1>5, <2>1
    <3>2. /\ Start(E, b) \in Nat /\ E[b] = Start(E, b) + Len(s[b]) /\ E[b] <= Len(f)
          /\ Len(s[b]) \in Nat
          /\ \A j \in 1 .. Len(s[b]) : f[Start(E, b) + j] = s[b][j]
      BY <1>7, <2>1
    <3>3. E[b] <= Len(g)
      BY <1>1, <1>3, <1>4, <2>1, <3>2
    <3>4. \A j \in 1 .. Len(s[b]) : Start(E, b) + j \in 1 .. Len(f)
      BY <1>1, <3>2
    <3>5. QED
      BY <1>4, <3>1, <3>2, <3>3, <3>4
  <2>2. CASE b = n + 1
    <3>1. t[b] = x /\ F[b] = Len(f) + Len(x) /\ Start(F, b) = Len(f)
      BY <1>2, <1>3, <1>6, <2>2
    <3>2. F[b] = Start(F, b) + Len(t[b]) /\ F[b] <= Len(g) /\ Start(F, b) \in Nat
      BY <1>1, <1>4, <3>1
    <3>3. \A j \in 1 .. Len(t[b]) : g[Start(F, b) + j] = t[b][j]
      BY <1>4, <3>1
    <3>4. QED
      BY <3>2, <3>3
  <2>3. QED
    BY <1>1, <2>1, <2>2
<1>11. Len(g) = IF Len(t) = 0 THEN 0 ELSE F[Len(t)]
  BY <1>1, <1>2, <1>3, <1>4
<1>12. ASSUME NEW a \in 1 .. n + 1, NEW b \in 1 .. n + 1, a < b PROVE F[a] < F[b]
  <2>1. a \in 1 .. n
    BY <1>1, <1>12
  <2>2. CASE b \in 1 .. n
    BY <1>3, <1>8, <1>12, <2>1, <2>2
  <2>3. CASE b = n + 1
    <3>1. F[a] = E[a] /\ E[a] \in Nat /\ E[a] <= Len(f) /\ F[b] = Len(f) + Len(x)
      BY <1>3, <1>7, <2>1, <2>3
    <3>2. QED
      BY <1>1, <3>1
  <2>4. QED
    BY <1>1, <2>2, <2>3
<1>13. ASSUME NEW p \in 1 .. Len(g)
       PROVE  \E b \in 1 .. n + 1 : Start(F, b) < p /\ p <= F[b]
  <2>1. CASE p \in 1 .. Len(f)
    <3>1. PICK b \in 1 .. n : Start(E, b) < p /\ p <= E[b]
      BY <1>9, <2>1
    <3>2. b \in 1 .. n + 1 /\ Start(F, b) = Start(E, b) /\ F[b] = E[b]
      BY <1>1, <1>3, <1>5
    <3>3. QED
      BY <3>1, <3>2
  <2>2. CASE p \notin 1 .. Len(f)
    <3>1. n + 1 \in 1 .. n + 1 /\ Len(f) < p /\ p <= Len(f) + Len(x)
      BY <1>1, <1>4, <2>2
    <3>2. QED
      BY <1>3, <1>6, <3>1
  <2>3. QED
    BY <2>1, <2>2
<1>14. Follow(t, F, g)
  BY <1>2, <1>10, <1>11, <1>12, <1>13 DEF Follow
<1>15. QED
  BY <1>14 DEF t, F, g

LEMMA ChunksFollow ==
  ASSUME NEW s \in Seq(Chunks)
  PROVE  Layout(s)
<1> DEFINE Bad == {n \in Nat : \E t \in Seq(Chunks) : Len(t) = n /\ ~Layout(t)}
<1>1. Bad = {}
  <2> SUFFICES ASSUME Bad # {} PROVE FALSE
    OBVIOUS
  <2>1. PICK n \in Bad : \A m \in Bad : n <= m
    BY LeastOfNat
  <2>2. PICK t \in Seq(Chunks) : Len(t) = n /\ ~Layout(t)
    BY <2>1
  <2>3. CASE t = << >>
    <3>1. Len(t) = 0 /\ Len(Bytes(t)) = 0
      BY <2>3, BytesOfNone
    <3>2. QED
      BY <2>2, <3>1 DEF Layout, Follow
  <2>4. CASE t # << >>
    <3>1. PICK u \in Seq(Chunks), x \in Chunks : t = Append(u, x)
      BY <2>4, SequenceEmptyOrAppend
    <3>2. Len(u) \in Nat /\ Len(t) = Len(u) + 1
      BY <3>1, AppendProperties, LenProperties
    <3>3. ~ (n <= Len(u))
      BY <2>2, <3>2
    <3>4. Layout(u)
      BY <2>1, <3>2, <3>3
    <3>5. u \in Seq(Strings) /\ x \in Strings
      BY ChunksAreStrings
    <3>6. /\ EndsOf(t) = Append(EndsOf(u), Len(Bytes(u)) + Len(x))
          /\ Bytes(t) = Bytes(u) \o x
          /\ Bytes(u) \in Strings /\ EndsOf(u) \in Seq(Nat) /\ Len(EndsOf(u)) = Len(u)
      BY <3>1, <3>5, EndsOfAppend, BytesOfAppend, BytesTyped, EndsTyped
    <3>7. Layout(t)
      BY <3>1, <3>4, <3>6, FollowMore DEF Layout
    <3>8. QED
      BY <2>2, <3>7
  <2>5. QED
    BY <2>3, <2>4
<1>2. QED
  BY <1>1, LenProperties

-----------------------------------------------------------------------------
(* The file is stored                                                      *)

\* The chunks that the file has.
Kept == SubSeq(stored, 1, Len(ends))

FileOK ==
  /\ stored \in Seq(Chunks) /\ ends \in Seq(Nat)
  /\ Len(ends) <= Len(stored) /\ Len(stored) <= Len(ends) + 1
  /\ ends = EndsOf(Kept) /\ file = Bytes(Kept)

\* A writer that has writeMu appends where the file ends, and what it has put is
\* the chunk that the file does not have yet.
WriterOK(w) ==
  /\ writing[w] \in [stage : {"idle", "lock", "put", "publish"}, off : Nat, bytes : Strings]
  /\ writing[w].stage # "idle" => writing[w].bytes \in Chunks
  /\ writing[w].stage \in {"put", "publish"} => writeMu = {w} /\ writing[w].off = Len(file)
  /\ writing[w].stage = "publish" =>
       Len(stored) = Len(ends) + 1 /\ stored[Len(ends) + 1] = writing[w].bytes

WritersOK == writing = [w \in Writers |-> writing[w]] /\ \A w \in Writers : WriterOK(w)

StoredInv == FileOK /\ WritersOK

\* The size of the file, and its chunks.
LEMMA FileLayout ==
  ASSUME FileOK
  PROVE  /\ Kept \in Seq(Chunks) /\ Len(Kept) = Len(ends) /\ Len(ends) \in Nat
         /\ \A b \in 1 .. Len(ends) : Kept[b] = stored[b] /\ stored[b] \in Chunks
         /\ file \in Strings /\ Len(file) \in Nat /\ DOMAIN ends = 1 .. Len(ends)
         /\ Follow(Kept, ends, file) /\ Total = Len(file) /\ Total \in Nat
<1>1. Len(ends) \in 0 .. Len(stored) /\ stored \in Seq(Chunks) /\ Len(ends) \in Nat
      /\ DOMAIN ends = 1 .. Len(ends)
  BY LenProperties DEF FileOK
<1>2. /\ Kept \in Seq(Chunks) /\ Len(Kept) = Len(ends)
      /\ \A b \in 1 .. Len(ends) : Kept[b] = stored[b] /\ b \in 1 .. Len(stored)
  BY <1>1, PrefixOfChunks DEF Kept
<1>3. \A b \in 1 .. Len(ends) : stored[b] \in Chunks
  BY <1>1, <1>2, ElementOfSeq
<1>4. Kept \in Seq(Strings)
  BY <1>2, ChunksAreStrings
<1>5. file \in Strings /\ Len(file) \in Nat
  BY <1>4, BytesTyped DEF FileOK
<1>6. Follow(Kept, ends, file)
  BY <1>2, ChunksFollow DEF Layout, FileOK
<1>7. Total = Len(file)
  <2>1. CASE ends = << >>
    BY <1>2, <1>6, <2>1 DEF Total, Follow
  <2>2. CASE ends # << >>
    <3>1. Len(ends) # 0
      BY <2>2, EmptySeq DEF FileOK
    <3>2. QED
      BY <1>2, <1>6, <2>2, <3>1 DEF Total, Follow, Last
  <2>3. QED
    BY <2>1, <2>2
<1>8. QED
  BY <1>1, <1>2, <1>3, <1>5, <1>6, <1>7

LEMMA PrefixOfConcat ==
  ASSUME NEW f \in Strings, NEW x \in Strings
  PROVE  IsPrefix(f, f \o x)
<1> DEFINE g == f \o x
<1>1. /\ g \in Seq(Byte) /\ Len(g) = Len(f) + Len(x) /\ Len(f) \in Nat /\ Len(x) \in Nat
      /\ \A i \in 1 .. Len(f) : g[i] = f[i]
  BY ConcatProperties, LenProperties DEF Strings
<1> HIDE DEF g
<1>2. \A i \in 1 .. Len(f) : g[i] \in Byte /\ f[i] \in Byte
  <2>1. \A i \in 1 .. Len(f) : f[i] \in Byte
    BY ElementOfSeq DEF Strings
  <2>2. QED
    BY <1>1, <2>1
<1>3. /\ SubSeq(f, 1, Len(f)) \in Seq(Byte) /\ Len(SubSeq(f, 1, Len(f))) = Len(f)
      /\ \A i \in 1 .. Len(f) : SubSeq(f, 1, Len(f))[i] = f[i]
  BY <1>1, <1>2, SubSeqProperties
<1>4. /\ SubSeq(g, 1, Len(f)) \in Seq(Byte) /\ Len(SubSeq(g, 1, Len(f))) = Len(f)
      /\ \A i \in 1 .. Len(f) : SubSeq(g, 1, Len(f))[i] = g[i]
  BY <1>1, <1>2, SubSeqProperties
<1>5. SubSeq(f, 1, Len(f)) = SubSeq(g, 1, Len(f))
  BY <1>1, <1>3, <1>4, SeqEqual
<1>6. QED
  BY <1>1, <1>5 DEF IsPrefix, g

\* One chunk may be stored that the file does not have.
LEMMA OneMoreStored ==
  ASSUME FileOK, Len(stored) = Len(ends) + 1
  PROVE  /\ stored[Len(stored)] \in Chunks
         /\ stored = Append(Kept, stored[Len(stored)])
<1> DEFINE n == Len(ends)
           x == stored[n + 1]
           t == Append(Kept, x)
<1>1. /\ Kept \in Seq(Chunks) /\ Len(Kept) = n /\ n \in Nat
      /\ \A b \in 1 .. n : Kept[b] = stored[b]
  BY FileLayout
<1>2. stored \in Seq(Chunks) /\ Len(stored) = n + 1 /\ n + 1 \in 1 .. Len(stored)
  BY <1>1 DEF FileOK
<1>3. x \in Chunks
  BY <1>2, ElementOfSeq
<1> HIDE DEF x
<1>4. /\ t \in Seq(Chunks) /\ Len(t) = n + 1 /\ t[n + 1] = x
      /\ \A i \in 1 .. n : t[i] = Kept[i]
  BY <1>1, <1>3, AppendProperties
<1> HIDE DEF t, n
<1>5. \A i \in 1 .. n + 1 : t[i] = stored[i]
  <2>1. stored[n + 1] = x
    BY DEF x, n
  <2>2. \A i \in 1 .. n + 1 : i \in 1 .. n \/ i = n + 1
    BY <1>1
  <2>3. QED
    BY <1>1, <1>4, <2>1, <2>2
<1>6. t = stored
  BY <1>2, <1>4, <1>5, SeqEqual
<1>7. QED
  BY <1>2, <1>3, <1>6 DEF t, x

\* What Put leaves in the store.
LEMMA StoredMore ==
  ASSUME FileOK, NEW x \in Chunks
  PROVE  /\ Stored(x) \in Seq(Chunks) /\ Len(Stored(x)) = Len(ends) + 1
         /\ Stored(x)[Len(ends) + 1] = x
         /\ \A b \in 1 .. Len(ends) : Stored(x)[b] = stored[b]
         /\ SubSeq(Stored(x), 1, Len(ends)) = Kept
<1> DEFINE n == Len(ends)
           t == Append(Kept, x)
<1>1. /\ Kept \in Seq(Chunks) /\ Len(Kept) = n /\ n \in Nat
      /\ \A b \in 1 .. n : Kept[b] = stored[b]
  BY FileLayout
<1>2. t = Stored(x)
  BY <1>1, AppendIsConcat DEF Stored, Kept
<1>3. /\ t \in Seq(Chunks) /\ Len(t) = n + 1 /\ t[n + 1] = x
      /\ \A i \in 1 .. n : t[i] = Kept[i]
  BY <1>1, AppendProperties
<1>4. SubSeq(t, 1, n) = SubSeq(Kept, 1, n) /\ SubSeq(Kept, 1, n) = Kept
  <2>1. n \in 0 .. Len(Kept)
    BY <1>1
  <2>2. QED
    BY <1>1, <2>1, PrefixOfAppend, PrefixOfChunks
<1>5. QED
  BY <1>1, <1>2, <1>3, <1>4

\* The file takes the next chunk that is stored.
LEMMA FileGrows ==
  ASSUME FileOK, NEW x \in Chunks, Len(stored) = Len(ends) + 1, stored[Len(stored)] = x
  PROVE  /\ stored = Append(Kept, x)
         /\ EndsOf(stored) = Append(ends, Len(file) + Len(x))
         /\ Bytes(stored) = file \o x
<1>1. stored = Append(Kept, x) /\ Kept \in Seq(Chunks) /\ Kept \in Seq(Strings) /\ x \in Strings
  BY OneMoreStored, FileLayout, ChunksAreStrings
<1>2. QED
  BY <1>1, EndsOfAppend, BytesOfAppend DEF FileOK

LEMMA FileIsPrefix == FileOK => FileIsStored
<1> SUFFICES ASSUME FileOK PROVE IsPrefix(file, Bytes(stored))
  BY DEF FileIsStored, FileOK, Kept
<1>1. file \in Strings /\ Len(ends) \in Nat /\ Len(stored) \in Nat
  BY FileLayout, LenProperties DEF FileOK
<1>2. CASE Len(stored) = Len(ends) + 1
  <2>1. stored[Len(stored)] \in Chunks
    BY <1>2, OneMoreStored
  <2>2. Bytes(stored) = file \o stored[Len(stored)] /\ stored[Len(stored)] \in Strings
    BY <1>2, <2>1, FileGrows, ChunksAreStrings
  <2>3. QED
    BY <1>1, <2>2, PrefixOfConcat
<1>3. CASE Len(stored) # Len(ends) + 1
  <2>1. Len(ends) = Len(stored) /\ Len(ends) \in 0 .. Len(stored)
    BY <1>1, <1>3 DEF FileOK
  <2>2. Kept = stored
    BY <2>1, PrefixOfChunks DEF Kept, FileOK
  <2>3. Bytes(stored) = file \o << >> /\ << >> \in Strings
    BY <1>1, <2>2, ConcatEmptySeq, EmptySeq DEF FileOK, Strings
  <2>4. QED
    BY <1>1, <2>3, PrefixOfConcat
<1>4. QED
  BY <1>2, <1>3

\* A chunk is published: it and the file's others are those of the store.
LEMMA FilePublished ==
  ASSUME FileOK, NEW x \in Chunks, Len(stored) = Len(ends) + 1, stored[Len(stored)] = x,
         ends' = Append(ends, Total + Len(x)), file' = file \o x, stored' = stored
  PROVE  FileOK' /\ Len(ends') = Len(ends) + 1 /\ Len(file') = Len(file) + Len(x)
<1>1. /\ Total = Len(file) /\ Len(ends) \in Nat /\ file \in Strings /\ Len(file) \in Nat
      /\ Len(x) \in Nat /\ x \in Strings
  BY FileLayout, LenProperties, ChunksAreStrings DEF Chunks, Strings
<1>2. /\ EndsOf(stored) = ends' /\ Bytes(stored) = file'
  BY <1>1, FileGrows
<1>3. ends' \in Seq(Nat) /\ Len(ends') = Len(ends) + 1
  BY <1>1, AppendProperties DEF FileOK
<1>4. SubSeq(stored, 1, Len(ends')) = stored /\ stored \in Seq(Chunks)
  <2>1. Len(ends') = Len(stored) /\ Len(stored) \in 0 .. Len(stored)
    BY <1>1, <1>3
  <2>2. QED
    BY <2>1, PrefixOfChunks DEF FileOK
<1>5. Len(file') = Len(file) + Len(x)
  BY <1>1, ConcatProperties DEF Strings
<1>6. Kept' = stored
  BY <1>4 DEF Kept
<1>7. Len(ends') <= Len(stored) /\ Len(stored) <= Len(ends') + 1
  BY <1>1, <1>3
<1>8. FileOK'
  BY <1>2, <1>3, <1>4, <1>6, <1>7 DEF FileOK
<1>9. QED
  BY <1>3, <1>5, <1>8

LEMMA FileRestarts ==
  ASSUME FileOK, ends' = EndsOf(stored), file' = Bytes(stored), stored' = stored
  PROVE  FileOK'
<1>1. stored \in Seq(Chunks) /\ Len(stored) \in Nat
  BY LenProperties DEF FileOK
<1>2. ends' \in Seq(Nat) /\ Len(ends') = Len(stored)
  BY <1>1, EndsTyped
<1>3. SubSeq(stored, 1, Len(ends')) = stored
  BY <1>1, <1>2, PrefixOfChunks
<1>4. Kept' = stored
  BY <1>3 DEF Kept
<1>5. Len(ends') <= Len(stored) /\ Len(stored) <= Len(ends') + 1
  BY <1>1, <1>2
<1>6. QED
  BY <1>1, <1>2, <1>4, <1>5 DEF FileOK

LEMMA InitStored == Init => StoredInv
<1> SUFFICES ASSUME Init PROVE StoredInv
  OBVIOUS
<1>1. << >> \in Seq(Chunks) /\ << >> \in Seq(Nat) /\ Len(<< >>) = 0 /\ << >> \in Strings
  BY EmptySeq DEF Strings
<1>2. Kept = << >>
  BY <1>1, PrefixOfChunks DEF Init, Kept
<1>3. EndsOf(<< >>) = << >>
  BY DEF EndsOf
<1>4. FileOK
  BY <1>1, <1>2, <1>3, BytesOfNone DEF Init, FileOK
<1>5. WritersOK
  BY <1>1 DEF Init, WritersOK, WriterOK, NotWriting
<1>6. QED
  BY <1>4, <1>5 DEF StoredInv

\* The step of one writer leaves the others what they were.
LEMMA OneWriter ==
  ASSUME WritersOK, NEW w \in Writers, NEW q, writing' = [writing EXCEPT ![w] = q],
         WriterOK(w)',
         \/ UNCHANGED <<writeMu, file, stored, ends>>
         \/ writeMu \subseteq {w} /\ writeMu' \subseteq {w}
            /\ (writeMu = {w} \/ UNCHANGED <<file, stored, ends>>)
  PROVE  WritersOK'
<1>1. writing' = [v \in Writers |-> writing'[v]] /\ \A v \in Writers : v # w => writing'[v] = writing[v]
  BY DEF WritersOK
<1>2. ASSUME NEW v \in Writers, v # w PROVE WriterOK(v)'
  <2>1. WriterOK(v) /\ writing'[v] = writing[v]
    BY <1>1, <1>2 DEF WritersOK
  <2>2. CASE UNCHANGED <<writeMu, file, stored, ends>>
    BY <2>1, <2>2 DEF WriterOK
  <2>3. CASE writeMu \subseteq {w} /\ writeMu' \subseteq {w}
    <3>1. writing[v].stage \notin {"put", "publish"}
      BY <1>2, <2>1, <2>3 DEF WriterOK
    <3>2. QED
      BY <2>1, <3>1 DEF WriterOK
  <2>4. QED
    BY <2>2, <2>3
<1>3. QED
  BY <1>1, <1>2 DEF WritersOK

\* A step of the readers or of the cache changes nothing here.
storeVars == <<stored, ends, file, writing, writeMu>>

LEMMA StoreUnchanged ==
  ASSUME StoredInv, UNCHANGED storeVars
  PROVE  StoredInv'
<1>1. UNCHANGED <<stored, ends, file, writing, writeMu>>
  BY DEF storeVars
<1>2. Kept' = Kept
  BY <1>1 DEF Kept
<1>3. FileOK'
  BY <1>1, <1>2 DEF StoredInv, FileOK
<1>4. WritersOK'
  BY <1>1 DEF StoredInv, WritersOK, WriterOK
<1>5. QED
  BY <1>3, <1>4 DEF StoredInv

LEMMA ReaderSteps ==
  ASSUME NEW r \in Readers,
         \/ \E off \in 0 .. Total : \E end \in off .. Total + 1 : CallReadAt(r, off, end)
         \/ Return(r)
         \/ \E b \in 1 .. MaxChunks + 1 :
              Hit(r, b) \/ Get(r, b) \/ FailGet(r, b) \/ AddToCache(r, b) \/ Copy(r, b) \/ Panic(r, b)
  PROVE  UNCHANGED storeVars
BY DEF CallReadAt, Return, Hit, Get, FailGet, AddToCache, Copy, Panic, storeVars

LEMMA NextStored == StoredInv /\ [Next]_vars => StoredInv'
<1> SUFFICES ASSUME StoredInv, [Next]_vars PROVE StoredInv'
  OBVIOUS
<1>0. FileOK /\ WritersOK /\ Total = Len(file) /\ Len(file) \in Nat /\ Len(ends) \in Nat
      /\ Total \in Nat
  BY FileLayout DEF StoredInv
<1>1. ASSUME UNCHANGED vars PROVE StoredInv'
  BY <1>1, StoreUnchanged DEF vars, storeVars
<1>2. ASSUME NEW w \in Writers, NEW bytes \in Payloads, CallWriteAt(w, bytes) PROVE StoredInv'
  <2> DEFINE q == [stage |-> "lock", off |-> Total, bytes |-> bytes]
  <2>1. /\ writing' = [writing EXCEPT ![w] = q] /\ UNCHANGED <<stored, ends, writeMu, file>>
        /\ writing[w].stage = "idle"
    BY <1>2 DEF CallWriteAt
  <2>2. bytes \in Chunks /\ bytes \in Strings
    BY <1>2, ChunkAppenderAssumption DEF CallWriteAt, Chunks, Strings
  <2>3. writing'[w] = q
    BY <1>0, <2>1 DEF WritersOK
  <2>4. q \in [stage : {"idle", "lock", "put", "publish"}, off : Nat, bytes : Strings]
    BY <1>0, <2>2
  <2>5. WriterOK(w)'
    BY <2>2, <2>3, <2>4 DEF WriterOK
  <2>6. WritersOK'
    BY <1>0, <2>1, <2>5, OneWriter
  <2>7. FileOK'
    BY <1>0, <2>1 DEF FileOK, Kept
  <2>8. QED
    BY <2>6, <2>7 DEF StoredInv
<1>3. ASSUME NEW w \in Writers, Lock(w) PROVE StoredInv'
  <2>1. WriterOK(w) /\ UNCHANGED <<stored, ends, file>> /\ writing[w].stage = "lock" /\ writeMu = {}
    BY <1>0, <1>3 DEF Lock, WritersOK
  <2>2. FileOK'
    BY <1>0, <2>1 DEF FileOK, Kept
  <2>3. CASE Appends(w)
    <3> DEFINE q == [writing[w] EXCEPT !.stage = "put"]
    <3>1. writing' = [writing EXCEPT ![w] = q] /\ writeMu' = {w}
      BY <1>3, <2>3 DEF Lock
    <3>2. writing'[w] = q
      BY <1>0, <3>1 DEF WritersOK
    <3>3. /\ q \in [stage : {"idle", "lock", "put", "publish"}, off : Nat, bytes : Strings]
          /\ q.stage = "put" /\ q.off = writing[w].off /\ q.bytes = writing[w].bytes
      BY <2>1 DEF WriterOK
    <3> HIDE DEF q
    <3>4. WriterOK(w)'
      BY <1>0, <2>1, <2>3, <3>1, <3>2, <3>3 DEF WriterOK, Appends
    <3>5. WritersOK'
      BY <1>0, <2>1, <3>1, <3>4, OneWriter
    <3>6. QED
      BY <2>2, <3>5 DEF StoredInv
  <2>4. CASE ~Appends(w)
    <3>1. writing' = [writing EXCEPT ![w] = NotWriting] /\ UNCHANGED writeMu
      BY <1>3, <2>4 DEF Lock
    <3>2. writing'[w] = NotWriting
      BY <1>0, <3>1 DEF WritersOK
    <3>3. WriterOK(w)'
      BY <3>2, EmptySeq DEF WriterOK, NotWriting, Strings
    <3>4. WritersOK'
      BY <1>0, <2>1, <3>1, <3>3, OneWriter
    <3>5. QED
      BY <2>2, <3>4 DEF StoredInv
  <2>5. QED
    BY <2>3, <2>4
<1>4. ASSUME NEW x \in Chunks, stored' = Stored(x), UNCHANGED <<ends, file>> PROVE FileOK'
  <2>1. /\ stored' \in Seq(Chunks) /\ Len(stored') = Len(ends) + 1 /\ Kept' = Kept
    BY <1>0, <1>4, StoredMore DEF Kept
  <2>2. QED
    BY <1>0, <1>4, <2>1 DEF FileOK
<1>5. ASSUME NEW w \in Writers, Put(w) PROVE StoredInv'
  <2> DEFINE q == [writing[w] EXCEPT !.stage = "publish"]
             x == writing[w].bytes
  <2>1. /\ WriterOK(w) /\ UNCHANGED <<ends, file, writeMu>> /\ stored' = Stored(x)
        /\ writing' = [writing EXCEPT ![w] = q] /\ writing[w].stage = "put"
    BY <1>0, <1>5 DEF Put, WritersOK
  <2>2. x \in Chunks /\ writeMu = {w} /\ writing[w].off = Len(file)
    BY <2>1 DEF WriterOK
  <2>3. writing'[w] = q
    BY <1>0, <2>1 DEF WritersOK
  <2>4. /\ q \in [stage : {"idle", "lock", "put", "publish"}, off : Nat, bytes : Strings]
        /\ q.stage = "publish" /\ q.off = writing[w].off /\ q.bytes = x
    BY <2>1 DEF WriterOK
  <2> HIDE DEF q, x
  <2>5. Len(stored') = Len(ends) + 1 /\ stored'[Len(ends) + 1] = x
    BY <1>0, <2>1, <2>2, StoredMore
  <2>6. WriterOK(w)'
    BY <2>1, <2>2, <2>3, <2>4, <2>5 DEF WriterOK
  <2>7. WritersOK'
    BY <1>0, <2>1, <2>2, <2>6, OneWriter
  <2>8. QED
    BY <1>4, <2>1, <2>2, <2>7 DEF StoredInv
<1>6. ASSUME NEW w \in Writers, FailPut(w) PROVE StoredInv'
  <2>1. /\ WriterOK(w) /\ UNCHANGED <<ends, file>> /\ stored' \in {stored, Stored(writing[w].bytes)}
        /\ writing' = [writing EXCEPT ![w] = NotWriting] /\ writing[w].stage = "put" /\ writeMu' = {}
    BY <1>0, <1>6 DEF FailPut, WritersOK
  <2>2. writing[w].bytes \in Chunks /\ writeMu = {w}
    BY <2>1 DEF WriterOK
  <2>3. writing'[w] = NotWriting
    BY <1>0, <2>1 DEF WritersOK
  <2>4. WriterOK(w)'
    BY <2>3, EmptySeq DEF WriterOK, NotWriting, Strings
  <2>5. WritersOK'
    BY <1>0, <2>1, <2>2, <2>4, OneWriter
  <2>6. FileOK'
    <3>1. CASE stored' = stored
      BY <1>0, <2>1, <3>1 DEF FileOK, Kept
    <3>2. CASE stored' = Stored(writing[w].bytes)
      BY <1>4, <2>1, <2>2, <3>2
    <3>3. QED
      BY <2>1, <3>1, <3>2
  <2>7. QED
    BY <2>5, <2>6 DEF StoredInv
<1>7. ASSUME NEW w \in Writers, Publish(w) PROVE StoredInv'
  <2> DEFINE x == writing[w].bytes
  <2>1. /\ WriterOK(w) /\ stored' = stored /\ ends' = Append(ends, Total + Len(x))
        /\ file' = file \o x
        /\ writing' = [writing EXCEPT ![w] = NotWriting] /\ writing[w].stage = "publish" /\ writeMu' = {}
    BY <1>0, <1>7 DEF Publish, WritersOK
  <2>2. x \in Chunks /\ writeMu = {w} /\ Len(stored) = Len(ends) + 1 /\ stored[Len(stored)] = x
    BY <2>1 DEF WriterOK
  <2> HIDE DEF x
  <2>3. FileOK'
    BY <1>0, <2>1, <2>2, FilePublished
  <2>4. writing'[w] = NotWriting
    BY <1>0, <2>1 DEF WritersOK
  <2>5. WriterOK(w)'
    BY <2>4, EmptySeq DEF WriterOK, NotWriting, Strings
  <2>6. WritersOK'
    BY <1>0, <2>1, <2>2, <2>5, OneWriter
  <2>7. QED
    BY <2>3, <2>6 DEF StoredInv
<1>8. ASSUME NEW r \in Readers,
             \/ \E off \in 0 .. Total : \E end \in off .. Total + 1 : CallReadAt(r, off, end)
             \/ Return(r)
             \/ \E b \in 1 .. MaxChunks + 1 :
                  Hit(r, b) \/ Get(r, b) \/ FailGet(r, b) \/ AddToCache(r, b) \/ Copy(r, b) \/ Panic(r, b)
      PROVE  StoredInv'
  BY <1>8, ReaderSteps, StoreUnchanged
<1>9. CASE Restart
  <2>1. FileOK'
    BY <1>0, <1>9, FileRestarts DEF Restart
  <2>2. writing' = [w \in Writers |-> NotWriting]
    BY <1>9 DEF Restart
  <2>3. WritersOK'
    BY <2>2, EmptySeq DEF WritersOK, WriterOK, NotWriting, Strings
  <2>4. QED
    BY <2>1, <2>3 DEF StoredInv
<1>10. QED
  BY <1>1, <1>2, <1>3, <1>5, <1>6, <1>7, <1>8, <1>9 DEF Next

THEOREM StoredInvariant == Spec => []StoredInv
BY InitStored, NextStored, PTL DEF Spec

\* The chunks the file has are stored in their order, and the ends are those of
\* the chunks, through failing writes, failing writers' leftovers and restarts
\* (WriteAt, NewChunkAppender).
THEOREM FileStaysStored == Spec => []FileIsStored
BY StoredInvariant, FileIsPrefix, PTL DEF StoredInv

\* A write that is published is where its caller said: no other has come between
\* the lock and the new end.
THEOREM WritesLand == Spec => WritesLandAtTheirOffset
<1>1. StoredInv => \A w \in Writers : Publish(w) => writing[w].off = Len(file)
  BY DEF StoredInv, WritersOK, WriterOK, Publish
<1>2. QED
  BY <1>1, StoredInvariant, PTL DEF WritesLandAtTheirOffset

-----------------------------------------------------------------------------
(* The chunks of a range                                                   *)

\* A set of positions before the one at b, or with all up to b.
LEMMA CountedBefore ==
  ASSUME NEW n \in Nat, NEW S, S \subseteq 1 .. n, NEW b \in Nat
  PROVE  /\ Cardinality(S) \in Nat
         /\ b # 0 /\ (\A i \in S : i < b) => Cardinality(S) <= b - 1
         /\ 1 .. b \subseteq S => b <= Cardinality(S)
<1>1. IsFiniteSet(1 .. n) /\ IsFiniteSet(1 .. b) /\ Cardinality(1 .. b) = b
  BY FS_Interval
<1>2. IsFiniteSet(S) /\ Cardinality(S) \in Nat
  BY <1>1, FS_Subset, FS_CardinalityType
<1>3. ASSUME b # 0, \A i \in S : i < b PROVE Cardinality(S) <= b - 1
  <2>1. IsFiniteSet(1 .. b - 1) /\ Cardinality(1 .. b - 1) = b - 1
    BY <1>3, FS_Interval
  <2>2. S \subseteq 1 .. b - 1
    BY <1>3
  <2>3. QED
    BY <2>1, <2>2, FS_Subset
<1>4. ASSUME 1 .. b \subseteq S PROVE b <= Cardinality(S)
  BY <1>1, <1>2, <1>4, FS_Subset
<1>5. QED
  BY <1>2, <1>3, <1>4

LEMMA MaxOfTwo ==
  ASSUME NEW a \in Int, NEW b \in Int
  PROVE  Max({a, b}) = IF a >= b THEN a ELSE b
<1>1. CASE a >= b
  <2>1. \A x \in {a, b} : (\A y \in {a, b} : x >= y) => x = a
    BY <1>1
  <2>2. a \in {a, b} /\ \A y \in {a, b} : a >= y
    BY <1>1
  <2>3. QED
    BY <1>1, <2>1, <2>2 DEF Max
<1>2. CASE ~(a >= b)
  <2>1. \A x \in {a, b} : (\A y \in {a, b} : x >= y) => x = b
    BY <1>2
  <2>2. b \in {a, b} /\ \A y \in {a, b} : b >= y
    BY <1>2
  <2>3. QED
    BY <1>2, <2>1, <2>2 DEF Max
<1>3. QED
  BY <1>1, <1>2

LEMMA MinOfTwo ==
  ASSUME NEW a \in Int, NEW b \in Int
  PROVE  Min({a, b}) = IF a <= b THEN a ELSE b
<1>1. CASE a <= b
  <2>1. \A x \in {a, b} : (\A y \in {a, b} : x <= y) => x = a
    BY <1>1
  <2>2. a \in {a, b} /\ \A y \in {a, b} : a <= y
    BY <1>1
  <2>3. QED
    BY <1>1, <2>1, <2>2 DEF Min
<1>2. CASE ~(a <= b)
  <2>1. \A x \in {a, b} : (\A y \in {a, b} : x <= y) => x = b
    BY <1>2
  <2>2. b \in {a, b} /\ \A y \in {a, b} : b <= y
    BY <1>2
  <2>3. QED
    BY <1>2, <2>1, <2>2 DEF Min
<1>3. QED
  BY <1>1, <1>2

\* c2b: the chunks of a range that begins in the file and ends there are the
\* file's, overlap the range, and cover it.
LEMMA RangeIsCovered ==
  ASSUME FileOK, NEW off \in Nat, NEW end \in Nat, off < Total, off <= end, end <= Total
  PROVE  LET D == FirstChunk(off) .. LastChunk(off, end)
         IN /\ D \subseteq Nat \ {0}
            /\ \A b \in D : b \in 1 .. Len(ends) /\ off < ends[b] /\ Start(ends, b) <= end
            /\ \A p \in off + 1 .. end : \E b \in D : Start(ends, b) < p /\ p <= ends[b]
<1> DEFINE n == Len(ends)
           S == {i \in DOMAIN ends : ends[i] <= off}
           T == {i \in DOMAIN ends : ends[i] < end}
           F == 1 + Cardinality(S)
           L == Max({F, 1 + Cardinality(T)})
<1>1. /\ n \in Nat /\ DOMAIN ends = 1 .. n /\ Total = Len(file) /\ Len(file) \in Nat
      /\ Follow(Kept, ends, file) /\ Len(Kept) = n
  BY FileLayout
<1>2. /\ n # 0 /\ ends[n] = Total /\ n \in 1 .. n
      /\ \A a, b \in 1 .. n : a < b => ends[a] < ends[b]
      /\ \A p \in 1 .. Len(file) : \E b \in 1 .. n : Start(ends, b) < p /\ p <= ends[b]
  BY <1>1 DEF Follow
<1>3. \A i \in 1 .. n : ends[i] \in Nat
  BY ElementOfSeq DEF FileOK
<1>4. S \subseteq 1 .. n /\ T \subseteq 1 .. n
  BY <1>1
<1>5. /\ \A i \in 1 .. n : i \in S <=> ends[i] <= off
      /\ \A i \in 1 .. n : i \in T <=> ends[i] < end
  BY <1>1
<1> HIDE DEF n, S, T
<1>6. /\ Cardinality(S) \in Nat /\ Cardinality(T) \in Nat
      /\ \A b \in 1 .. n : (\A i \in S : i < b) => Cardinality(S) <= b - 1
      /\ \A b \in 1 .. n : (\A i \in T : i < b) => Cardinality(T) <= b - 1
      /\ \A b \in 0 .. n : 1 .. b \subseteq S => b <= Cardinality(S)
      /\ \A b \in 0 .. n : 1 .. b \subseteq T => b <= Cardinality(T)
  <2>1. \A b \in 1 .. n : b \in Nat /\ b # 0
    BY <1>1
  <2>2. \A b \in 0 .. n : b \in Nat
    BY <1>1
  <2>3. Cardinality(S) \in Nat /\ Cardinality(T) \in Nat
    BY <1>1, <1>4, CountedBefore
  <2>4. QED
    BY <1>1, <1>4, <2>1, <2>2, <2>3, CountedBefore
<1>7. F \in Nat \ {0} /\ L \in Nat /\ L = IF F >= 1 + Cardinality(T) THEN F ELSE 1 + Cardinality(T)
  <2>1. F \in Nat \ {0} /\ 1 + Cardinality(T) \in Nat
    BY <1>6
  <2> HIDE DEF F
  <2>2. QED
    BY <2>1, MaxOfTwo
<1> HIDE DEF F, L
<1>8. F = 1 + Cardinality(S)
  BY DEF F
<1>9. ASSUME NEW c \in 1 .. n, off < ends[c] PROVE F <= c
  <2>1. \A i \in S : i < c
    <3> SUFFICES ASSUME NEW i \in S, ~(i < c) PROVE FALSE
      OBVIOUS
    <3>1. i \in 1 .. n /\ ends[i] <= off /\ ends[i] \in Nat /\ ends[c] \in Nat
      BY <1>3, <1>4, <1>5
    <3>2. i = c \/ c < i
      BY <1>1, <3>1
    <3>3. ends[c] <= ends[i]
      BY <1>2, <3>1, <3>2
    <3>4. QED
      BY <1>9, <3>1, <3>3
  <2>2. Cardinality(S) <= c - 1
    BY <1>6, <2>1
  <2>3. QED
    BY <1>1, <1>6, <1>8, <2>2
<1>10. ASSUME NEW c \in 1 .. n, end <= ends[c], off < ends[c] PROVE L <= c
  <2>1. \A i \in T : i < c
    <3> SUFFICES ASSUME NEW i \in T, ~(i < c) PROVE FALSE
      OBVIOUS
    <3>1. i \in 1 .. n /\ ends[i] < end /\ ends[i] \in Nat /\ ends[c] \in Nat
      BY <1>3, <1>4, <1>5
    <3>2. i = c \/ c < i
      BY <1>1, <3>1
    <3>3. ends[c] <= ends[i]
      BY <1>2, <3>1, <3>2
    <3>4. QED
      BY <1>10, <3>1, <3>3
  <2>2. Cardinality(T) <= c - 1 /\ F <= c
    BY <1>6, <1>9, <1>10, <2>1
  <2>3. QED
    BY <1>1, <1>6, <1>7, <2>2
<1>11. L <= n
  BY <1>2, <1>10
<1>12. ASSUME NEW b \in F .. L
       PROVE  b \in 1 .. n /\ off < ends[b] /\ Start(ends, b) <= end
  <2>1. b \in 1 .. n
    BY <1>1, <1>7, <1>11
  <2>2. off < ends[b]
    <3> SUFFICES ASSUME ~(off < ends[b]) PROVE FALSE
      OBVIOUS
    <3>1. ends[b] \in Nat /\ ends[b] <= off
      BY <1>3, <2>1
    <3>2. ASSUME NEW i \in 1 .. b PROVE i \in S
      <4>1. i \in 1 .. n /\ (i = b \/ i < b)
        BY <1>1, <2>1
      <4>2. ends[i] <= ends[b] /\ ends[i] \in Nat
        BY <1>2, <1>3, <2>1, <4>1
      <4>3. QED
        BY <1>5, <3>1, <4>1, <4>2
    <3>3. b \in 0 .. n /\ 1 .. b \subseteq S
      BY <1>1, <2>1, <3>2
    <3>4. b <= Cardinality(S)
      BY <1>6, <3>3
    <3>5. QED
      BY <1>6, <1>7, <1>8, <2>1, <3>4
  <2>3. Start(ends, b) <= end
    <3>1. CASE b = 1
      BY <3>1 DEF Start
    <3>2. CASE b # 1
      <4> SUFFICES ASSUME ~(ends[b - 1] <= end) PROVE FALSE
        BY <3>2 DEF Start
      <4>1. b - 1 \in 1 .. n /\ ends[b - 1] \in Nat
        BY <1>1, <1>3, <2>1, <3>2
      <4>2. end <= ends[b - 1] /\ off < ends[b - 1]
        BY <4>1
      <4>3. L <= b - 1
        BY <1>10, <4>1, <4>2
      <4>4. QED
        BY <1>7, <2>1, <4>3
    <3>3. QED
      BY <3>1, <3>2
  <2>4. QED
    BY <2>1, <2>2, <2>3
<1>13. ASSUME NEW p \in off + 1 .. end
       PROVE  \E b \in F .. L : Start(ends, b) < p /\ p <= ends[b]
  <2>1. p \in 1 .. Len(file) /\ off < p /\ p <= end
    BY <1>1
  <2>2. PICK b \in 1 .. n : Start(ends, b) < p /\ p <= ends[b]
    BY <1>2, <2>1
  <2>3. ends[b] \in Nat /\ off < ends[b]
    BY <1>3, <2>1, <2>2
  <2>4. F <= b
    BY <1>9, <2>3
  <2>5. ASSUME NEW i \in 1 .. b - 1 PROVE i \in T
    <3>1. i \in 1 .. n /\ b # 1 /\ b - 1 \in 1 .. n /\ (i = b - 1 \/ i < b - 1)
      BY <1>1, <2>2
    <3>2. ends[i] <= ends[b - 1] /\ ends[i] \in Nat /\ ends[b - 1] \in Nat
      BY <1>2, <1>3, <3>1
    <3>3. ends[b - 1] < p
      BY <2>2, <3>1 DEF Start
    <3>4. QED
      BY <1>5, <2>1, <3>1, <3>2, <3>3
  <2>6. b - 1 \in 0 .. n /\ 1 .. b - 1 \subseteq T
    BY <1>1, <2>2, <2>5
  <2>7. b - 1 <= Cardinality(T)
    BY <1>6, <2>6
  <2>8. b <= L
    BY <1>6, <1>7, <2>2, <2>7
  <2>9. b \in F .. L
    BY <1>7, <2>2, <2>4, <2>8
  <2>10. QED
    BY <2>2, <2>9
<1>14. F = FirstChunk(off) /\ L = LastChunk(off, end)
  BY DEF F, L, FirstChunk, LastChunk, S, T
<1>15. F .. L \subseteq Nat \ {0}
  BY <1>7
<1>16. QED
  BY <1>12, <1>13, <1>14, <1>15 DEF n

-----------------------------------------------------------------------------
(* The cache                                                               *)

Entry == [chunk : Nat \ {0}, data : Strings]

OneOfEach(list) == \A i, j \in 1 .. Len(list) : list[i].chunk = list[j].chunk => i = j

CacheOK ==
  /\ lru \in Seq(Entry) /\ OneOfEach(lru)
  /\ Len(lru) <= MaxItems /\ Weight(lru) <= MaxWeight
  /\ ~pastEnd => \A i \in 1 .. Len(lru) :
                   lru[i].chunk \in 1 .. Len(ends) /\ stored[lru[i].chunk] = lru[i].data

\* Without the chunk that is added, the list keeps the others.
LEMMA OthersKept ==
  ASSUME lru \in Seq(Entry), OneOfEach(lru), NEW b
  PROVE  /\ Others(b) \in Seq(Entry) /\ OneOfEach(Others(b))
         /\ \A i \in 1 .. Len(Others(b)) : \E j \in 1 .. Len(lru) :
              Others(b)[i] = lru[j] /\ lru[j].chunk # b
<1>1. DOMAIN lru = 1 .. Len(lru) /\ Len(lru) \in Nat
  BY LenProperties
<1>2. CASE Places(b) = {}
  <2>1. Others(b) = lru
    BY <1>2 DEF Others
  <2>2. \A j \in 1 .. Len(lru) : lru[j].chunk # b
    BY <1>1, <1>2 DEF Places
  <2>3. QED
    BY <2>1, <2>2
<1>3. CASE Places(b) # {}
  <2> DEFINE p == CHOOSE i \in Places(b) : TRUE
             n == Len(lru)
             left == SubSeq(lru, 1, p - 1)
             right == SubSeq(lru, p + 1, n)
             o == left \o right
  <2>1. Others(b) = o
    BY <1>3 DEF Others, RemoveAt
  <2>2. p \in 1 .. n /\ lru[p].chunk = b
    <3>1. p \in Places(b)
      BY <1>3
    <3>2. QED
      BY <1>1, <3>1 DEF Places
  <2> HIDE DEF p
  <2>3. \A i \in 1 .. n : lru[i] \in Entry
    BY ElementOfSeq
  <2>4. /\ left \in Seq(Entry) /\ Len(left) = p - 1
        /\ \A i \in 1 .. p - 1 : left[i] = lru[i]
    <3>1. \A i \in 1 .. p - 1 : lru[i] \in Entry
      BY <1>1, <2>2, <2>3
    <3>2. QED
      BY <1>1, <2>2, <3>1, SubSeqProperties
  <2>5. /\ right \in Seq(Entry) /\ Len(right) = n - p
        /\ \A i \in 1 .. n - p : right[i] = lru[p + i]
    <3>1. \A i \in p + 1 .. n : lru[i] \in Entry
      BY <1>1, <2>2, <2>3
    <3>2. /\ right \in Seq(Entry) /\ Len(right) = IF p + 1 <= n THEN n - (p + 1) + 1 ELSE 0
          /\ \A i \in 1 .. n - (p + 1) + 1 : right[i] = lru[(p + 1) + i - 1]
      BY <1>1, <2>2, <3>1, SubSeqProperties
    <3> HIDE DEF right
    <3>3. \A i \in 1 .. n - p : i \in 1 .. n - (p + 1) + 1 /\ (p + 1) + i - 1 = p + i
      BY <1>1, <2>2
    <3>4. Len(right) = n - p
      <4> DEFINE m == Len(right)
      <4>1. n \in Nat /\ p \in 1 .. n /\ m = IF p + 1 <= n THEN n - (p + 1) + 1 ELSE 0
        BY <1>1, <2>2, <3>2
      <4> HIDE DEF m, n
      <4>2. m = n - p
        BY <4>1
      <4>3. QED
        BY <4>2 DEF m
    <3>5. \A i \in 1 .. n - p : right[i] = lru[p + i]
      BY <3>2, <3>3
    <3>6. QED
      BY <3>2, <3>4, <3>5
  <2> HIDE DEF left, right, n
  <2>6. /\ o \in Seq(Entry) /\ Len(o) = n - 1
        /\ \A i \in 1 .. n - 1 : o[i] = IF i <= p - 1 THEN left[i] ELSE right[i - (p - 1)]
    <3>1. /\ o \in Seq(Entry) /\ Len(o) = Len(left) + Len(right)
          /\ \A i \in 1 .. Len(left) + Len(right) :
               o[i] = IF i <= Len(left) THEN left[i] ELSE right[i - Len(left)]
      BY <2>4, <2>5, ConcatProperties
    <3>2. Len(left) + Len(right) = n - 1 /\ n \in Nat
      BY <1>1, <2>2, <2>4, <2>5 DEF n
    <3>3. QED
      BY <2>4, <3>1, <3>2
  <2> HIDE DEF o
  <2> DEFINE at(i) == IF i <= p - 1 THEN i ELSE i + 1
  <2>7. ASSUME NEW i \in 1 .. n - 1
        PROVE  at(i) \in 1 .. n /\ at(i) # p /\ o[i] = lru[at(i)]
    <3>1. n \in Nat
      BY <1>1 DEF n
    <3>2. CASE i <= p - 1
      BY <2>2, <2>4, <2>6, <3>1, <3>2
    <3>3. CASE ~(i <= p - 1)
      <4>1. i - (p - 1) \in 1 .. n - p /\ p + (i - (p - 1)) = i + 1
        BY <2>2, <3>1, <3>3
      <4>2. o[i] = lru[i + 1]
        BY <2>5, <2>6, <3>3, <4>1
      <4>3. QED
        BY <2>2, <3>1, <3>3, <4>2
    <3>4. QED
      BY <3>2, <3>3
  <2>8. \A i, j \in 1 .. n : lru[i].chunk = lru[j].chunk => i = j
    BY DEF OneOfEach, n
  <2>9. \A i \in 1 .. n - 1 : \E j \in 1 .. n : o[i] = lru[j] /\ lru[j].chunk # b
    BY <2>2, <2>7, <2>8
  <2>10. ASSUME NEW i \in 1 .. n - 1, NEW j \in 1 .. n - 1, o[i].chunk = o[j].chunk
         PROVE  i = j
    <3>1. at(i) = at(j)
      BY <2>7, <2>8, <2>10
    <3>2. n \in Nat
      BY <1>1 DEF n
    <3>3. QED
      BY <2>2, <3>1, <3>2
  <2>11. OneOfEach(o)
    BY <2>6, <2>10 DEF OneOfEach
  <2>12. QED
    BY <2>1, <2>6, <2>9, <2>11 DEF n
<1>4. QED
  BY <1>2, <1>3

\* A bounded set of natural numbers that is not empty has a greatest element.
LEMMA GreatestOfBounded ==
  ASSUME NEW n \in Nat, NEW S, S \subseteq 0 .. n, S # {}
  PROVE  Max(S) \in S
<1> DEFINE T == {n - x : x \in S}
<1>1. \A x \in S : x \in 0 .. n /\ n - x \in Nat
  OBVIOUS
<1>2. T \subseteq Nat /\ T # {}
  BY <1>1
<1>3. PICK m \in T : \A u \in T : m <= u
  BY <1>2, LeastOfNat
<1>4. PICK x \in S : n - x = m
  BY <1>3
<1>5. ASSUME NEW y \in S PROVE x >= y
  <2>1. n - y \in T
    OBVIOUS
  <2>2. n - x <= n - y
    BY <2>1, <1>3, <1>4
  <2> HIDE DEF T
  <2>3. QED
    BY <2>2, <1>1
<1>6. QED
  BY <1>4, <1>5 DEF Max

\* Add keeps the limits, and what the list has afterwards is the new entry or
\* has been there.
LEMMA AddedKept ==
  ASSUME CacheOK, NEW b \in Nat \ {0}, NEW data \in Strings
  PROVE  LET new == Added(b, data)
         IN /\ new \in Seq(Entry) /\ OneOfEach(new)
            /\ Len(new) <= MaxItems /\ Weight(new) <= MaxWeight
            /\ \A i \in 1 .. Len(new) :
                 new[i] = [chunk |-> b, data |-> data] \/ \E j \in 1 .. Len(lru) : new[i] = lru[j]
<1> DEFINE e == [chunk |-> b, data |-> data]
           all == <<e>> \o Others(b)
           F == {n \in 0 .. Len(all) : Fits(SubSeq(all, 1, n))}
           k == Max(F)
<1>1. e \in Entry /\ e.chunk = b
  BY DEF Entry
<1>2. /\ Others(b) \in Seq(Entry) /\ OneOfEach(Others(b))
      /\ \A i \in 1 .. Len(Others(b)) : \E j \in 1 .. Len(lru) :
           Others(b)[i] = lru[j] /\ lru[j].chunk # b
  BY OthersKept DEF CacheOK
<1> DEFINE o == Others(b)
<1>3. /\ all \in Seq(Entry) /\ Len(o) \in Nat /\ Len(all) = Len(o) + 1
      /\ all[1] = e
      /\ \A i \in 1 .. Len(o) : all[i + 1] = o[i]
  <2> HIDE DEF e, o
  <2>1. <<e>> \in Seq(Entry) /\ Len(<<e>>) = 1 /\ <<e>>[1] = e
    BY <1>1
  <2>2. Len(o) \in Nat
    BY <1>2, LenProperties DEF o
  <2> DEFINE f == <<e>>
             c == f \o o
  <2> HIDE DEF f
  <2>3. /\ c \in Seq(Entry) /\ Len(c) = Len(f) + Len(o)
        /\ \A i \in 1 .. Len(f) + Len(o) : c[i] = IF i <= Len(f) THEN f[i] ELSE o[i - Len(f)]
    BY <1>2, <2>1, ConcatProperties DEF f, o
  <2> HIDE DEF c
  <2>4. Len(f) = 1 /\ f[1] = e
    BY <2>1 DEF f
  <2>5. c[1] = e /\ Len(c) = Len(o) + 1
    BY <2>2, <2>3, <2>4
  <2>6. ASSUME NEW i \in 1 .. Len(o) PROVE c[i + 1] = o[i]
    <3>1. i + 1 \in 1 .. Len(f) + Len(o) /\ ~(i + 1 <= Len(f)) /\ (i + 1) - Len(f) = i
      BY <2>2, <2>4
    <3>2. QED
      BY <2>3, <3>1
  <2>7. c = all
    BY DEF c, f, o, e
  <2>8. QED
    BY <2>2, <2>3, <2>5, <2>6, <2>7
<1> HIDE DEF e, o, all
<1>4. \A i \in 1 .. Len(all) : i = 1 \/ (i - 1 \in 1 .. Len(o) /\ all[i] = o[i - 1])
  <2>1. \A i \in 1 .. Len(all) : i = 1 \/ (i - 1 \in 1 .. Len(o) /\ (i - 1) + 1 = i)
    BY <1>3
  <2>2. QED
    BY <1>3, <2>1
<1>5. \A i \in 1 .. Len(all) :
        all[i] = e \/ \E j \in 1 .. Len(lru) : all[i] = lru[j] /\ lru[j].chunk # b
  <2> SUFFICES ASSUME NEW i \in 1 .. Len(all), i # 1
               PROVE  \E j \in 1 .. Len(lru) : all[i] = lru[j] /\ lru[j].chunk # b
    BY <1>3
  <2>1. i - 1 \in 1 .. Len(Others(b)) /\ all[i] = Others(b)[i - 1]
    BY <1>4 DEF o
  <2>2. QED
    BY <1>2, <2>1
<1>6. OneOfEach(all)
  <2> SUFFICES ASSUME NEW i \in 1 .. Len(all), NEW j \in 1 .. Len(all), all[i].chunk = all[j].chunk
               PROVE  i = j
    BY DEF OneOfEach
  <2>1. \A l \in 1 .. Len(o) : o[l].chunk # b
    BY <1>2 DEF o
  <2>2. CASE i = 1 \/ j = 1
    BY <1>1, <1>3, <1>4, <2>1, <2>2
  <2>3. CASE i # 1 /\ j # 1
    <3>1. i - 1 = j - 1
      BY <1>2, <1>4, <2>3 DEF OneOfEach, o
    <3>2. QED
      BY <1>3, <3>1
  <2>4. QED
    BY <2>2, <2>3
<1>7. k \in 0 .. Len(all) /\ Fits(SubSeq(all, 1, k))
  <2>1. Fits(<< >>)
    <3>1. [i \in DOMAIN << >> |-> << >>[i].data] = << >>
      OBVIOUS
    <3>2. Weight(<< >>) = 0
      BY <3>1, BytesOfNone DEF Weight
    <3>3. QED
      BY <3>2, ChunkAppenderAssumption DEF Fits
  <2>2. SubSeq(all, 1, 0) = << >>
    BY SubSeqEmpty
  <2>3. Len(all) \in Nat /\ 0 \in 0 .. Len(all)
    BY <1>3
  <2>4. 0 \in F /\ F \subseteq 0 .. Len(all)
    BY <2>1, <2>2, <2>3
  <2> HIDE DEF F
  <2>5. k \in F
    BY <2>3, <2>4, GreatestOfBounded
  <2>6. QED
    BY <2>5 DEF F
<1> HIDE DEF k
<1>8. CASE Len(data) > MaxWeight
  <2>1. Added(b, data) = lru
    BY <1>8 DEF Added
  <2>2. QED
    BY <2>1 DEF CacheOK
<1>9. CASE ~(Len(data) > MaxWeight)
  <2> DEFINE new == SubSeq(all, 1, k)
  <2>1. Added(b, data) = new
    BY <1>9 DEF Added, k, all, e
  <2>2. k \in Nat /\ \A i \in 1 .. k : i \in 1 .. Len(all) /\ all[i] \in Entry
    BY <1>3, <1>7, ElementOfSeq
  <2>3. /\ new \in Seq(Entry) /\ Len(new) = k
        /\ \A i \in 1 .. k : new[i] = all[i]
    BY <2>2, SubSeqProperties
  <2>4. Len(new) <= MaxItems /\ Weight(new) <= MaxWeight
    BY <1>7 DEF Fits
  <2> HIDE DEF new
  <2>5. OneOfEach(new)
    BY <1>6, <2>2, <2>3 DEF OneOfEach
  <2>6. \A i \in 1 .. Len(new) : new[i] = e \/ \E j \in 1 .. Len(lru) : new[i] = lru[j]
    BY <1>5, <2>2, <2>3
  <2>7. QED
    BY <2>1, <2>3, <2>4, <2>5, <2>6 DEF e
<1>10. QED
  BY <1>8, <1>9

-----------------------------------------------------------------------------
(* Readers                                                                 *)

Held == [has : {"nothing", "fetched", "data"}, data : Strings]
Fetches == UNION {[D -> Held] : D \in SUBSET (Nat \ {0})}
Reading == [stage : {"idle", "read", "done", "error"}, off : Nat, end : Nat,
            fetching : Fetches, failed : BOOLEAN, got : Strings]

\* What is true of a call q of ReadAt while the file has chunks st, which end at
\* E and have the bytes f: its goroutines are for chunks of the file that overlap
\* the range, what they have are those chunks, and the bytes of no such chunk
\* are in place.
Serves(q, E, st, f) ==
  /\ q.off <= q.end /\ q.end <= Len(f) /\ Len(q.got) = q.end - q.off
  /\ \A b \in DOMAIN q.fetching :
       /\ b \in 1 .. Len(E) /\ q.off < E[b] /\ Start(E, b) <= q.end
       /\ q.fetching[b].has # "nothing" => q.fetching[b].data = st[b]
  /\ ~q.failed => \A i \in 1 .. q.end - q.off :
       \/ \E b \in DOMAIN q.fetching : Start(E, b) < q.off + i /\ q.off + i <= E[b]
       \/ q.got[i] = f[q.off + i]
  /\ q.stage = "done" => ~q.failed /\ DOMAIN q.fetching = {}

ReadersOK ==
  /\ reading \in [Readers -> Reading]
  /\ ~pastEnd => \A r \in Readers :
       reading[r].stage # "idle" => Serves(reading[r], ends, stored, file)
  /\ panicked => pastEnd

ChunkInv == StoredInv /\ CacheOK /\ ReadersOK

LEMMA FetchesOf ==
  ASSUME NEW D \in SUBSET (Nat \ {0}), NEW f \in [D -> Held]
  PROVE  f \in Fetches
BY DEF Fetches

LEMMA FetchOf ==
  ASSUME NEW q \in Reading, NEW b \in DOMAIN q.fetching
  PROVE  b \in Nat \ {0} /\ q.fetching[b] \in Held /\ q.fetching[b].data \in Strings
<1>1. q.fetching \in Fetches
  BY DEF Reading
<1>2. PICK D \in SUBSET (Nat \ {0}) : q.fetching \in [D -> Held]
  BY <1>1 DEF Fetches
<1>3. b \in D /\ q.fetching[b] \in Held
  BY <1>2
<1>4. q.fetching[b].data \in Strings
  BY <1>3 DEF Held
<1>5. QED
  BY <1>2, <1>3, <1>4

LEMMA NotReadingTyped == NotReading \in Reading
<1>1. << >> \in [{} -> Held] /\ {} \in SUBSET (Nat \ {0})
  OBVIOUS
<1>2. << >> \in Fetches
  BY <1>1, FetchesOf
<1>3. << >> \in Strings
  BY EmptySeq DEF Strings
<1>4. QED
  BY <1>2, <1>3 DEF NotReading, Reading

\* One reader goes on.
LEMMA OneReader ==
  ASSUME ReadersOK, NEW r \in Readers, NEW q \in Reading, reading' = [reading EXCEPT ![r] = q],
         UNCHANGED <<ends, stored, file, panicked>>, pastEnd => pastEnd',
         ~pastEnd' /\ q.stage # "idle" => Serves(q, ends, stored, file)
  PROVE  ReadersOK'
<1>1. reading' \in [Readers -> Reading] /\ reading'[r] = q
      /\ \A v \in Readers : v # r => reading'[v] = reading[v]
  BY DEF ReadersOK
<1>2. ASSUME ~pastEnd', NEW v \in Readers, reading'[v].stage # "idle"
      PROVE  Serves(reading'[v], ends', stored', file')
  <2>1. ~pastEnd /\ ends' = ends /\ stored' = stored /\ file' = file
    BY <1>2
  <2>2. CASE v = r
    BY <1>1, <1>2, <2>1, <2>2
  <2>3. CASE v # r
    <3>1. Serves(reading[v], ends, stored, file)
      BY <1>1, <1>2, <2>1, <2>3 DEF ReadersOK
    <3>2. QED
      BY <1>1, <2>1, <2>3, <3>1
  <2>4. QED
    BY <2>2, <2>3
<1>3. QED
  BY <1>1, <1>2 DEF ReadersOK

\* A call and the file it reads: the file may grow, and what it has of the call
\* stays as it is.
LEMMA ServesMore ==
  ASSUME NEW q \in Reading, NEW E, NEW st, NEW f, NEW E2, NEW st2, NEW f2,
         Len(E) \in Nat, Len(f) \in Nat, Len(E2) \in Nat, Len(f2) \in Nat,
         Len(E) <= Len(E2), \A b \in 1 .. Len(E) : E2[b] = E[b] /\ st2[b] = st[b],
         Len(f) <= Len(f2), \A p \in 1 .. Len(f) : f2[p] = f[p],
         Serves(q, E, st, f)
  PROVE  Serves(q, E2, st2, f2)
<1>1. /\ q.off <= q.end /\ q.end <= Len(f) /\ Len(q.got) = q.end - q.off
      /\ \A b \in DOMAIN q.fetching :
           /\ b \in 1 .. Len(E) /\ q.off < E[b] /\ Start(E, b) <= q.end
           /\ q.fetching[b].has # "nothing" => q.fetching[b].data = st[b]
      /\ ~q.failed => \A i \in 1 .. q.end - q.off :
           \/ \E b \in DOMAIN q.fetching : Start(E, b) < q.off + i /\ q.off + i <= E[b]
           \/ q.got[i] = f[q.off + i]
      /\ q.stage = "done" => ~q.failed /\ DOMAIN q.fetching = {}
  BY DEF Serves
<1>2. q.off \in Nat /\ q.end \in Nat
  BY DEF Reading
<1>3. \A b \in 1 .. Len(E) : Start(E2, b) = Start(E, b)
  <2>1. \A b \in 1 .. Len(E) : b # 1 => b - 1 \in 1 .. Len(E)
    OBVIOUS
  <2>2. QED
    BY <2>1 DEF Start
<1>4. q.end <= Len(f2)
  BY <1>1, <1>2
<1>5. ASSUME NEW b \in DOMAIN q.fetching
      PROVE  /\ b \in 1 .. Len(E2) /\ q.off < E2[b] /\ Start(E2, b) <= q.end
             /\ q.fetching[b].has # "nothing" => q.fetching[b].data = st2[b]
  <2>1. b \in 1 .. Len(E)
    BY <1>1
  <2>2. b \in 1 .. Len(E2)
    BY <2>1
  <2>3. QED
    BY <1>1, <1>3, <2>1, <2>2
<1>6. ASSUME ~q.failed, NEW i \in 1 .. q.end - q.off
      PROVE  \/ \E b \in DOMAIN q.fetching : Start(E2, b) < q.off + i /\ q.off + i <= E2[b]
             \/ q.got[i] = f2[q.off + i]
  <2>1. CASE \E b \in DOMAIN q.fetching : Start(E, b) < q.off + i /\ q.off + i <= E[b]
    BY <1>1, <1>3, <2>1
  <2>2. CASE q.got[i] = f[q.off + i]
    <3>1. q.off + i \in 1 .. Len(f)
      BY <1>1, <1>2
    <3>2. QED
      BY <2>2, <3>1
  <2>3. QED
    BY <1>1, <1>6, <2>1, <2>2
<1>7. QED
  BY <1>1, <1>4, <1>5, <1>6 DEF Serves

\* The file grows, and no chunk that it has is replaced.
Grows ==
  /\ Len(ends) <= Len(ends') /\ \A b \in 1 .. Len(ends) : ends'[b] = ends[b] /\ stored'[b] = stored[b]
  /\ Len(file) <= Len(file') /\ \A p \in 1 .. Len(file) : file'[p] = file[p]

LEMMA NextGrows ==
  ASSUME StoredInv, StoredInv', NEW w \in Writers,
         \/ \E bytes \in Payloads : CallWriteAt(w, bytes)
         \/ Lock(w)
         \/ Put(w)
         \/ FailPut(w)
         \/ Publish(w)
  PROVE  Grows
<1>1. /\ FileOK /\ WriterOK(w) /\ Len(ends) \in Nat /\ Len(file) \in Nat /\ file \in Strings
      /\ ends \in Seq(Nat) /\ Total \in Nat
  BY FileLayout DEF StoredInv, WritersOK, FileOK
<1>2. ASSUME UNCHANGED <<ends, file>>,
             stored' = stored \/ \E x \in Chunks : stored' = Stored(x)
      PROVE  Grows
  BY <1>1, <1>2, StoredMore DEF Grows
<1>3. CASE \E bytes \in Payloads : CallWriteAt(w, bytes)
  BY <1>2, <1>3 DEF CallWriteAt
<1>4. CASE Lock(w)
  BY <1>2, <1>4 DEF Lock
<1>5. CASE Put(w) \/ FailPut(w)
  BY <1>1, <1>2, <1>5 DEF Put, FailPut, WriterOK
<1>6. CASE Publish(w)
  <2> DEFINE x == writing[w].bytes
             e == Total + Len(x)
  <2>1. stored' = stored /\ ends' = Append(ends, e) /\ file' = file \o x /\ x \in Chunks
    BY <1>1, <1>6 DEF Publish, WriterOK
  <2>2. x \in Seq(Byte) /\ Len(x) \in Nat /\ e \in Nat /\ file \in Seq(Byte)
    BY <1>1, <2>1, LenProperties DEF Chunks, Strings
  <2> HIDE DEF x, e
  <2>3. Len(ends') = Len(ends) + 1 /\ \A b \in 1 .. Len(ends) : ends'[b] = ends[b]
    BY <1>1, <2>1, <2>2, AppendProperties
  <2>4. Len(file') = Len(file) + Len(x) /\ \A p \in 1 .. Len(file) : file'[p] = file[p]
    BY <1>1, <2>1, <2>2, ConcatProperties
  <2>5. QED
    BY <1>1, <2>1, <2>2, <2>3, <2>4 DEF Grows
<1>7. QED
  BY <1>3, <1>4, <1>5, <1>6

LEMMA GrowsKeeps ==
  ASSUME ChunkInv, StoredInv', Grows, UNCHANGED <<lru, reading, panicked, pastEnd>>
  PROVE  CacheOK' /\ ReadersOK'
<1>1. /\ CacheOK /\ ReadersOK /\ FileOK /\ FileOK'
  BY DEF ChunkInv, StoredInv
<1>2. Len(ends) \in Nat /\ Len(file) \in Nat
  BY <1>1, FileLayout
<1>3. Len(ends') \in Nat /\ Len(file') \in Nat
  <2>1. ends' \in Seq(Nat) /\ stored' \in Seq(Chunks) /\ Len(ends') <= Len(stored')
        /\ file' = Bytes(SubSeq(stored', 1, Len(ends')))
    BY <1>1 DEF FileOK, Kept
  <2>2. Len(ends') \in 0 .. Len(stored') /\ Len(ends') \in Nat
    BY <2>1, LenProperties
  <2>3. SubSeq(stored', 1, Len(ends')) \in Seq(Strings)
    BY <2>1, <2>2, PrefixOfChunks, ChunksAreStrings
  <2>4. QED
    BY <2>1, <2>2, <2>3, BytesTyped
<1>4. CacheOK'
  <2>1. \A n \in 1 .. Len(ends) : n \in 1 .. Len(ends') /\ stored'[n] = stored[n]
    BY <1>2, <1>3 DEF Grows
  <2>2. Weight(lru') = Weight(lru)
    BY DEF Weight
  <2>3. QED
    BY <1>1, <2>1, <2>2 DEF CacheOK, OneOfEach
<1>5. ReadersOK'
  <2>1. ASSUME ~pastEnd', NEW r \in Readers, reading'[r].stage # "idle"
        PROVE  Serves(reading'[r], ends', stored', file')
    <3>1. Serves(reading[r], ends, stored, file) /\ reading[r] \in Reading
      BY <1>1, <2>1 DEF ReadersOK
    <3>2. Serves(reading[r], ends', stored', file')
      BY <1>2, <1>3, <3>1, ServesMore DEF Grows
    <3>3. QED
      BY <3>2
  <2>2. QED
    BY <1>1, <2>1 DEF ReadersOK
<1>6. QED
  BY <1>4, <1>5


-----------------------------------------------------------------------------
(* Each step                                                               *)

LEMMA InitChunk == Init => ChunkInv
<1> SUFFICES ASSUME Init PROVE ChunkInv
  OBVIOUS
<1>1. StoredInv
  BY InitStored
<1>2. CacheOK
  <2>1. << >> \in Seq(Entry) /\ Len(<< >>) = 0
    BY EmptySeq
  <2>2. [i \in DOMAIN << >> |-> << >>[i].data] = << >>
    OBVIOUS
  <2>3. Weight(<< >>) = 0
    BY <2>2, BytesOfNone DEF Weight
  <2>4. lru = << >>
    BY DEF Init
  <2>5. QED
    BY <2>1, <2>3, <2>4, ChunkAppenderAssumption DEF CacheOK, OneOfEach
<1>3. ReadersOK
  <2>1. NotReading \in Reading
    BY NotReadingTyped
  <2>2. QED
    BY <2>1 DEF Init, ReadersOK, NotReading
<1>4. QED
  BY <1>1, <1>2, <1>3 DEF ChunkInv

\* c2b gives numbers of chunks, although there may be no such chunk.
LEMMA RangeTyped ==
  ASSUME FileOK, NEW off \in Nat, NEW end \in Nat
  PROVE  FirstChunk(off) .. LastChunk(off, end) \subseteq Nat \ {0}
<1> DEFINE S == {i \in DOMAIN ends : ends[i] <= off}
           T == {i \in DOMAIN ends : ends[i] < end}
<1>1. S \subseteq 1 .. Len(ends) /\ T \subseteq 1 .. Len(ends) /\ Len(ends) \in Nat
  BY FileLayout
<1>2. FirstChunk(off) = 1 + Cardinality(S)
      /\ LastChunk(off, end) = Max({FirstChunk(off), 1 + Cardinality(T)})
  BY DEF FirstChunk, LastChunk
<1> HIDE DEF S, T
<1>3. Cardinality(S) \in Nat /\ Cardinality(T) \in Nat
  BY <1>1, CountedBefore
<1>4. FirstChunk(off) \in Nat \ {0} /\ 1 + Cardinality(T) \in Nat
  BY <1>2, <1>3
<1>5. LastChunk(off, end) \in Int
  BY <1>2, <1>4, MaxOfTwo
<1>6. QED
  BY <1>4, <1>5

LEMMA CallKeeps ==
  ASSUME ChunkInv, NEW r \in Readers, NEW off \in 0 .. Total, NEW end \in off .. Total + 1,
         CallReadAt(r, off, end)
  PROVE  ReadersOK'
<1> DEFINE D == FirstChunk(off) .. LastChunk(off, end)
           F == [b \in D |-> Nothing]
           G == [i \in 1 .. end - off |-> 0]
           q == [stage |-> "read", off |-> off, end |-> end, failed |-> FALSE,
                 fetching |-> F, got |-> G]
<1>1. FileOK /\ ReadersOK /\ Total \in Nat /\ Total = Len(file)
  BY FileLayout DEF ChunkInv, StoredInv
<1>2. off \in Nat /\ end \in Nat /\ off <= Total /\ off <= end /\ end - off \in Nat
  BY <1>1
<1>3. D \subseteq Nat \ {0}
  BY <1>1, <1>2, RangeTyped
<1>4. F \in Fetches
  <2>1. Nothing \in Held
    BY EmptySeq DEF Nothing, Held, Strings
  <2>2. F \in [D -> Held]
    BY <2>1
  <2> HIDE DEF F, D
  <2>3. QED
    BY <1>3, <2>2, FetchesOf
<1>5. G \in Strings /\ Len(G) = end - off
  <2>1. 0 \in Byte
    BY DEF Byte
  <2> DEFINE n == end - off
  <2>2. n \in Nat
    BY <1>2
  <2> HIDE DEF n
  <2>3. [i \in 1 .. n |-> 0] \in Seq(Byte) /\ Len([i \in 1 .. n |-> 0]) = n
    BY <2>1, <2>2
  <2>4. QED
    BY <2>3 DEF n, Strings
<1>6. reading' = [reading EXCEPT ![r] = q] /\ UNCHANGED <<ends, stored, file, panicked>>
      /\ pastEnd' = (pastEnd \/ off = Total \/ end > Total)
  BY DEF CallReadAt
<1>7. /\ q.off = off /\ q.end = end /\ q.stage = "read" /\ q.failed = FALSE
      /\ q.fetching = F /\ q.got = G /\ DOMAIN F = D /\ \A b \in D : F[b].has = "nothing"
  BY DEF Nothing
<1> HIDE DEF F, G
<1>8. q \in Reading
  BY <1>2, <1>4, <1>5 DEF Reading
<1> HIDE DEF q
<1>9. ASSUME ~pastEnd' PROVE Serves(q, ends, stored, file)
  <2>1. off < Total /\ end <= Total
    <3>1. ~(off = Total) /\ ~(end > Total)
      BY <1>6, <1>9, Zenon
    <3>2. QED
      BY <1>1, <1>2, <3>1
  <2>2. /\ \A b \in D : b \in 1 .. Len(ends) /\ off < ends[b] /\ Start(ends, b) <= end
        /\ \A p \in off + 1 .. end : \E b \in D : Start(ends, b) < p /\ p <= ends[b]
    BY <1>1, <1>2, <2>1, RangeIsCovered
  <2> HIDE DEF D
  <2>3. \A i \in 1 .. end - off : off + i \in off + 1 .. end
    BY <1>2
  <2>4. \A i \in 1 .. end - off : \E b \in D : Start(ends, b) < off + i /\ off + i <= ends[b]
    BY <2>2, <2>3
  <2>5. QED
    BY <1>1, <1>2, <1>5, <1>7, <2>1, <2>2, <2>4 DEF Serves
<1>10. pastEnd => pastEnd'
  BY <1>6
<1>11. QED
  BY <1>1, <1>6, <1>8, <1>9, <1>10, OneReader

\* A goroutine has something new for its chunk.
LEMMA GotKeeps ==
  ASSUME ReadersOK, NEW r \in Readers, NEW b, b \in DOMAIN reading[r].fetching,
         NEW has \in {"nothing", "fetched", "data"}, NEW data \in Strings,
         Got(r, b, has, data), reading[r].stage = "read",
         UNCHANGED <<ends, stored, file, panicked, pastEnd>>,
         ~pastEnd => data = stored[b]
  PROVE  ReadersOK'
<1> DEFINE x == reading[r]
           h == [has |-> has, data |-> data]
           F == [x.fetching EXCEPT ![b] = h]
           q == [x EXCEPT !.fetching = F]
<1>1. x \in Reading
  BY DEF ReadersOK
<1>2. PICK D \in SUBSET (Nat \ {0}) : x.fetching \in [D -> Held]
  BY <1>1 DEF Reading, Fetches
<1>3. h \in Held /\ h.has = has /\ h.data = data
  BY DEF Held
<1> HIDE DEF h
<1>4. F \in [D -> Held]
  BY <1>2, <1>3
<1>5. F \in Fetches
  <2> HIDE DEF F
  <2> QED
    BY <1>4, FetchesOf
<1>6. /\ DOMAIN F = DOMAIN x.fetching
      /\ F[b] = h /\ \A c \in DOMAIN x.fetching : c # b => F[c] = x.fetching[c]
  BY <1>2
<1>7. reading' = [reading EXCEPT ![r] = q]
  BY <1>1 DEF Got, ReadersOK, h
<1> HIDE DEF F
<1>8. q \in Reading
  BY <1>1, <1>5 DEF Reading
<1>9. /\ q.off = x.off /\ q.end = x.end /\ q.stage = x.stage /\ q.failed = x.failed
      /\ q.fetching = F /\ q.got = x.got
  BY <1>1 DEF Reading
<1>10. x.stage = "read"
  OBVIOUS
<1>11. ~pastEnd => Serves(x, ends, stored, file)
  BY <1>10 DEF ReadersOK
<1> HIDE DEF q, x
<1>12. ASSUME ~pastEnd' PROVE Serves(q, ends, stored, file)
  <2>1. Serves(x, ends, stored, file) /\ data = stored[b]
    BY <1>11, <1>12
  <2>2. ASSUME NEW c \in DOMAIN F, F[c].has # "nothing" PROVE F[c].data = stored[c]
    BY <1>3, <1>6, <2>1, <2>2 DEF Serves
  <2>3. QED
    BY <1>6, <1>9, <1>10, <2>1, <2>2 DEF Serves
<1>13. QED
  BY <1>7, <1>8, <1>12, OneReader

LEMMA CachedData ==
  ASSUME FileOK, CacheOK, NEW b, NEW e \in Cached(b)
  PROVE  e.data \in Strings /\ (~pastEnd => e.data = stored[b])
<1>1. DOMAIN lru = 1 .. Len(lru)
  BY LenProperties DEF CacheOK
<1>2. PICK i \in 1 .. Len(lru) : lru[i].chunk = b /\ e = lru[i]
  BY <1>1 DEF Cached, Places
<1>3. lru[i] \in Entry
  BY ElementOfSeq DEF CacheOK
<1>4. QED
  BY <1>2, <1>3 DEF CacheOK, Entry

LEMMA FetchKeeps ==
  ASSUME ChunkInv, NEW r \in Readers, NEW b, Hit(r, b) \/ Get(r, b)
  PROVE  ReadersOK'
<1>1. FileOK /\ CacheOK /\ ReadersOK /\ stored \in Seq(Chunks)
  BY DEF ChunkInv, StoredInv, FileOK
<1>2. CASE Hit(r, b)
  <2>1. PICK e \in Cached(b) : Got(r, b, "data", e.data)
    BY <1>2 DEF Hit
  <2>2. e.data \in Strings /\ (~pastEnd => e.data = stored[b])
    BY <1>1, CachedData
  <2>3. b \in DOMAIN reading[r].fetching /\ reading[r].stage = "read"
        /\ UNCHANGED <<ends, stored, file, panicked, pastEnd>>
    BY <1>2 DEF Hit, Running
  <2>4. QED
    BY <1>1, <2>1, <2>2, <2>3, GotKeeps
<1>3. CASE Get(r, b)
  <2>1. Got(r, b, "fetched", stored[b]) /\ b \in DOMAIN stored
    BY <1>3 DEF Get
  <2>2. DOMAIN stored = 1 .. Len(stored)
    BY <1>1, LenProperties
  <2>3. stored[b] \in Chunks
    BY <1>1, <2>1, <2>2, ElementOfSeq
  <2>4. stored[b] \in Strings
    BY <2>3, ChunksAreStrings
  <2>5. b \in DOMAIN reading[r].fetching /\ reading[r].stage = "read"
        /\ UNCHANGED <<ends, stored, file, panicked, pastEnd>>
    BY <1>3 DEF Get, Running
  <2>6. QED
    BY <1>1, <2>1, <2>4, <2>5, GotKeeps
<1>4. QED
  BY <1>2, <1>3

LEMMA AddKeeps ==
  ASSUME ChunkInv, NEW r \in Readers, NEW b, AddToCache(r, b)
  PROVE  ReadersOK' /\ CacheOK'
<1> DEFINE data == reading[r].fetching[b].data
<1>1. FileOK /\ CacheOK /\ ReadersOK /\ reading[r] \in Reading
  BY DEF ChunkInv, StoredInv, ReadersOK
<1>2. /\ lru' = Added(b, data) /\ Got(r, b, "data", data)
      /\ reading[r].stage = "read" /\ b \in DOMAIN reading[r].fetching
      /\ reading[r].fetching[b].has = "fetched"
      /\ UNCHANGED <<ends, stored, file, panicked, pastEnd>>
  BY DEF AddToCache, Running
<1>3. b \in Nat \ {0} /\ data \in Strings
  BY <1>1, <1>2, FetchOf
<1>4. ~pastEnd => data = stored[b] /\ b \in 1 .. Len(ends)
  <2>1. ~pastEnd => Serves(reading[r], ends, stored, file)
    BY <1>1, <1>2 DEF ReadersOK
  <2>2. QED
    BY <1>2, <2>1 DEF Serves
<1> HIDE DEF data
<1>5. ReadersOK'
  BY <1>1, <1>2, <1>3, <1>4, GotKeeps
<1>6. /\ lru' \in Seq(Entry) /\ OneOfEach(lru')
      /\ Len(lru') <= MaxItems /\ Weight(lru') <= MaxWeight
      /\ \A i \in 1 .. Len(lru') :
           lru'[i] = [chunk |-> b, data |-> data] \/ \E j \in 1 .. Len(lru) : lru'[i] = lru[j]
  BY <1>1, <1>2, <1>3, AddedKept
<1>7. ASSUME ~pastEnd', NEW i \in 1 .. Len(lru')
      PROVE  lru'[i].chunk \in 1 .. Len(ends') /\ stored'[lru'[i].chunk] = lru'[i].data
  <2>1. ~pastEnd /\ ends' = ends /\ stored' = stored
    BY <1>2, <1>7
  <2>2. CASE lru'[i] = [chunk |-> b, data |-> data]
    BY <1>4, <2>1, <2>2
  <2>3. CASE \E j \in 1 .. Len(lru) : lru'[i] = lru[j]
    BY <1>1, <2>1, <2>3 DEF CacheOK
  <2>4. QED
    BY <1>6, <2>2, <2>3
<1>8. CacheOK'
  BY <1>6, <1>7 DEF CacheOK
<1>9. QED
  BY <1>5, <1>8

\* Without one of its chunks, a function of fetches is one.
LEMMA WithoutTyped ==
  ASSUME NEW f \in Fetches, NEW b
  PROVE  /\ Without(f, b) \in Fetches /\ DOMAIN Without(f, b) = DOMAIN f \ {b}
         /\ \A c \in DOMAIN f \ {b} : Without(f, b)[c] = f[c]
<1>1. PICK D \in SUBSET (Nat \ {0}) : f \in [D -> Held]
  BY DEF Fetches
<1>2. Without(f, b) \in [D \ {b} -> Held]
  BY <1>1 DEF Without
<1>3. D \ {b} \in SUBSET (Nat \ {0})
  OBVIOUS
<1>4. Without(f, b) \in Fetches
  BY <1>2, <1>3, FetchesOf
<1>5. QED
  BY <1>1, <1>4 DEF Without

LEMMA FailKeeps ==
  ASSUME ReadersOK, NEW r \in Readers, NEW b, FailGet(r, b)
  PROVE  ReadersOK'
<1> DEFINE x == reading[r]
           F == Without(x.fetching, b)
           q == [x EXCEPT !.fetching = F, !.failed = TRUE]
<1>1. x \in Reading /\ x.stage = "read"
  BY DEF ReadersOK, FailGet, Running
<1>2. x.fetching \in Fetches
  BY <1>1 DEF Reading
<1> HIDE DEF x
<1>3. /\ F \in Fetches /\ DOMAIN F = DOMAIN x.fetching \ {b}
      /\ \A c \in DOMAIN F : F[c] = x.fetching[c]
  BY <1>2, WithoutTyped
<1>4. reading' = [reading EXCEPT ![r] = q] /\ UNCHANGED <<ends, stored, file, panicked, pastEnd>>
  BY <1>1 DEF FailGet, ReadersOK, x
<1> HIDE DEF F
<1>5. q \in Reading
  BY <1>1, <1>3 DEF Reading
<1>6. /\ q.off = x.off /\ q.end = x.end /\ q.stage = "read" /\ q.failed = TRUE
      /\ q.fetching = F /\ q.got = x.got
  BY <1>1 DEF Reading
<1>7. ~pastEnd => Serves(x, ends, stored, file)
  BY <1>1 DEF ReadersOK, x
<1> HIDE DEF q
<1>8. ~pastEnd' => Serves(q, ends, stored, file)
  BY <1>3, <1>4, <1>6, <1>7 DEF Serves
<1>9. QED
  BY <1>4, <1>5, <1>8, OneReader

LEMMA ReturnKeeps ==
  ASSUME ReadersOK, NEW r \in Readers, Return(r)
  PROVE  ReadersOK'
<1> DEFINE x == reading[r]
           g == IF x.failed THEN "error" ELSE "done"
           q == [x EXCEPT !.stage = g]
<1>1. x \in Reading /\ x.stage = "read" /\ DOMAIN x.fetching = {}
  BY DEF ReadersOK, Return
<1>2. reading' = [reading EXCEPT ![r] = q] /\ UNCHANGED <<ends, stored, file, panicked, pastEnd>>
  BY <1>1 DEF Return, ReadersOK
<1>3. ~pastEnd => Serves(x, ends, stored, file)
  BY <1>1 DEF ReadersOK
<1> HIDE DEF x
<1>4. x.failed \in BOOLEAN
  BY <1>1 DEF Reading
<1>5. g \in {"error", "done"} /\ (g = "done" => ~x.failed)
  BY <1>4
<1> HIDE DEF g
<1>6. q \in Reading
  BY <1>1, <1>5 DEF Reading
<1>7. /\ q.off = x.off /\ q.end = x.end /\ q.stage = g /\ q.failed = x.failed
      /\ q.fetching = x.fetching /\ q.got = x.got
  BY <1>1 DEF Reading
<1> HIDE DEF q
<1>8. ~pastEnd' => Serves(q, ends, stored, file)
  BY <1>1, <1>2, <1>3, <1>5, <1>7 DEF Serves
<1>9. QED
  BY <1>2, <1>6, <1>8, OneReader

-----------------------------------------------------------------------------
(* Copy                                                                    *)

\* What a goroutine copies: the part of its data that is left when both sides
\* are cut off.
LEMMA PartOf ==
  ASSUME FileOK, ReadersOK, NEW r \in Readers, NEW b, Running(r, b, "data"), InRange(r, b)
  PROVE  LET d == reading[r].fetching[b].data
             lo == CutLeft(r, b)
             hi == CutRight(r, b)
             part == SubSeq(d, lo + 1, Len(d) - hi)
         IN /\ b \in 1 .. Len(ends) /\ ends[b] \in Nat /\ Start(ends, b) \in Nat
            /\ d \in Strings /\ Len(d) \in Nat
            /\ From(r, b) = IF reading[r].off >= Start(ends, b) THEN reading[r].off
                                                             ELSE Start(ends, b)
            /\ To(r, b) = IF reading[r].end <= ends[b] THEN reading[r].end ELSE ends[b]
            /\ lo \in Nat /\ hi \in Nat /\ part \in Strings
            /\ Len(part) = (Len(d) - hi) - lo /\ Len(part) \in Nat
            /\ \A k \in 1 .. Len(part) : part[k] = d[lo + k]
<1> DEFINE x == reading[r]
           d == x.fetching[b].data
           e == ends[b]
           s == Start(ends, b)
           lo == CutLeft(r, b)
           hi == CutRight(r, b)
           n == Len(d)
           part == SubSeq(d, lo + 1, n - hi)
<1>1. x \in Reading /\ x.off \in Nat /\ x.end \in Nat /\ b \in DOMAIN x.fetching
  BY DEF ReadersOK, Reading, Running
<1>2. b \in Nat \ {0} /\ d \in Strings
  BY <1>1, FetchOf
<1>3. n \in Nat
  BY <1>2, LenProperties DEF Strings
<1>4. b \in 1 .. Len(ends) /\ lo + hi <= n
  BY <1>2, FileLayout DEF InRange
<1>5. \A c \in 1 .. Len(ends) : ends[c] \in Nat
  BY ElementOfSeq DEF FileOK
<1>6. e \in Nat /\ s \in Nat
  <2>1. b # 1 => b - 1 \in 1 .. Len(ends)
    BY <1>4
  <2>2. QED
    BY <1>4, <1>5, <2>1 DEF Start
<1>7. Begin(b) = s
  BY DEF Begin, Start
<1> DEFINE from == From(r, b)
           to == To(r, b)
<1>8. from = IF x.off >= s THEN x.off ELSE s
  BY <1>1, <1>6, <1>7, MaxOfTwo DEF From
<1>9. to = IF x.end <= e THEN x.end ELSE e
  BY <1>1, <1>6, MinOfTwo DEF To
<1>10. lo = from - s /\ hi = e - to
  BY <1>7 DEF CutLeft, CutRight
<1> HIDE DEF x, d, e, s, lo, hi, n, from, to
<1>11. lo \in Nat /\ hi \in Nat
  BY <1>1, <1>6, <1>8, <1>9, <1>10
<1>12. \A i \in lo + 1 .. n - hi : i \in 1 .. n
  BY <1>3, <1>11
<1>13. \A i \in lo + 1 .. n - hi : d[i] \in Byte
  BY <1>2, <1>12, ElementOfSeq DEF Strings, n
<1>14. /\ part \in Seq(Byte)
       /\ Len(part) = IF lo + 1 <= n - hi THEN (n - hi) - (lo + 1) + 1 ELSE 0
       /\ \A k \in 1 .. (n - hi) - (lo + 1) + 1 : part[k] = d[(lo + 1) + k - 1]
  <2>1. lo + 1 \in Int /\ n - hi \in Int
    BY <1>3, <1>11
  <2>2. QED
    BY <1>13, <2>1, SubSeqProperties
<1> DEFINE m == Len(part)
<1>15. m = (n - hi) - lo /\ m \in Nat
  <2>1. m = IF lo + 1 <= n - hi THEN (n - hi) - (lo + 1) + 1 ELSE 0
    BY <1>14
  <2> HIDE DEF m
  <2>2. QED
    BY <1>3, <1>4, <1>11, <2>1
<1>16. \A k \in 1 .. m : part[k] = d[lo + k]
  <2> HIDE DEF m, part
  <2>1. \A k \in 1 .. m : k \in 1 .. (n - hi) - (lo + 1) + 1 /\ (lo + 1) + k - 1 = lo + k
    BY <1>3, <1>11, <1>15
  <2>2. QED
    BY <1>14, <2>1
<1>17. part \in Strings
  BY <1>14 DEF Strings
<1> HIDE DEF part
<1>18. QED
  BY <1>2, <1>3, <1>4, <1>6, <1>8, <1>9, <1>11, <1>15, <1>16, <1>17
     DEF part, x, d, e, s, lo, hi, n, from, to

\* The places that are copied when the chunk overlaps the range: all those of
\* the range that the chunk has.
LEMMA CutPlaces ==
  ASSUME NEW o \in Nat, NEW z \in Nat, NEW s \in Nat, NEW n \in Nat, NEW e \in Nat,
         NEW from \in Nat, NEW to \in Nat, NEW lo \in Nat, NEW hi \in Nat, NEW c \in Nat,
         NEW m \in Int, o <= z, o < e, s <= z, e = s + n,
         from = IF o >= s THEN o ELSE s, to = IF z <= e THEN z ELSE e,
         lo = from - s, hi = e - to, c = (n - hi) - lo, m = IF c <= to - from THEN c ELSE to - from
  PROVE  /\ m = to - from
         /\ \A i \in 1 .. z - o :
              /\ o + i - from \in 1 .. m => lo + (o + i - from) \in 1 .. n
                                           /\ s + (lo + (o + i - from)) = o + i
              /\ s < o + i /\ o + i <= e => o + i - from \in 1 .. m
<1>1. m = to - from
  OBVIOUS
<1>2. ASSUME NEW i \in 1 .. z - o, o + i - from \in 1 .. m
      PROVE  lo + (o + i - from) \in 1 .. n /\ s + (lo + (o + i - from)) = o + i
  BY <1>1, <1>2
<1>3. ASSUME NEW i \in 1 .. z - o, s < o + i, o + i <= e
      PROVE  o + i - from \in 1 .. m
  BY <1>1, <1>3
<1>4. QED
  BY <1>1, <1>2, <1>3

LEMMA CopyKeeps ==
  ASSUME ChunkInv, NEW r \in Readers, NEW b, Copy(r, b)
  PROVE  ReadersOK'
<1> DEFINE x == reading[r]
           d == x.fetching[b].data
           e == ends[b]
           s == Start(ends, b)
           lo == CutLeft(r, b)
           hi == CutRight(r, b)
           n == Len(d)
           part == SubSeq(d, lo + 1, n - hi)
           from == From(r, b)
           to == To(r, b)
           m == Min({Len(part), to - from})
           at(i) == x.off + i - from
           F == Without(x.fetching, b)
           G == [i \in DOMAIN x.got |-> IF at(i) \in 1 .. m THEN part[at(i)] ELSE x.got[i]]
           q == [x EXCEPT !.fetching = F, !.got = G]
<1>1. FileOK /\ ReadersOK /\ x \in Reading /\ x.stage = "read" /\ b \in DOMAIN x.fetching
      /\ Running(r, b, "data") /\ InRange(r, b) /\ x.fetching[b].has = "data"
  BY DEF ChunkInv, StoredInv, ReadersOK, Copy, Running
<1>2. /\ x.off \in Nat /\ x.end \in Nat /\ x.got \in Strings /\ x.fetching \in Fetches
      /\ DOMAIN x.got = 1 .. Len(x.got) /\ Len(x.got) \in Nat
      /\ \A i \in 1 .. Len(x.got) : x.got[i] \in Byte
  <2>1. x.off \in Nat /\ x.end \in Nat /\ x.got \in Strings /\ x.fetching \in Fetches
    BY <1>1 DEF Reading
  <2>2. QED
    BY <2>1, LenProperties, ElementOfSeq DEF Strings
<1>3. /\ b \in 1 .. Len(ends) /\ e \in Nat /\ s \in Nat
      /\ d \in Strings /\ n \in Nat
      /\ from = IF x.off >= s THEN x.off ELSE s
      /\ to = IF x.end <= e THEN x.end ELSE e
      /\ lo \in Nat /\ hi \in Nat /\ part \in Strings
      /\ Len(part) = (n - hi) - lo /\ Len(part) \in Nat
      /\ \A k \in 1 .. Len(part) : part[k] = d[lo + k]
  BY <1>1, PartOf
<1>4. reading' = [reading EXCEPT ![r] = q] /\ UNCHANGED <<ends, stored, file, panicked, pastEnd>>
  BY <1>1 DEF Copy, ReadersOK
<1>5. lo = from - s /\ hi = e - to
  BY DEF CutLeft, CutRight, Begin, Start
<1>6. ~pastEnd => Serves(x, ends, stored, file)
  BY <1>1 DEF ReadersOK
<1>7. Follow(Kept, ends, file) /\ Len(Kept) = Len(ends) /\ Len(ends) \in Nat /\ Kept[b] = stored[b]
  BY <1>1, <1>3, FileLayout
<1> HIDE DEF x, d, e, s, lo, hi, n, part, from, to
<1>8. \A k \in 1 .. Len(part) : part[k] \in Byte
  BY <1>3, ElementOfSeq DEF Strings
<1>9. from \in Nat /\ to \in Nat /\ to - from \in Int
  BY <1>2, <1>3
<1>10. m = IF Len(part) <= to - from THEN Len(part) ELSE to - from
  <2>1. Len(part) \in Int
    BY <1>3
  <2>2. QED
    BY <1>9, <2>1, MinOfTwo
<1> HIDE DEF m
<1>11. m \in Int /\ m <= Len(part)
  BY <1>3, <1>9, <1>10
<1>12. \A i \in 1 .. Len(x.got) : at(i) \in 1 .. m => at(i) \in 1 .. Len(part)
  BY <1>2, <1>3, <1>9, <1>11
<1> DEFINE l == Len(x.got)
<1>13. G \in Strings /\ Len(G) = Len(x.got)
       /\ \A i \in 1 .. Len(x.got) : G[i] = IF at(i) \in 1 .. m THEN part[at(i)] ELSE x.got[i]
  <2>1. l \in Nat /\ DOMAIN x.got = 1 .. l
    BY <1>2
  <2>2. \A i \in 1 .. l : G[i] = IF at(i) \in 1 .. m THEN part[at(i)] ELSE x.got[i]
    BY <2>1
  <2>3. G \in [1 .. l -> Byte]
    <3> DEFINE g(i) == IF at(i) \in 1 .. m THEN part[at(i)] ELSE x.got[i]
    <3>1. \A i \in 1 .. l : g(i) \in Byte
      BY <1>2, <1>8, <1>12
    <3>2. G = [i \in 1 .. l |-> g(i)]
      BY <2>1
    <3> HIDE DEF g, G
    <3>3. QED
      BY <3>1, <3>2
  <2> HIDE DEF l, G
  <2>4. G \in Seq(Byte) /\ Len(G) = l
    BY <2>1, <2>3
  <2>5. QED
    BY <2>2, <2>4 DEF l, Strings
<1> HIDE DEF l
<1>14. /\ F \in Fetches /\ DOMAIN F = DOMAIN x.fetching \ {b}
       /\ \A c \in DOMAIN F : F[c] = x.fetching[c]
  BY <1>2, WithoutTyped
<1> HIDE DEF F, G
<1>15. q \in Reading
  BY <1>1, <1>13, <1>14 DEF Reading
<1>16. /\ q.off = x.off /\ q.end = x.end /\ q.stage = "read" /\ q.failed = x.failed
       /\ q.fetching = F /\ q.got = G
  BY <1>1 DEF Reading
<1> HIDE DEF q
<1>17. ASSUME ~pastEnd PROVE Serves(q, ends, stored, file)
  <2>1. Serves(x, ends, stored, file)
    BY <1>6, <1>17
  <2>2. /\ x.off <= x.end /\ x.end <= Len(file) /\ Len(x.got) = x.end - x.off
        /\ x.off < e /\ s <= x.end /\ d = stored[b]
    <3>1. b \in DOMAIN x.fetching /\ x.fetching[b].has # "nothing"
      BY <1>1
    <3>2. QED
      BY <2>1, <3>1 DEF Serves, e, s, d
  <2>3. /\ e = s + n /\ \A j \in 1 .. n : file[s + j] = d[j]
    <3>1. b \in 1 .. Len(Kept)
      BY <1>3, <1>7
    <3>2. /\ ends[b] = Start(ends, b) + Len(Kept[b])
          /\ \A j \in 1 .. Len(Kept[b]) : file[Start(ends, b) + j] = Kept[b][j]
      BY <1>7, <3>1 DEF Follow
    <3>3. Kept[b] = d
      BY <1>7, <2>2
    <3>4. QED
      BY <3>2, <3>3 DEF e, s, n
  <2>4. /\ m = to - from
        /\ \A i \in 1 .. x.end - x.off :
             /\ at(i) \in 1 .. m => lo + at(i) \in 1 .. n /\ s + (lo + at(i)) = x.off + i
             /\ s < x.off + i /\ x.off + i <= e => at(i) \in 1 .. m
    <3>1. lo \in Nat /\ hi \in Nat /\ Len(part) \in Nat /\ Len(part) = (n - hi) - lo
      BY <1>3
    <3>2. x.off \in Nat /\ x.end \in Nat /\ x.off <= x.end /\ x.off < e /\ s <= x.end
      BY <1>2, <2>2
    <3>3. s \in Nat /\ n \in Nat /\ e \in Nat /\ e = s + n
      BY <1>3, <2>3
    <3>4. from = (IF x.off >= s THEN x.off ELSE s) /\ to = (IF x.end <= e THEN x.end ELSE e)
      BY <1>3
    <3> DEFINE o == x.off
               z == x.end
               c == Len(part)
    <3>5. /\ o \in Nat /\ z \in Nat /\ c \in Nat /\ c = (n - hi) - lo
          /\ o <= z /\ o < e /\ s <= z
          /\ from = (IF o >= s THEN o ELSE s) /\ to = (IF z <= e THEN z ELSE e)
          /\ m = (IF c <= to - from THEN c ELSE to - from)
      BY <1>10, <3>1, <3>2, <3>4
    <3> HIDE DEF o, z, c
    <3>6. /\ m = to - from
          /\ \A i \in 1 .. z - o :
               /\ o + i - from \in 1 .. m => lo + (o + i - from) \in 1 .. n
                                            /\ s + (lo + (o + i - from)) = o + i
               /\ s < o + i /\ o + i <= e => o + i - from \in 1 .. m
      BY <1>5, <1>9, <1>11, <3>1, <3>3, <3>5, CutPlaces
    <3>7. QED
      BY <3>6 DEF o, z
  <2>5. ASSUME NEW i \in 1 .. x.end - x.off, at(i) \in 1 .. m
        PROVE  G[i] = file[x.off + i]
    <3>1. i \in 1 .. Len(x.got)
      BY <2>2
    <3>2. G[i] = part[at(i)]
      BY <1>13, <2>5, <3>1
    <3>3. part[at(i)] = d[lo + at(i)]
      BY <1>3, <1>12, <2>5, <3>1
    <3>4. lo + at(i) \in 1 .. n /\ s + (lo + at(i)) = x.off + i
      BY <2>4, <2>5
    <3>5. QED
      BY <2>3, <3>2, <3>3, <3>4
  <2>6. ASSUME NEW i \in 1 .. x.end - x.off, s < x.off + i, x.off + i <= e
        PROVE  at(i) \in 1 .. m
    BY <2>4, <2>6
  <2>7. ASSUME ~q.failed, NEW i \in 1 .. q.end - q.off
        PROVE  \/ \E c \in DOMAIN F : Start(ends, c) < q.off + i /\ q.off + i <= ends[c]
               \/ G[i] = file[q.off + i]
    <3>1. i \in 1 .. x.end - x.off /\ ~x.failed /\ q.off = x.off
      BY <1>16, <2>7
    <3>2. CASE at(i) \in 1 .. m
      BY <2>5, <3>1, <3>2
    <3>3. CASE ~(at(i) \in 1 .. m)
      <4>1. CASE \E c \in DOMAIN x.fetching : Start(ends, c) < x.off + i /\ x.off + i <= ends[c]
        <5>1. PICK c \in DOMAIN x.fetching : Start(ends, c) < x.off + i /\ x.off + i <= ends[c]
          BY <4>1
        <5>2. c # b
          BY <2>6, <3>1, <3>3, <5>1 DEF s, e
        <5>3. QED
          BY <1>14, <3>1, <5>1, <5>2
      <4>2. CASE x.got[i] = file[x.off + i]
        <5>1. i \in 1 .. Len(x.got)
          BY <2>2, <3>1
        <5>2. G[i] = x.got[i]
          BY <1>13, <3>3, <5>1
        <5>3. QED
          BY <3>1, <4>2, <5>2
      <4>3. QED
        BY <2>1, <3>1, <4>1, <4>2 DEF Serves
    <3>4. QED
      BY <3>2, <3>3
  <2>8. \A c \in DOMAIN F :
          /\ c \in 1 .. Len(ends) /\ q.off < ends[c] /\ Start(ends, c) <= q.end
          /\ F[c].has # "nothing" => F[c].data = stored[c]
    BY <1>14, <1>16, <2>1 DEF Serves
  <2>9. QED
    BY <1>13, <1>16, <2>2, <2>7, <2>8 DEF Serves
<1>18. QED
  BY <1>1, <1>4, <1>15, <1>17, OneReader

\* An index is out of range only after somebody has read past the end.
LEMMA PanicPastEnd ==
  ASSUME ChunkInv, NEW r \in Readers, NEW b, Panic(r, b)
  PROVE  pastEnd
<1> SUFFICES ASSUME ~pastEnd PROVE FALSE
  OBVIOUS
<1> DEFINE x == reading[r]
           d == x.fetching[b].data
           e == ends[b]
           s == Start(ends, b)
           n == Len(d)
           from == From(r, b)
           to == To(r, b)
<1>1. FileOK /\ ReadersOK /\ x \in Reading /\ x.stage = "read" /\ b \in DOMAIN x.fetching
      /\ x.fetching[b].has = "data" /\ ~InRange(r, b)
  BY DEF ChunkInv, StoredInv, ReadersOK, Panic, Running
<1>2. x.off \in Nat /\ x.end \in Nat
  BY <1>1 DEF Reading
<1>3. /\ x.off <= x.end /\ b \in 1 .. Len(ends) /\ x.off < e /\ s <= x.end /\ d = stored[b]
  BY <1>1 DEF ReadersOK, Serves
<1>4. Follow(Kept, ends, file) /\ Len(Kept) = Len(ends) /\ Len(ends) \in Nat /\ Kept[b] = stored[b]
      /\ stored[b] \in Chunks /\ ends \in Seq(Nat)
  BY <1>1, <1>3, FileLayout DEF FileOK
<1>5. n \in Nat /\ e \in Nat
  BY <1>3, <1>4, LenProperties, ElementOfSeq DEF Chunks, Strings
<1>6. s \in Nat /\ e = s + n
  BY <1>3, <1>4 DEF Follow
<1>7. Begin(b) = s
  BY DEF Begin, Start
<1>8. from = IF x.off >= s THEN x.off ELSE s
  BY <1>2, <1>6, <1>7, MaxOfTwo DEF From
<1>9. to = IF x.end <= e THEN x.end ELSE e
  BY <1>2, <1>5, MinOfTwo DEF To
<1>10. (from - s) + (e - to) <= n
  <2> HIDE DEF x, e, s, n, from, to
  <2>1. QED
    BY <1>2, <1>3, <1>5, <1>6, <1>8, <1>9
<1>11. InRange(r, b)
  <2>1. b <= Len(ends)
    BY <1>3, <1>4
  <2>2. QED
    BY <1>7, <1>10, <2>1 DEF InRange, CutLeft, CutRight
<1>12. QED
  BY <1>1, <1>11

-----------------------------------------------------------------------------
(* Reads and the cache                                                     *)

\* A step of a reader that leaves the cache alone.
LEMMA CacheUnchanged ==
  ASSUME CacheOK, UNCHANGED <<lru, ends, stored>>, pastEnd => pastEnd'
  PROVE  CacheOK'
<1>1. Weight(lru') = Weight(lru)
  BY DEF Weight
<1>2. QED
  BY <1>1 DEF CacheOK, OneOfEach

LEMMA NextChunk == ChunkInv /\ [Next]_vars => ChunkInv'
<1> SUFFICES ASSUME ChunkInv, [Next]_vars PROVE ChunkInv'
  OBVIOUS
<1>0. StoredInv /\ StoredInv' /\ CacheOK /\ ReadersOK
  BY NextStored DEF ChunkInv
<1>1. CASE UNCHANGED vars
  <2>1. UNCHANGED <<stored, ends, lru, reading, panicked, file, pastEnd>>
    BY <1>1 DEF vars
  <2>2. CacheOK'
    BY <1>0, <2>1, CacheUnchanged
  <2>3. ReadersOK'
    BY <1>0, <2>1 DEF ReadersOK
  <2>4. QED
    BY <1>0, <2>2, <2>3 DEF ChunkInv
<1>2. ASSUME NEW w \in Writers,
             \/ \E bytes \in Payloads : CallWriteAt(w, bytes)
             \/ Lock(w)
             \/ Put(w)
             \/ FailPut(w)
             \/ Publish(w)
      PROVE  ChunkInv'
  <2>1. Grows
    BY <1>0, <1>2, NextGrows
  <2>2. UNCHANGED <<lru, reading, panicked, pastEnd>>
    BY <1>2 DEF CallWriteAt, Lock, Put, FailPut, Publish
  <2>3. QED
    BY <1>0, <2>1, <2>2, GrowsKeeps DEF ChunkInv
<1>3. ASSUME NEW r \in Readers, NEW off \in 0 .. Total, NEW end \in off .. Total + 1,
             CallReadAt(r, off, end)
      PROVE  ChunkInv'
  <2>1. ReadersOK'
    BY <1>3, CallKeeps
  <2>2. UNCHANGED <<lru, ends, stored>> /\ (pastEnd => pastEnd')
    BY <1>3, Zenon DEF CallReadAt
  <2>3. CacheOK'
    BY <1>0, <2>2, CacheUnchanged
  <2>4. QED
    BY <1>0, <2>1, <2>3 DEF ChunkInv
<1>4. ASSUME NEW r \in Readers, Return(r) PROVE ChunkInv'
  <2>1. ReadersOK'
    BY <1>0, <1>4, ReturnKeeps
  <2>2. UNCHANGED <<lru, ends, stored, pastEnd>>
    BY <1>4 DEF Return
  <2>3. CacheOK'
    BY <1>0, <2>2, CacheUnchanged
  <2>4. QED
    BY <1>0, <2>1, <2>3 DEF ChunkInv
<1>5. ASSUME NEW r \in Readers, NEW b, Hit(r, b) \/ Get(r, b) \/ FailGet(r, b) \/ Copy(r, b)
      PROVE  ChunkInv'
  <2>1. ReadersOK'
    BY <1>0, <1>5, FetchKeeps, FailKeeps, CopyKeeps
  <2>2. UNCHANGED <<lru, ends, stored, pastEnd>>
    BY <1>5 DEF Hit, Get, FailGet, Copy
  <2>3. CacheOK'
    BY <1>0, <2>2, CacheUnchanged
  <2>4. QED
    BY <1>0, <2>1, <2>3 DEF ChunkInv
<1>6. ASSUME NEW r \in Readers, NEW b, AddToCache(r, b) PROVE ChunkInv'
  BY <1>0, <1>6, AddKeeps DEF ChunkInv
<1>7. ASSUME NEW r \in Readers, NEW b, Panic(r, b) PROVE ChunkInv'
  <2>1. pastEnd
    BY <1>7, PanicPastEnd
  <2>2. UNCHANGED <<lru, reading, ends, stored, file, pastEnd>>
    BY <1>7 DEF Panic
  <2>3. CacheOK'
    BY <1>0, <2>2, CacheUnchanged
  <2>4. ReadersOK'
    BY <1>0, <2>1, <2>2 DEF ReadersOK
  <2>5. QED
    BY <1>0, <2>3, <2>4 DEF ChunkInv
<1>8. CASE ~panicked /\ Restart
  <2>1. lru' = << >> /\ reading' = [r \in Readers |-> NotReading] /\ ~panicked'
        /\ pastEnd' = pastEnd
    BY <1>8 DEF Restart
  <2>2. CacheOK'
    <3>1. << >> \in Seq(Entry) /\ Len(<< >>) = 0
      BY EmptySeq
    <3>2. [i \in DOMAIN << >> |-> << >>[i].data] = << >>
      OBVIOUS
    <3>3. Weight(<< >>) = 0
      BY <3>2, BytesOfNone DEF Weight
    <3>4. QED
      BY <2>1, <3>1, <3>3, ChunkAppenderAssumption DEF CacheOK, OneOfEach
  <2>3. ReadersOK'
    BY <2>1, NotReadingTyped DEF ReadersOK, NotReading
  <2>4. QED
    BY <1>0, <2>2, <2>3 DEF ChunkInv
<1>9. QED
  BY <1>1, <1>2, <1>3, <1>4, <1>5, <1>6, <1>7, <1>8 DEF Next

THEOREM ChunkInvariant == Spec => []ChunkInv
BY InitChunk, NextChunk, PTL DEF Spec

\* The cache keeps its limits, has a chunk once, and has of it what is stored
\* (WeightCache.Add, c.read), as long as nobody has read past the end.
THEOREM CacheHasStored == Spec => []CacheIsSound
<1>1. ChunkInv => CacheIsSound
  <2> SUFFICES ASSUME ChunkInv PROVE CacheIsSound
    OBVIOUS
  <2>1. CacheOK
    BY DEF ChunkInv
  <2>2. DOMAIN lru = 1 .. Len(lru)
    BY <2>1, LenProperties DEF CacheOK
  <2>3. ASSUME ~pastEnd, NEW e \in Range(lru) PROVE stored[e.chunk] = e.data
    <3>1. PICK i \in 1 .. Len(lru) : e = lru[i]
      BY <2>2 DEF Range
    <3>2. QED
      BY <2>1, <2>3, <3>1 DEF CacheOK
  <2>4. QED
    BY <2>1, <2>2, <2>3 DEF CacheOK, OneOfEach, CacheIsSound
<1>2. QED
  BY <1>1, ChunkInvariant, PTL

\* A read without an error has the bytes of the file in the range it was called
\* for, although its goroutines ran beside writes, evictions, failing writes and
\* each other (ReadAt), as long as nobody has read past the end.
THEOREM ReadsHaveFileBytes == Spec => []ReadsAreFileBytes
<1>1. ChunkInv => ReadsAreFileBytes
  <2> SUFFICES ASSUME ChunkInv, NEW r \in Readers, reading[r].stage = "done", ~pastEnd
               PROVE  reading[r].got = SubSeq(file, reading[r].off + 1, reading[r].end)
    BY DEF ReadsAreFileBytes
  <2> DEFINE q == reading[r]
             part == SubSeq(file, q.off + 1, q.end)
  <2>1. Serves(q, ends, stored, file) /\ q \in Reading
    BY DEF ChunkInv, ReadersOK
  <2>2. file \in Strings /\ Len(file) \in Nat
    BY FileLayout DEF ChunkInv, StoredInv
  <2>3. /\ q.off \in Nat /\ q.end \in Nat /\ q.got \in Strings
        /\ q.off <= q.end /\ q.end <= Len(file) /\ Len(q.got) = q.end - q.off
        /\ \A i \in 1 .. q.end - q.off : q.got[i] = file[q.off + i]
    BY <2>1 DEF Serves, Reading
  <2> HIDE DEF q
  <2>4. \A i \in q.off + 1 .. q.end : i \in 1 .. Len(file)
    BY <2>2, <2>3
  <2>5. \A i \in q.off + 1 .. q.end : file[i] \in Byte
    BY <2>2, <2>4, ElementOfSeq DEF Strings
  <2> DEFINE o == q.off
             z == q.end
  <2>6. o \in Nat /\ z \in Nat /\ o <= z
    BY <2>3
  <2> HIDE DEF o, z
  <2>7. /\ SubSeq(file, o + 1, z) \in Seq(Byte) /\ Len(SubSeq(file, o + 1, z)) = z - o
        /\ \A i \in 1 .. z - o : SubSeq(file, o + 1, z)[i] = file[o + i]
    <3>1. o + 1 \in Int /\ z \in Int /\ \A i \in o + 1 .. z : file[i] \in Byte
      BY <2>5, <2>6 DEF o, z
    <3> DEFINE p == SubSeq(file, o + 1, z)
    <3>2. /\ p \in Seq(Byte) /\ Len(p) = IF o + 1 <= z THEN z - (o + 1) + 1 ELSE 0
          /\ \A i \in 1 .. z - (o + 1) + 1 : p[i] = file[(o + 1) + i - 1]
      BY <3>1, SubSeqProperties
    <3> DEFINE m == Len(p)
    <3>3. m = IF o + 1 <= z THEN z - (o + 1) + 1 ELSE 0
      BY <3>2
    <3> HIDE DEF p, m
    <3>4. m = z - o
      BY <2>6, <3>3
    <3>5. \A i \in 1 .. z - o : i \in 1 .. z - (o + 1) + 1 /\ (o + 1) + i - 1 = o + i
      BY <2>6
    <3>6. p \in Seq(Byte) /\ Len(p) = z - o /\ \A i \in 1 .. z - o : p[i] = file[o + i]
      BY <3>2, <3>4, <3>5 DEF m
    <3>7. QED
      BY <3>6 DEF p
  <2>8. /\ part \in Seq(Byte) /\ q.got \in Seq(Byte) /\ Len(q.got) = Len(part)
        /\ \A i \in 1 .. Len(q.got) : q.got[i] = part[i]
    BY <2>3, <2>7 DEF o, z, Strings
  <2> HIDE DEF part
  <2>9. q.got = part
    BY <2>8, SeqEqual
  <2>10. QED
    BY <2>9 DEF q, part
<1>2. QED
  BY <1>1, ChunkInvariant, PTL

\* c2b, b2c and the cuts stay within the slices (ReadAt) unless a range is asked
\* for that begins at the end of the file or goes past it.
THEOREM PanicsPastEndOnly == Spec => [](panicked => pastEnd)
<1>1. ChunkInv => (panicked => pastEnd)
  BY DEF ChunkInv, ReadersOK
<1>2. QED
  BY <1>1, ChunkInvariant, PTL

=============================================================================
