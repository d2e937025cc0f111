---------------------------- MODULE ManagerProofs ----------------------------
(***************************************************************************)
(* Theorems about the sector manager, for any number of data and parity    *)
(* sectors per set, any contracts and values, any channel capacity and any *)
(* bounds.  In the order of the file: the types; that sector ids are       *)
(* unique and stay apart; that no parity set is uploaded twice at a time   *)
(* and none is forgotten; that no two sectors of a set go to one contract, *)
(* no content is lost or overwritten, parity matches data, every filled    *)
(* sector is in one list, and any Nparity contracts can be lost.           *)
(***************************************************************************)
EXTENDS Manager, SequenceTheorems, FiniteSetTheorems, TLAPS

SetRecords(n) == [data : Seq(1 .. n), parity : Seq(1 .. n)]

\* Lists and sets that name sectors 1 .. n name sectors 1 .. m as well.
LEMMA SeqWidens ==
  ASSUME NEW n \in Nat, NEW m \in Nat, n <= m
  PROVE  /\ \A q \in Seq(1 .. n) : q \in Seq(1 .. m)
         /\ \A ss \in Seq(SetRecords(n)) : ss \in Seq(SetRecords(m))
<1>1. \A q \in Seq(1 .. n) : q \in Seq(1 .. m)
  <2>1. 1 .. n \subseteq 1 .. m
    OBVIOUS
  <2>2. QED
    BY <2>1, SeqMonotonic
<1>2. SetRecords(n) \subseteq SetRecords(m)
  BY <1>1 DEF SetRecords
<1>3. QED
  BY <1>1, <1>2, SeqMonotonic

\* A function on 1 .. n is a sequence.
LEMMA FunctionIsSeq ==
  ASSUME NEW S, NEW n \in Nat, NEW f \in [1 .. n -> S]
  PROVE  f \in Seq(S) /\ Len(f) = n
<1>1. f \in Seq(S)
  BY SeqDef
<1>2. QED
  BY <1>1, LenProperties

\* The ids of a set are ids of sectors.
LEMMA IdsTyped ==
  ASSUME NEW n \in Nat, NEW set \in SetRecords(n)
  PROVE  Ids(set) \subseteq 1 .. n
<1>1. set.data \in Seq(1 .. n) /\ set.parity \in Seq(1 .. n)
  BY DEF SetRecords
<1>2. QED
  BY <1>1 DEF Ids, Range

\* What forming a set does to a well-formed database: ids 1 .. next - 1 and
\* the existing sets stay as they are, the new set has sectors without
\* contracts, and sectors, sets and pending fit together as before; the
\* parity sectors are new, encode the data sectors of the set, and what was
\* pending stays so or is in the set.
LEMMA FormedSet ==
  ASSUME ManagerAssumption,
         next \in Nat \ {0},
         DbOK(next - 1, sectors, sets, pending),
         Placed(sectors, sets, pending),
         retrying \in Seq(Nat), Len(retrying) = Len(sets),
         FormParitySet
  PROVE  /\ next' \in Nat \ {0}
         /\ next <= next'
         /\ DbOK(next' - 1, sectors', sets', pending')
         /\ Placed(sectors', sets', pending')
         /\ \A i \in 1 .. next - 1 : sectors'[i] = sectors[i]
         /\ SetIds' = SetIds \cup {Len(sets')}
         /\ Len(sets') = Len(sets) + 1
         /\ \A j \in SetIds : sets'[j] = sets[j]
         /\ \A i \in Ids(sets'[Len(sets')]) : sectors'[i].contract = NoContract
         /\ \A i \in Ids(sets'[Len(sets')]), j \in SetIds : i \notin InSet(j)
         /\ SetOK(sectors', sets'[Len(sets')])
         /\ \A i \in next .. next' - 1 : /\ i \in Ids(sets'[Len(sets')])
                                        /\ sectors'[i].data \in Contents
                                        /\ sectors'[i].contract = NoContract
                                        /\ sectors'[i].root = NoRoot
         /\ Range(pending) \subseteq Range(pending') \cup Ids(sets'[Len(sets')])
         /\ retrying' \in Seq(Nat)
         /\ Len(retrying') = Len(sets')
         /\ \A j \in DOMAIN retrying : retrying'[j] = retrying[j]
         /\ retrying'[Len(sets')] = 0
<1> DEFINE n == IF Ndata > Len(pending) THEN Len(pending) ELSE Ndata
           ids == SubSeq(pending, 1, n)
           datas == [k \in 1 .. n |-> sectors[ids[k]].data]
           parity == [k \in 1 .. Nparity |-> next + k - 1]
           new == [data |-> ids, parity |-> parity]
           N == next - 1
           M == next' - 1
<1>0. /\ Ndata \in Nat \ {0} /\ Nparity \in Nat
      /\ NoData \notin Contents
  BY DEF ManagerAssumption
<1>1. /\ pending' = SubSeq(pending, n + 1, Len(pending))
      /\ sets' = Append(sets, new)
      /\ sectors' = [i \in DOMAIN sectors \cup Range(parity) |->
                       IF i < next THEN sectors[i] ELSE ParitySector(i, datas)]
      /\ next' = next + Nparity
      /\ retrying' = Append(retrying, 0)
  BY DEF FormParitySet, AfterGroup
<1>2. /\ sectors \in [1 .. N -> Sector]
      /\ sets \in Seq(SetRecords(N))
      /\ pending \in Seq(1 .. N)
  BY DEF DbOK, SetRecords
<1>3. N \in Nat /\ M \in Nat /\ N <= M /\ M = N + Nparity
  BY <1>0, <1>1
<1>4. n \in 0 .. Len(pending)
  BY <1>0, <1>2
<1> HIDE DEF n
<1>5. /\ ids \in Seq(1 .. N)
      /\ Len(ids) = n
      /\ \A k \in 1 .. n : ids[k] = pending[k]
  <2>1. \A k \in 1 .. n : pending[k] \in 1 .. N
    BY <1>2, <1>4, ElementOfSeq
  <2> DEFINE P == 1 .. N
  <2> HIDE DEF P
  <2>2. \A k \in 1 .. n : pending[k] \in P
    BY <2>1 DEF P
  <2>3. n \in Int /\ 1 \in Int
    BY <1>4
  <2>4. /\ ids \in Seq(P)
        /\ Len(ids) = IF 1 <= n THEN n - 1 + 1 ELSE 0
        /\ \A k \in 1 .. n - 1 + 1 : ids[k] = pending[1 + k - 1]
    BY ONLY <2>2, <2>3, SubSeqProperties
  <2>5. QED
    BY <2>4, <2>3, <1>4 DEF P
<1>6. /\ pending' \in Seq(1 .. N)
      /\ Len(pending') = Len(pending) - n
      /\ \A k \in 1 .. Len(pending') : pending'[k] = pending[n + k]
  <2>1. \A k \in n + 1 .. Len(pending) : pending[k] \in 1 .. N
    BY <1>2, <1>4, ElementOfSeq
  <2> DEFINE P == 1 .. N
  <2> HIDE DEF P
  <2>2. \A k \in n + 1 .. Len(pending) : pending[k] \in P
    BY <2>1 DEF P
  <2>3. n + 1 \in Int /\ Len(pending) \in Int
    BY <1>4, <1>2
  <2>4. /\ pending' \in Seq(P)
        /\ Len(pending') = IF n + 1 <= Len(pending)
                             THEN Len(pending) - (n + 1) + 1 ELSE 0
        /\ \A k \in 1 .. Len(pending) - (n + 1) + 1 :
             pending'[k] = pending[n + 1 + k - 1]
    BY ONLY <2>2, <2>3, <1>1, SubSeqProperties
  <2>5. n \in Int /\ Len(pending) \in Int /\ n <= Len(pending)
    BY <1>4, <1>2
  <2>6. Len(pending') = Len(pending) - n
    BY ONLY <2>4, <2>5
  <2>7. ASSUME NEW k \in 1 .. Len(pending')
        PROVE  pending'[k] = pending[n + k]
    <3>1. k \in 1 .. Len(pending) - (n + 1) + 1 /\ n + 1 + k - 1 = n + k
      BY ONLY <2>5, <2>6, k \in 1 .. Len(pending')
    <3>2. QED
      BY ONLY <3>1, <2>4
  <2>8. QED
    BY <2>4, <2>6, <2>7 DEF P
<1>7. /\ Range(parity) = next .. M
      /\ parity \in Seq(1 .. M)
  <2>1. Range(parity) = next .. M
    <3>1. \A x \in next .. M : x - next + 1 \in 1 .. Nparity /\ parity[x - next + 1] = x
      BY <1>0, <1>1
    <3>2. \A x \in Range(parity) : x \in next .. M
      BY <1>0, <1>1 DEF Range
    <3>3. QED
      BY <3>1, <3>2 DEF Range
  <2>2. parity \in [1 .. Nparity -> 1 .. M]
    BY <1>0, <1>1, <1>3
  <2>3. QED
    BY <2>1, <2>2, <1>0, FunctionIsSeq
<1>8. datas \in Seq(Values)
  <2>1. \A k \in 1 .. n : sectors[pending[k]].data \in Values
    BY <1>2, <1>4 DEF Placed
  <2>2. datas \in [1 .. n -> Values]
    BY <2>1, <1>5
  <2>3. QED
    BY <2>2, <1>4, FunctionIsSeq
<1>9. new \in SetRecords(M)
  <2>1. ids \in Seq(1 .. M)
    BY <1>3, <1>5, SeqWidens
  <2>2. QED
    BY <2>1, <1>7 DEF SetRecords
<1>10. /\ sets' \in Seq(SetRecords(M))
       /\ Len(sets') = Len(sets) + 1
       /\ DOMAIN sets' = DOMAIN sets \cup {Len(sets')}
       /\ \A j \in DOMAIN sets : sets'[j] = sets[j]
       /\ sets'[Len(sets')] = new
  <2>1. sets \in Seq(SetRecords(M))
    BY <1>2, <1>3, SeqWidens
  <2> HIDE DEF new, M
  <2>2. QED
    BY <2>1, <1>9, <1>1, AppendProperties, LenProperties
<1>11. /\ retrying' \in Seq(Nat)
       /\ Len(retrying') = Len(sets')
       /\ \A j \in DOMAIN retrying : retrying'[j] = retrying[j]
       /\ retrying'[Len(sets')] = 0
  BY <1>1, <1>10, AppendProperties, LenProperties
<1>12. /\ sectors' \in [1 .. M -> Sector]
       /\ \A i \in 1 .. N : sectors'[i] = sectors[i]
       /\ \A i \in next .. M : /\ sectors'[i].contract = NoContract
                              /\ sectors'[i].data \in Contents
                              /\ sectors'[i].root = NoRoot
                              /\ sectors'[i].data = Encode(i - next + 1, datas)
  <2>1. DOMAIN sectors \cup Range(parity) = 1 .. M
    <3>1. DOMAIN sectors = 1 .. next - 1 /\ Range(parity) = next .. M
      BY <1>2, <1>7
    <3>2. next \in Nat \ {0} /\ M \in Nat /\ next - 1 <= M
      BY <1>3
    <3> HIDE DEF parity, M
    <3>3. QED
      BY <3>1, <3>2
  <2>2. \A i \in next .. M :
          /\ ParitySector(i, datas) \in Sector
          /\ ParitySector(i, datas).contract = NoContract
          /\ ParitySector(i, datas).data \in Contents
          /\ ParitySector(i, datas).root = NoRoot
          /\ ParitySector(i, datas).data = Encode(i - next + 1, datas)
    <3> HIDE DEF datas
    <3> SUFFICES ASSUME NEW i \in next .. M
                 PROVE  /\ ParitySector(i, datas) \in Sector
                        /\ ParitySector(i, datas).contract = NoContract
                        /\ ParitySector(i, datas).data \in Contents
                        /\ ParitySector(i, datas).root = NoRoot
                        /\ ParitySector(i, datas).data = Encode(i - next + 1, datas)
      OBVIOUS
    <3>1. i - next + 1 \in 1 .. Nparity
      BY <1>0, <1>1
    <3>2. Encode(i - next + 1, datas) \in Contents
      BY <3>1, <1>8 DEF Encode, Contents
    <3>3. ParitySector(i, datas) =
            [data |-> Encode(i - next + 1, datas), contract |-> NoContract,
             root |-> NoRoot]
      BY DEF ParitySector
    <3>4. QED
      BY <3>2, <3>3 DEF Sector
  <2> DEFINE Shard(i) == ParitySector(i, datas)
  <2>3. \A i \in next .. M : Shard(i) \in Sector
                           /\ Shard(i).contract = NoContract
                           /\ Shard(i).data \in Contents
                           /\ Shard(i).root = NoRoot
                           /\ Shard(i).data = Encode(i - next + 1, datas)
    BY <2>2
  <2>4. sectors' = [i \in 1 .. M |-> IF i < next THEN sectors[i] ELSE Shard(i)]
    BY <1>1, <2>1
  <2> HIDE DEF Shard, datas
  <2>5. QED
    BY <1>2, <1>3, <2>3, <2>4
<1>13. Range(ids) = {pending[k] : k \in 1 .. n} /\ Ids(new) = Range(ids) \cup (next .. M)
  <2>1. DOMAIN ids = 1 .. n
    BY <1>5, LenProperties
  <2>2. Range(ids) = {pending[k] : k \in 1 .. n}
    <3> HIDE DEF ids
    <3>1. QED
      BY <2>1, <1>5 DEF Range
  <2>3. Ids(new) = Range(ids) \cup Range(parity)
    BY DEF Ids
  <2>4. QED
    BY <2>2, <2>3, <1>7
<1>14. \A i \in Ids(new) : sectors'[i].contract = NoContract /\ ~IsEmpty(sectors'[i])
  <2>1. \A k \in 1 .. n : /\ pending[k] \in 1 .. N
                         /\ sectors[pending[k]].data \in Contents
                         /\ sectors[pending[k]].contract = NoContract
    BY <1>2, <1>4 DEF Placed, Contents
  <2> HIDE DEF new, ids, parity, datas
  <2>2. QED
    BY <2>1, <1>0, <1>12, <1>13 DEF IsEmpty
<1>15. \A i \in Ids(new), j \in SetIds : i \notin InSet(j)
  <2>1. \A j \in SetIds : InSet(j) \subseteq 1 .. N
    BY <1>2, <1>3, IdsTyped DEF SetIds, InSet
  <2>2. \A k \in 1 .. n, j \in SetIds : pending[k] \notin InSet(j)
    BY <1>2, <1>4 DEF Placed, SetIds, InSet
  <2> HIDE DEF new, ids, parity, datas
  <2>3. QED
    BY <2>1, <2>2, <1>13, <1>3
<1>16. Placed(sectors', sets', pending')
  <2> HIDE DEF new, ids, parity, datas
  <2>0. \A k \in DOMAIN pending' :
          /\ n + k \in DOMAIN pending
          /\ n + k \notin 1 .. n
          /\ pending'[k] = pending[n + k]
          /\ pending'[k] \in 1 .. N
    <3> SUFFICES ASSUME NEW k \in DOMAIN pending'
                 PROVE  /\ n + k \in DOMAIN pending
                        /\ n + k \notin 1 .. n
                        /\ pending'[k] = pending[n + k]
                        /\ pending'[k] \in 1 .. N
      OBVIOUS
    <3>1. DOMAIN pending = 1 .. Len(pending) /\ Len(pending) \in Nat
      BY <1>2, LenProperties
    <3>2. DOMAIN pending' = 1 .. Len(pending) - n
      BY <1>6, LenProperties
    <3>3. n + k \in 1 .. Len(pending) /\ n + k \notin 1 .. n
      BY <3>1, <3>2, <1>4
    <3>4. pending'[k] = pending[n + k]
      BY <3>2, <1>6
    <3>5. QED
      BY <3>1, <3>3, <3>4, <1>2, ElementOfSeq
  <2>1. \A k, l \in DOMAIN pending' : pending'[k] = pending'[l] => k = l
    BY <2>0, <1>4, <1>6 DEF Placed
  <2>2. ASSUME NEW k \in DOMAIN pending'
        PROVE  /\ sectors'[pending'[k]].data \in Values
               /\ sectors'[pending'[k]].contract = NoContract
               /\ \A j \in DOMAIN sets' : pending'[k] \notin Ids(sets'[j])
    <3>0. pending'[k] = pending[n + k] /\ pending[n + k] \in 1 .. N
          /\ n + k \in DOMAIN pending
      BY <2>0
    <3>1. /\ sectors'[pending'[k]] = sectors[pending[n + k]]
          /\ sectors[pending[n + k]].data \in Values
          /\ sectors[pending[n + k]].contract = NoContract
          /\ \A j \in DOMAIN sets : pending[n + k] \notin Ids(sets[j])
      BY <3>0, <1>12 DEF Placed
    <3>2. pending'[k] \notin Ids(new)
      <4>1. \A l \in 1 .. n : pending[l] # pending[n + k]
        <5>1. \A l \in 1 .. n : l \in DOMAIN pending /\ l # n + k
          BY <2>0, <1>4, <1>2, LenProperties
        <5>2. QED
          BY <5>1, <3>0 DEF Placed
      <4>2. QED
        BY <4>1, <2>0, <1>13, <1>3
    <3>3. QED
      BY <3>1, <3>2, <2>0, <1>10
  <2>3. \A j \in DOMAIN sets' : \A i \in Ids(sets'[j]) : ~IsEmpty(sectors'[i])
    <3>1. \A j \in DOMAIN sets : \A i \in Ids(sets[j]) :
            i \in 1 .. N /\ ~IsEmpty(sectors[i])
      BY <1>2, <1>3, IdsTyped DEF Placed
    <3>2. QED
      BY <3>1, <1>10, <1>12, <1>14
  <2>4. \A j, l \in DOMAIN sets' : j # l => Ids(sets'[j]) \cap Ids(sets'[l]) = {}
    BY <1>10, <1>15 DEF Placed, SetIds, InSet
  <2>5. QED
    BY <2>1, <2>2, <2>3, <2>4 DEF Placed
<1>17. DbOK(M, sectors', sets', pending')
  BY <1>3, <1>6, <1>10, <1>12, SeqWidens DEF DbOK, SetRecords
<1>18. SetOK(sectors', new)
  <2>1. /\ new.data = ids /\ new.parity = parity
        /\ DOMAIN ids = 1 .. n /\ DOMAIN parity = 1 .. Nparity
        /\ Len(parity) = Nparity
    BY <1>0, <1>5, LenProperties
  <2>2. \A k, l \in 1 .. n : ids[k] = ids[l] => k = l
    <3>1. \A k \in 1 .. n : k \in DOMAIN pending
      BY <1>2, <1>4, LenProperties
    <3>2. QED
      BY <3>1, <1>5 DEF Placed
  <2>3. /\ \A k, l \in 1 .. Nparity : parity[k] = parity[l] => k = l
        /\ \A k \in 1 .. Nparity : parity[k] \in next .. M /\ parity[k] - next + 1 = k
    BY <1>0, <1>1, <1>3
  <2>4. Range(ids) \cap Range(parity) = {}
    <3> HIDE DEF ids, parity
    <3>1. \A k \in 1 .. n : pending[k] \in 1 .. N
      BY <1>2, <1>4, ElementOfSeq
    <3>2. Range(ids) \subseteq 1 .. N
      BY <3>1, <1>13
    <3>3. \A i \in 1 .. N : i \notin next .. M
      BY <1>3
    <3>4. QED
      BY <3>2, <3>3, <1>7
  <2>5. [k \in 1 .. n |-> Content(sectors'[ids[k]])] = datas
    <3>1. \A k \in 1 .. n : /\ ids[k] \in 1 .. N
                           /\ sectors[ids[k]].data \in Values
      BY <1>2, <1>4, <1>5, ElementOfSeq DEF Placed
    <3>2. \A k \in 1 .. n : Content(sectors'[ids[k]]) = sectors[ids[k]].data
      <4> HIDE DEF ids, datas, M
      <4>1. \A k \in 1 .. n : sectors'[ids[k]] = sectors[ids[k]]
        BY <3>1, <1>12
      <4>2. QED
        BY <3>1, <4>1, <1>0 DEF Content, Contents
    <3>3. QED
      BY <3>2
  <2>6. \A k \in 1 .. Nparity :
          Content(sectors'[parity[k]]) = Encode(k, datas)
    <3> HIDE DEF parity, datas, M
    <3>1. QED
      BY <2>3, <1>0, <1>12 DEF Content
  <2> HIDE DEF new, ids, parity, datas
  <2>7. QED
    BY <2>1, <2>2, <2>3, <2>4, <2>5, <2>6 DEF SetOK
<1>19. Range(pending) \subseteq Range(pending') \cup Ids(new)
  <2>1. /\ DOMAIN pending = 1 .. Len(pending) /\ Len(pending) \in Nat
        /\ DOMAIN pending' = 1 .. Len(pending) - n
    BY <1>2, <1>6, LenProperties
  <2>2. ASSUME NEW k \in DOMAIN pending, k \notin 1 .. n
        PROVE  pending[k] \in Range(pending')
    <3>1. k - n \in 1 .. Len(pending) - n /\ n + (k - n) = k
      BY <1>4, <2>1, <2>2
    <3>2. pending'[k - n] = pending[k]
      BY <3>1, <1>6
    <3>3. QED
      BY <2>1, <3>1, <3>2 DEF Range
  <2> HIDE DEF new
  <2>3. QED
    BY <2>2, <1>13 DEF Range
<1> HIDE DEF new, M, parity, ids, datas
<1>20. Ids(sets'[Len(sets')]) = Ids(new) /\ SetIds = DOMAIN sets /\ SetIds' = DOMAIN sets'
  BY <1>10 DEF SetIds
<1>21. next' \in Nat \ {0} /\ next <= next'
  BY <1>0, <1>1
<1>22. M = next' - 1 /\ N = next - 1
  BY DEF M
<1>23. \A i \in next .. M : i \in Ids(new)
  BY <1>13
<1>24. QED
  BY <1>21, <1>22, <1>20, <1>10, <1>11, <1>12, <1>14, <1>15, <1>16, <1>17,
     <1>18, <1>19, <1>23

-----------------------------------------------------------------------------
(* Types, placement and uploads: inductive together                        *)

DbPart ==
  /\ next \in Nat \ {0}
  /\ DbOK(next - 1, sectors, sets, pending)
  /\ Placed(sectors, sets, pending)

HistoryPart == HistoryOK(readFrom, failure)

FillingPart ==
  /\ mu \in {"free", "handlePending", "UploadAllPending"}
  /\ signals \in Nat
  /\ dataChan \in 0 .. ChanCap
  /\ newSets \in Seq(SetIds)
  /\ allSets \in Seq(SetIds)

TokenPart ==
  /\ oldSets \in 0 .. Len(sets)
  /\ resumed \subseteq SetIds
  /\ setChan \in Seq(SetIds) /\ Len(setChan) <= ChanCap
  /\ retrying \in Seq(Nat) /\ Len(retrying) = Len(sets)

UploadPart ==
  /\ DOMAIN uploadingSets \subseteq SetIds
  /\ uploadingSets \in [DOMAIN uploadingSets ->
                          {"choosing", "uploading", "failing"}]
  /\ DOMAIN uploads \subseteq DOMAIN sectors
  /\ uploads \in [DOMAIN uploads ->
                    [set : SetIds, contract : Contracts, stored : BOOLEAN]]
  /\ UploadsOK

DiskPart ==
  /\ Cardinality(DOMAIN disk.sectors) \in Nat
  /\ DbOK(Cardinality(DOMAIN disk.sectors),
          disk.sectors, disk.sets, disk.pending)
  /\ Placed(disk.sectors, disk.sets, disk.pending)
  /\ HistoryOK(disk.readFrom, disk.failure)

OutsidePart ==
  /\ torn \in BOOLEAN
  /\ hosts \in [Contracts -> SUBSET [id : Nat, content : Contents]]
  /\ failures \in 0 .. MaxFailures
  /\ restarts \in 0 .. MaxRestarts

Reasons == {"up", "crashed", "nil timestamp", "division by zero",
            "parallel uploadSet", "parallel uploadSector"}

MemoryEmpty ==
  /\ next = 1 /\ sectors = << >> /\ sets = << >> /\ pending = << >>
  /\ readFrom = {} /\ failure = [c \in Contracts |-> "never"]
  /\ mu = "free" /\ signals = 0 /\ dataChan = 0
  /\ newSets = << >> /\ allSets = << >>
  /\ oldSets = 0 /\ resumed = {}
  /\ setChan = << >> /\ retrying = << >>
  /\ uploadingSets = << >> /\ uploads = << >>

Base ==
  /\ DbPart /\ HistoryPart /\ FillingPart /\ TokenPart /\ UploadPart
  /\ DiskPart /\ OutsidePart /\ status \in Reasons
  /\ status # "up" => MemoryEmpty

LEMMA BaseIsTypeOK == Base => TypeOK
BY DEF Base, DbPart, HistoryPart, FillingPart, TokenPart, UploadPart, DiskPart,
       OutsidePart, TypeOK, Reasons

\* The ids a well-formed database names; its lists keep their types when
\* there are more sectors.
LEMMA DbFacts ==
  ASSUME NEW n \in Nat, NEW secs, NEW ss, NEW pend, DbOK(n, secs, ss, pend)
  PROVE  /\ DOMAIN secs = 1 .. n
         /\ secs \in [1 .. n -> Sector]
         /\ pend \in Seq(1 .. n)
         /\ \A k \in DOMAIN pend : pend[k] \in 1 .. n
         /\ \A j \in DOMAIN ss : Ids(ss[j]) \subseteq 1 .. n
         /\ \A m \in Nat : \A more \in [1 .. m -> Sector] :
              n <= m => DbOK(m, more, ss, pend)
<1>1. /\ DOMAIN secs = 1 .. n
      /\ secs \in [1 .. n -> Sector]
      /\ pend \in Seq(1 .. n)
      /\ ss \in Seq(SetRecords(n))
  BY DEF DbOK, SetRecords
<1>2. \A k \in DOMAIN pend : pend[k] \in 1 .. n
  BY <1>1, LenProperties, ElementOfSeq
<1>3. \A j \in DOMAIN ss : Ids(ss[j]) \subseteq 1 .. n
  <2>1. \A j \in DOMAIN ss : ss[j] \in SetRecords(n)
    BY <1>1, LenProperties, ElementOfSeq
  <2>2. QED
    BY <2>1, IdsTyped
<1>4. ASSUME NEW m \in Nat, NEW more \in [1 .. m -> Sector], n <= m
      PROVE  DbOK(m, more, ss, pend)
  <2>1. ss \in Seq(SetRecords(m)) /\ pend \in Seq(1 .. m)
    BY <1>1, <1>4, SeqWidens
  <2>2. QED
    BY <2>1 DEF DbOK, SetRecords
<1>5. QED
  BY <1>1, <1>2, <1>3, <1>4

\* A database without sectors.
LEMMA EmptyDbOK ==
  ASSUME NEW secs, NEW ss, NEW pend, secs = << >>, ss = << >>, pend = << >>
  PROVE  DbOK(0, secs, ss, pend) /\ Placed(secs, ss, pend)
<1>1. DOMAIN secs = 1 .. 0 /\ DOMAIN ss = 1 .. 0 /\ DOMAIN pend = 1 .. 0
  OBVIOUS
<1>2. secs \in [1 .. 0 -> Sector]
  BY <1>1
<1>3. QED
  BY <1>1, <1>2 DEF DbOK, Placed

\* After the death of the process, and in the beginning, memory is empty.
MemoryPart == DbPart /\ HistoryPart /\ FillingPart /\ TokenPart /\ UploadPart

LEMMA Emptied == MemoryEmpty => MemoryPart
<1> SUFFICES ASSUME MemoryEmpty PROVE MemoryPart
  OBVIOUS
<1> USE ManagerAssumption DEF MemoryEmpty
<1>1. DbPart
  BY EmptyDbOK DEF DbPart
<1>2. HistoryPart
  BY DEF HistoryPart, HistoryOK
<1>3. FillingPart /\ TokenPart
  BY DEF FillingPart, TokenPart, SetIds, ManagerAssumption
<1>4. UploadPart
  <2>1. DOMAIN uploads = {} /\ DOMAIN uploadingSets = {}
    OBVIOUS
  <2>2. QED
    BY <2>1 DEF UploadPart, UploadsOK
<1>5. QED
  BY <1>1, <1>2, <1>3, <1>4 DEF MemoryPart

LEMMA EmptiedNext == MemoryEmpty' => MemoryPart'
BY Emptied, PTL

LEMMA DieKeepsBase ==
  ASSUME Base, NEW reason \in Reasons, Die(reason)
  PROVE  Base'
<1>1. MemoryPart'
  BY EmptiedNext DEF Die, MemoryEmpty
<1>2. QED
  BY <1>1 DEF Base, Die, outside, DiskPart, OutsidePart, MemoryPart, MemoryEmpty

LEMMA InitBase == Init => Base
<1> SUFFICES ASSUME Init PROVE Base
  OBVIOUS
<1> USE ManagerAssumption
<1>1. MemoryPart
  BY Emptied DEF Init, MemoryEmpty
<1>2. DiskPart
  <2>1. Cardinality(DOMAIN disk.sectors) = 0
    BY FS_EmptySet DEF Init, EmptyDb
  <2>2. QED
    BY <2>1, EmptyDbOK DEF Init, EmptyDb, DiskPart, HistoryOK
<1>3. OutsidePart
  <2>1. torn \in BOOLEAN
    BY Zenon DEF Init
  <2>2. QED
    BY <2>1 DEF Init, OutsidePart, ManagerAssumption
<1>4. QED
  BY <1>1, <1>2, <1>3 DEF Init, Base, Reasons, MemoryPart

\* Parts whose variables a step leaves alone.
LEMMA Kept ==
  /\ UNCHANGED db /\ DbPart => DbPart'
  /\ UNCHANGED history /\ HistoryPart => HistoryPart'
  /\ UNCHANGED <<filling, sets>> /\ FillingPart => FillingPart'
  /\ UNCHANGED <<tokens, resuming, sets>> /\ TokenPart => TokenPart'
  /\ UNCHANGED <<handlers, sets, sectors>> /\ UploadPart => UploadPart'
  /\ UNCHANGED disk /\ DiskPart => DiskPart'
  /\ UNCHANGED <<torn, hosts, failures, restarts>> /\ OutsidePart => OutsidePart'
BY DEF db, history, filling, tokens, resuming, handlers,
       DbPart, HistoryPart, FillingPart, TokenPart, UploadPart, DiskPart,
       OutsidePart, SetIds, UploadsOK, InSet

\* A step that only adds sectors and sets leaves the uploads as they are.
LEMMA UploadsGrow ==
  ASSUME UploadPart, UNCHANGED handlers,
         SetIds \subseteq SetIds',
         DOMAIN sectors \subseteq DOMAIN sectors',
         \A j \in SetIds : sets'[j] = sets[j],
         \A i \in DOMAIN sectors : sectors'[i] = sectors[i]
  PROVE  UploadPart'
BY DEF UploadPart, UploadsOK, handlers, InSet

\* What FormParitySet leaves to show for the loops that use it.
LEMMA FormedParts ==
  ASSUME Base, FormParitySet, UNCHANGED <<handlers, resuming, setChan>>
  PROVE  /\ DbPart' /\ TokenPart' /\ UploadPart'
         /\ \A q \in Seq(SetIds) : q \in Seq(SetIds')
         /\ \A q \in Seq(SetIds) : Append(q, Len(sets')) \in Seq(SetIds')
<1> USE ManagerAssumption DEF Base
<1>1. /\ next \in Nat \ {0}
      /\ DbOK(next - 1, sectors, sets, pending)
      /\ Placed(sectors, sets, pending)
      /\ retrying \in Seq(Nat) /\ Len(retrying) = Len(sets)
  BY DEF DbPart, TokenPart
<1>2. DbPart'
  BY <1>1, FormedSet DEF DbPart
<1>3. /\ SetIds' = SetIds \cup {Len(sets')}
      /\ Len(sets') = Len(sets) + 1
      /\ \A j \in SetIds : sets'[j] = sets[j]
      /\ retrying' \in Seq(Nat) /\ Len(retrying') = Len(sets')
      /\ next <= next' /\ next' \in Nat
      /\ \A i \in 1 .. next - 1 : sectors'[i] = sectors[i]
  BY <1>1, FormedSet
<1>4. \A q \in Seq(SetIds) : q \in Seq(SetIds')
  BY <1>3, SeqMonotonic
<1>5. \A q \in Seq(SetIds) : Append(q, Len(sets')) \in Seq(SetIds')
  BY <1>3, <1>4, AppendProperties
<1>6. TokenPart'
  <2>1. Len(sets) \in Nat
    BY <1>1, LenProperties DEF DbOK
  <2>2. /\ oldSets' \in 0 .. Len(sets) /\ resumed' \subseteq SetIds
        /\ setChan' \in Seq(SetIds) /\ Len(setChan') <= ChanCap
    BY DEF TokenPart, resuming
  <2>3. QED
    BY <1>3, <1>4, <2>1, <2>2 DEF TokenPart
<1>7. UploadPart'
  <2>1. DOMAIN sectors = 1 .. next - 1 /\ DOMAIN sectors' = 1 .. next' - 1
    BY <1>1, <1>2 DEF DbPart, DbOK
  <2>2. DOMAIN sectors \subseteq DOMAIN sectors'
    <3>1. next - 1 \in Nat /\ next' - 1 \in Nat /\ next - 1 <= next' - 1
      BY <1>1, <1>3
    <3>2. QED
      BY ONLY <2>1, <3>1
  <2>3. QED
    BY <2>1, <2>2, <1>3, UploadsGrow
<1>8. QED
  BY <1>2, <1>4, <1>5, <1>6, <1>7

\* SetIds and the counters of retrying have the same domain.
LEMMA RetryingTyped ==
  ASSUME Base
  PROVE  /\ SetIds = 1 .. Len(sets) /\ Len(sets) \in Nat
         /\ DOMAIN retrying = SetIds
         /\ retrying \in Seq(Nat)
         /\ \A j \in SetIds : retrying[j] \in Nat /\ j \in 1 .. Len(retrying)
<1>1. /\ sets \in Seq(SetRecords(next - 1)) /\ retrying \in Seq(Nat)
      /\ Len(retrying) = Len(sets)
  BY DEF Base, TokenPart, DbPart, DbOK, SetRecords
<1>2. QED
  BY <1>1, LenProperties, ElementOfSeq DEF SetIds

\* A handler that leaves uploadSet, to sleep or for good, has no uploadSector
\* call running.
LEMMA LeavingUploadSet ==
  ASSUME Base, NEW j \in DOMAIN uploadingSets,
         \A i \in DOMAIN uploads : uploads[i].set # j,
         uploadingSets' = Restrict(uploadingSets, DOMAIN uploadingSets \ {j}),
         UNCHANGED <<uploads, db>>
  PROVE  UploadPart'
BY DEF Base, UploadPart, UploadsOK, Restrict, db, SetIds, InSet

LEMMA SleepingTyped ==
  ASSUME Base, NEW j \in DOMAIN uploadingSets, Resleep(j),
         UNCHANGED <<db, resuming, setChan>>
  PROVE  TokenPart'
<1>1. j \in SetIds
  BY DEF Base, UploadPart
<1>2. /\ retrying' = [retrying EXCEPT ![j] = retrying[j] + 1]
      /\ retrying[j] + 1 \in Nat
  BY <1>1, RetryingTyped DEF Resleep
<1>3. retrying' \in Seq(Nat) /\ Len(retrying') = Len(retrying)
  BY <1>1, <1>2, RetryingTyped, ExceptSeq
<1>4. QED
  BY <1>3 DEF Base, TokenPart, db, resuming, SetIds

LEMMA RunKeepsBase ==
  ASSUME Base, Run
  PROVE  Base'
<1> USE ManagerAssumption
<1> USE DEF Base
<1>0. status = "up"
  BY DEF Run
<1> USE <1>0
<1>1. CASE AllocateSector
  <2> USE <1>1 DEF AllocateSector
  <2>1. /\ sectors' \in [1 .. next' - 1 -> Sector]
        /\ \A i \in DOMAIN sectors : sectors'[i] = sectors[i]
        /\ next' \in Nat \ {0} /\ next <= next'
        /\ DOMAIN sectors = 1 .. next - 1
        /\ DOMAIN sectors \subseteq DOMAIN sectors'
    BY DEF DbPart, DbOK, EmptySector, Sector
  <2>2. DbPart'
    <3>0. next - 1 \in Nat /\ DbOK(next - 1, sectors, sets, pending)
      BY DEF DbPart
    <3>1. DbOK(next' - 1, sectors', sets', pending')
      <4>0. next \in Nat \ {0} /\ next' = next + 1
        BY DEF DbPart
      <4>1. next' - 1 \in Nat /\ next - 1 <= next' - 1
        BY ONLY <4>0
      <4>2. DbOK(next' - 1, sectors', sets, pending)
        BY <2>1, <3>0, <4>1, DbFacts
      <4>3. QED
        BY <4>2
    <3>2. /\ \A k \in DOMAIN pending : pending[k] \in DOMAIN sectors
          /\ \A j \in DOMAIN sets : Ids(sets[j]) \subseteq DOMAIN sectors
      BY <2>1, <3>0, DbFacts
    <3>3. Placed(sectors', sets', pending')
      BY <2>1, <3>2 DEF DbPart, Placed
    <3>4. QED
      BY <2>1, <3>1, <3>3 DEF DbPart
  <2>3. UploadPart'
    BY <2>1, UploadsGrow DEF SetIds
  <2>4. QED
    BY <2>2, <2>3, Kept DEF outside
<1>2. ASSUME NEW i \in DOMAIN sectors, NEW v \in Values, WriteSector(i, v)
      PROVE  Base'
  <2> USE <1>2 DEF WriteSector
  <2>1. /\ sectors' = [sectors EXCEPT ![i].data = v]
        /\ sectors \in [1 .. next - 1 -> Sector]
        /\ pending \in Seq(1 .. next - 1)
        /\ i \in 1 .. next - 1
        /\ IsEmpty(sectors[i])
        /\ v \in Contents
    BY DEF DbPart, DbOK, Contents
  <2>2. /\ sectors' \in [1 .. next - 1 -> Sector]
        /\ \A k \in DOMAIN sectors : k # i => sectors'[k] = sectors[k]
        /\ sectors'[i].data = v /\ sectors'[i].contract = NoContract
        /\ DOMAIN sectors' = DOMAIN sectors
    <3> DEFINE filled == [sectors[i] EXCEPT !.data = v]
    <3>1. filled \in Sector /\ filled.data = v /\ filled.contract = NoContract
      <4>1. sectors[i] \in Sector /\ v \in Contents \cup {NoData}
            /\ sectors[i].contract = NoContract
        BY <2>1 DEF IsEmpty
      <4>2. QED
        BY ONLY <4>1 DEF Sector
    <3>2. sectors' = [sectors EXCEPT ![i] = filled]
      BY <2>1
    <3> HIDE DEF filled
    <3>3. QED
      BY <2>1, <3>1, <3>2
  <2>3. /\ \A j \in DOMAIN sets : i \notin Ids(sets[j])
        /\ \A k \in DOMAIN pending : pending[k] # i
    BY <2>1 DEF DbPart, Placed, IsEmpty, Contents
  <2>4. /\ pending' \in Seq(1 .. next - 1)
        /\ DOMAIN pending' = DOMAIN pending \cup {Len(pending) + 1}
        /\ \A k \in DOMAIN pending : pending'[k] = pending[k]
        /\ pending'[Len(pending) + 1] = i
    BY <2>1, AppendProperties, LenProperties
  <2>5. DbPart'
    <3>1. /\ \A k \in DOMAIN pending : pending[k] \in DOMAIN sectors
          /\ \A j \in DOMAIN sets : Ids(sets[j]) \subseteq DOMAIN sectors
      <4>1. next - 1 \in Nat /\ DbOK(next - 1, sectors, sets, pending)
        BY DEF DbPart
      <4>2. DOMAIN sectors = 1 .. next - 1
        BY <2>1
      <4>3. QED
        BY <4>1, <4>2, DbFacts
    <3>2. Placed(sectors', sets', pending')
      <4>1. /\ sets' = sets
            /\ Placed(sectors, sets, pending)
            /\ Len(pending) + 1 \notin DOMAIN pending
        BY <2>1, LenProperties DEF DbPart
      <4>2. \A k, l \in DOMAIN pending' : pending'[k] = pending'[l] => k = l
        BY <4>1, <2>3, <2>4 DEF Placed
      <4>3. \A k \in DOMAIN pending' :
              /\ sectors'[pending'[k]].data \in Values
              /\ sectors'[pending'[k]].contract = NoContract
              /\ \A j \in DOMAIN sets' : pending'[k] \notin Ids(sets'[j])
        <5> SUFFICES ASSUME NEW k \in DOMAIN pending'
                     PROVE  /\ sectors'[pending'[k]].data \in Values
                            /\ sectors'[pending'[k]].contract = NoContract
                            /\ \A j \in DOMAIN sets' :
                                 pending'[k] \notin Ids(sets'[j])
          OBVIOUS
        <5>1. CASE k \in DOMAIN pending
          <6>1. pending'[k] = pending[k] /\ sectors'[pending[k]] = sectors[pending[k]]
            BY <5>1, <2>2, <2>3, <2>4, <3>1
          <6>2. QED
            BY <5>1, <6>1, <4>1 DEF Placed
        <5>2. CASE k = Len(pending) + 1
          BY <5>2, <4>1, <2>2, <2>3, <2>4
        <5>3. QED
          BY <5>1, <5>2, <2>4
      <4>4. \A j \in DOMAIN sets' : \A k \in Ids(sets'[j]) : ~IsEmpty(sectors'[k])
        BY <4>1, <2>2, <2>3, <3>1 DEF Placed
      <4>5. QED
        BY <4>1, <4>2, <4>3, <4>4 DEF Placed
    <3>3. QED
      BY <2>2, <2>4, <3>2 DEF DbPart, DbOK
  <2>6. FillingPart'
    BY DEF FillingPart, SetIds
  <2>7. UploadPart'
    BY <2>1, <2>2 DEF UploadPart, UploadsOK, handlers, IsEmpty, SetIds, InSet
  <2>8. QED
    BY <2>5, <2>6, <2>7, Kept DEF outside
<1>3. CASE SignalData
  <2>1. FillingPart'
    BY <1>3 DEF SignalData, FillingPart, db, SetIds
  <2>2. QED
    BY <1>3, <2>1, Kept DEF SignalData, db, outside
<1>4. ASSUME NEW i \in DOMAIN sectors, ReadSector(i)
      PROVE  Base'
  <2>1. HistoryPart'
    BY <1>4 DEF ReadSector, HistoryPart, HistoryOK, DbPart, DbOK, Sector
  <2>2. QED
    BY <1>4, <2>1, Kept DEF ReadSector, db, outside
<1>5. CASE HandlePending
  <2>1. FillingPart'
    BY <1>5 DEF HandlePending, FillingPart, db, SetIds
  <2>2. QED
    BY <1>5, <2>1, Kept DEF HandlePending, db, outside
<1>6. CASE FormFullSet
  <2> USE <1>6 DEF FormFullSet
  <2>1. /\ DbPart' /\ TokenPart' /\ UploadPart'
        /\ \A q \in Seq(SetIds) : q \in Seq(SetIds')
        /\ \A q \in Seq(SetIds) : Append(q, Len(sets')) \in Seq(SetIds')
    BY FormedParts
  <2>2. FillingPart'
    BY <2>1 DEF FillingPart
  <2>3. QED
    BY <2>1, <2>2, Kept DEF outside
<1>7. CASE SendNewSet
  <2>1. FillingPart'
    BY <1>7, HeadTailProperties DEF SendNewSet, FillingPart, db, SetIds
  <2>2. TokenPart'
    BY <1>7, HeadTailProperties, AppendProperties
       DEF SendNewSet, SendSet, FillingPart, TokenPart, db, SetIds, resuming
  <2>3. QED
    BY <1>7, <2>1, <2>2, Kept DEF SendNewSet, db, outside
<1>8. CASE UploadAllPending
  <2>1. FillingPart'
    BY <1>8 DEF UploadAllPending, FillingPart, db, SetIds
  <2>2. QED
    BY <1>8, <2>1, Kept DEF UploadAllPending, db, outside
<1>9. CASE FormAnySet
  <2> USE <1>9 DEF FormAnySet
  <2>1. /\ DbPart' /\ TokenPart' /\ UploadPart'
        /\ \A q \in Seq(SetIds) : q \in Seq(SetIds')
        /\ \A q \in Seq(SetIds) : Append(q, Len(sets')) \in Seq(SetIds')
    BY FormedParts
  <2>2. FillingPart'
    BY <2>1 DEF FillingPart
  <2>3. QED
    BY <2>1, <2>2, Kept DEF outside
<1>10. CASE SendAnySet
  <2>1. FillingPart'
    BY <1>10, HeadTailProperties DEF SendAnySet, FillingPart, db, SetIds
  <2>2. TokenPart'
    BY <1>10, HeadTailProperties, AppendProperties
       DEF SendAnySet, SendSet, FillingPart, TokenPart, db, SetIds, resuming
  <2>3. QED
    BY <1>10, <2>1, <2>2, Kept DEF SendAnySet, db, outside
<1>11. CASE ContinueUploads
  <2>1. TokenPart'
    BY <1>11 DEF ContinueUploads, Unfinished, TokenPart, db, SetIds, tokens
  <2>2. QED
    BY <1>11, <2>1, Kept DEF ContinueUploads, db, outside
<1>12. ASSUME NEW j \in resumed, SendResumed(j)
       PROVE  Base'
  <2>1. TokenPart'
    BY <1>12, AppendProperties DEF SendResumed, SendSet, TokenPart, db, SetIds
  <2>2. QED
    BY <1>12, <2>1, Kept DEF SendResumed, db, outside
<1>13. CASE HandleSet
  <2>1. CASE Head(setChan) \in DOMAIN uploadingSets
    BY <1>13, <2>1, DieKeepsBase DEF HandleSet, Reasons
  <2>2. CASE Head(setChan) \notin DOMAIN uploadingSets
    <3> DEFINE j == Head(setChan)
    <3>1. /\ setChan # << >>
          /\ setChan' = Tail(setChan)
          /\ uploadingSets' = [k \in DOMAIN uploadingSets \cup {j} |->
                                 IF k = j THEN "choosing" ELSE uploadingSets[k]]
          /\ UNCHANGED <<db, history, filling, resuming, retrying, uploads,
                         status, outside>>
      BY <1>13, <2>2 DEF HandleSet
    <3>2. j \in SetIds /\ Tail(setChan) \in Seq(SetIds)
          /\ Len(Tail(setChan)) = Len(setChan) - 1
      BY <3>1, HeadTailProperties DEF TokenPart
    <3> HIDE DEF j
    <3>3. TokenPart'
      BY <3>1, <3>2, LenProperties DEF TokenPart, db, SetIds, resuming
    <3>4. UploadPart'
      BY <3>1, <3>2, <2>2 DEF j, UploadPart, UploadsOK, db, SetIds, InSet
    <3>5. QED
      BY <3>1, <3>3, <3>4, Kept DEF db, outside
  <2>3. QED
    BY <2>1, <2>2
<1>14. ASSUME NEW j \in DOMAIN retrying, ResendSet(j)
       PROVE  Base'
  <2>1. TokenPart'
    <3>1. /\ retrying' = [retrying EXCEPT ![j] = retrying[j] - 1]
          /\ retrying[j] - 1 \in Nat
          /\ j \in 1 .. Len(retrying) /\ j \in SetIds
          /\ retrying \in Seq(Nat)
      BY <1>14, RetryingTyped DEF ResendSet
    <3>2. retrying' \in Seq(Nat) /\ Len(retrying') = Len(retrying)
      BY <3>1, ExceptSeq
    <3>3. QED
      BY <1>14, <3>1, <3>2, AppendProperties
         DEF ResendSet, SendSet, TokenPart, db, SetIds, resuming
  <2>2. QED
    BY <1>14, <2>1, Kept DEF ResendSet, db, outside
<1>15. ASSUME NEW j \in DOMAIN uploadingSets, RefuseSet(j)
       PROVE  Base'
  <2>1. \A i \in DOMAIN uploads : uploads[i].set # j
    BY <1>15 DEF RefuseSet, Choosing, UploadPart, UploadsOK
  <2>2. UploadPart' /\ TokenPart'
    BY <1>15, <2>1, LeavingUploadSet, SleepingTyped DEF RefuseSet, Resleep
  <2>3. QED
    BY <1>15, <2>2, Kept DEF RefuseSet, db, outside
<1>16. ASSUME NEW j \in DOMAIN uploadingSets, PanicOnHistory(j)
       PROVE  Base'
  BY <1>16, DieKeepsBase DEF PanicOnHistory, Reasons
<1>17. ASSUME NEW j \in DOMAIN uploadingSets, AssignContracts(j)
       PROVE  Base'
  <2>1. CASE Missing(j) \cap DOMAIN uploads # {}
    BY <1>17, <2>1, DieKeepsBase DEF AssignContracts, Reasons
  <2>2. CASE Missing(j) \cap DOMAIN uploads = {}
    <3>0. PICK offered \in SUBSET Contracts :
            \E chosen \in Injection(Missing(j), Candidates(j, offered)) :
              /\ uploads' = [i \in DOMAIN uploads \cup Missing(j) |->
                              IF i \in Missing(j)
                              THEN [set |-> j, contract |-> chosen[i],
                                    stored |-> FALSE]
                              ELSE uploads[i]]
              /\ uploadingSets' = [uploadingSets EXCEPT ![j] = "uploading"]
              /\ UNCHANGED <<db, history, filling, resuming, tokens, status,
                             outside>>
      BY <1>17, <2>2 DEF AssignContracts
    <3>1. PICK chosen \in Injection(Missing(j), Candidates(j, offered)) :
            /\ uploads' = [i \in DOMAIN uploads \cup Missing(j) |->
                            IF i \in Missing(j)
                            THEN [set |-> j, contract |-> chosen[i],
                                  stored |-> FALSE]
                            ELSE uploads[i]]
            /\ uploadingSets' = [uploadingSets EXCEPT ![j] = "uploading"]
            /\ UNCHANGED <<db, history, filling, resuming, tokens, status,
                           outside>>
      BY <3>0
    <3>2. \A i \in Missing(j) :
            /\ chosen[i] \in Contracts
            /\ i \in InSet(j) /\ i \in DOMAIN sectors
            /\ sectors[i].contract = NoContract
            /\ sectors[i].data # NoData
      <4>1. \A i \in Missing(j) : chosen[i] \in Contracts
        BY DEF Injection, Candidates
      <4>2. InSet(j) \subseteq DOMAIN sectors
        <5>1. next - 1 \in Nat /\ DbOK(next - 1, sectors, sets, pending)
          BY DEF DbPart
        <5>2. j \in DOMAIN sets
          BY <1>17 DEF UploadPart, SetIds
        <5>3. QED
          BY <5>1, <5>2, DbFacts DEF InSet
      <4>3. QED
        BY <1>17, <4>1, <4>2 DEF AssignContracts, Missing
    <3>3. UploadPart'
      <4>1. j \in SetIds
        BY <1>17 DEF UploadPart
      <4>2. \A i \in DOMAIN uploads' :
              uploads'[i] \in [set : SetIds, contract : Contracts,
                               stored : BOOLEAN]
        BY <3>1, <3>2, <4>1 DEF UploadPart
      <4>3. \A i \in DOMAIN uploads' :
              IF i \in Missing(j) THEN uploads'[i].set = j
              ELSE i \in DOMAIN uploads /\ uploads'[i] = uploads[i]
        BY <3>1
      <4>4. UploadsOK'
        <5>1. ASSUME NEW i \in DOMAIN uploads'
              PROVE  /\ uploads'[i].set \in DOMAIN uploadingSets'
                     /\ uploadingSets'[uploads'[i].set] # "choosing"
                     /\ i \in InSet(uploads'[i].set)
                     /\ sectors[i].contract = NoContract
                     /\ sectors[i].data # NoData
          <6>1. CASE i \in Missing(j)
            BY <6>1, <3>1, <3>2, <4>3, <1>17 DEF UploadPart
          <6>2. CASE i \notin Missing(j)
            BY <6>2, <3>1, <4>3, <1>17 DEF UploadPart, UploadsOK
          <6>3. QED
            BY <6>1, <6>2
        <5>2. QED
          BY <5>1, <3>1 DEF UploadsOK, InSet, db
      <4>5. /\ DOMAIN uploads' = DOMAIN uploads \cup Missing(j)
            /\ uploads' \in [DOMAIN uploads' -> [set : SetIds,
                              contract : Contracts, stored : BOOLEAN]]
        BY <3>1, <4>2
      <4>6. QED
        BY <3>1, <3>2, <4>4, <4>5, <1>17 DEF UploadPart, db, SetIds
    <3>4. QED
      BY <3>1, <3>3, Kept DEF db, outside
  <2>3. QED
    BY <2>1, <2>2
<1>18. ASSUME NEW j \in DOMAIN uploadingSets, FinishUpload(j)
       PROVE  Base'
  <2>1. UploadPart'
    BY <1>18, LeavingUploadSet DEF FinishUpload, Resleep
  <2>2. TokenPart'
    <3>1. CASE uploadingSets[j] = "failing"
      BY <1>18, <3>1, SleepingTyped DEF FinishUpload
    <3>2. CASE uploadingSets[j] # "failing"
      BY <1>18, <3>2, Kept DEF FinishUpload, tokens, db
    <3>3. QED
      BY <3>1, <3>2
  <2>3. QED
    BY <1>18, <2>1, <2>2, Kept DEF FinishUpload, db, outside
<1>19. ASSUME NEW i \in DOMAIN uploads, HostStores(i)
       PROVE  Base'
  <2>1. /\ sectors \in [1 .. next - 1 -> Sector] /\ i \in 1 .. next - 1
        /\ next - 1 \in Nat
        /\ sectors[i].data # NoData
        /\ uploads[i].contract \in Contracts
    BY <1>19 DEF DbPart, DbOK, UploadPart, UploadsOK
  <2>2. Root(i, sectors[i].data) \in [id : Nat, content : Contents]
    BY <2>1 DEF Root, Sector
  <2>3. OutsidePart'
    BY <1>19, <2>1, <2>2 DEF HostStores, OutsidePart
  <2>4. UploadPart'
    BY <1>19 DEF HostStores, UploadPart, UploadsOK, db, SetIds, InSet
  <2>5. QED
    BY <1>19, <2>3, <2>4, Kept DEF HostStores, db
<1>20. ASSUME NEW i \in DOMAIN uploads, RecordUpload(i)
       PROVE  Base'
  <2> DEFINE done == [data |-> NoData, contract |-> uploads[i].contract,
                      root |-> Root(i, sectors[i].data)]
  <2>1. /\ sectors \in [1 .. next - 1 -> Sector] /\ i \in 1 .. next - 1
        /\ next - 1 \in Nat
        /\ sectors[i].data # NoData
        /\ uploads[i].contract \in Contracts
        /\ uploads[i].set \in SetIds /\ i \in InSet(uploads[i].set)
    BY <1>20 DEF DbPart, DbOK, UploadPart, UploadsOK
  <2>2. done \in Sector /\ ~IsEmpty(done)
    BY <2>1 DEF Root, Sector, IsEmpty, ManagerAssumption
  <2>3. sectors' = [sectors EXCEPT ![i] = done]
    BY <1>20 DEF RecordUpload
  <2> HIDE DEF done
  <2>4. /\ sectors' \in [1 .. next - 1 -> Sector]
        /\ sectors'[i] = done
        /\ \A k \in DOMAIN sectors : k # i => sectors'[k] = sectors[k]
        /\ DOMAIN sectors' = DOMAIN sectors
    BY <2>1, <2>2, <2>3
  <2>5. DbPart'
    <3>1. UNCHANGED <<next, sets, pending>>
      BY <1>20 DEF RecordUpload
    <3>2. /\ \A k \in DOMAIN pending : pending[k] \in DOMAIN sectors
          /\ \A j \in DOMAIN sets : Ids(sets[j]) \subseteq DOMAIN sectors
      BY <2>1, DbFacts DEF DbPart
    <3>3. \A k \in DOMAIN pending : pending[k] # i
      BY <2>1 DEF DbPart, Placed, SetIds, InSet
    <3>4. Placed(sectors', sets', pending')
      BY <2>2, <2>4, <3>1, <3>2, <3>3 DEF DbPart, Placed
    <3>5. QED
      BY <2>4, <3>1, <3>4 DEF DbPart, DbOK
  <2>6. UploadPart'
    BY <1>20, <2>4 DEF RecordUpload, UploadPart, UploadsOK, Restrict, SetIds, InSet
  <2>7. QED
    BY <1>20, <2>5, <2>6, Kept DEF RecordUpload, outside
<1>21. ASSUME NEW i \in DOMAIN uploads, FailUpload(i)
       PROVE  Base'
  <2>1. /\ uploads[i].contract \in Contracts
        /\ uploads[i].set \in DOMAIN uploadingSets
    BY <1>21 DEF UploadPart, UploadsOK
  <2>2. HistoryPart'
    BY <1>21, <2>1 DEF FailUpload, HistoryPart, HistoryOK
  <2>3. OutsidePart'
    BY <1>21 DEF FailUpload, OutsidePart
  <2>4. UploadPart'
    BY <1>21, <2>1 DEF FailUpload, UploadPart, UploadsOK, Restrict, db, SetIds, InSet
  <2>5. QED
    BY <1>21, <2>2, <2>3, <2>4, Kept DEF FailUpload, db
<1>22. ASSUME NEW c \in Contracts, MinutePasses(c)
       PROVE  Base'
  <2>1. HistoryPart'
    BY <1>22 DEF MinutePasses, HistoryPart, HistoryOK
  <2>2. QED
    BY <1>22, <2>1, Kept DEF MinutePasses, db, outside
<1>23. QED
  BY <1>1, <1>2, <1>3, <1>4, <1>5, <1>6, <1>7, <1>8, <1>9, <1>10, <1>11, <1>12, <1>13, <1>14, <1>15, <1>16, <1>17, <1>18, <1>19, <1>20, <1>21, <1>22 DEF Run

LEMMA BaseStep ==
  ASSUME Base, [Next]_vars
  PROVE  Base'
<1> USE DEF Base
<1>1. CASE Crash
  BY <1>1, DieKeepsBase DEF Crash, Reasons
<1>2. CASE Restart
  <2> USE <1>2 DEF Restart
  <2>1. DbPart'
    BY DEF DbPart, DiskPart
  <2>0. MemoryEmpty
    OBVIOUS
  <2>2. HistoryPart' /\ FillingPart'
    BY <2>0 DEF HistoryPart, DiskPart, FillingPart, filling, MemoryEmpty
  <2>3. TokenPart'
    <3>1. disk.sets \in Seq(SetRecords(Cardinality(DOMAIN disk.sectors)))
      BY DEF DiskPart, DbOK, SetRecords
    <3>2. Len(disk.sets) \in Nat /\ DOMAIN disk.sets = 1 .. Len(disk.sets)
      BY <3>1, LenProperties
    <3>3. retrying' \in [1 .. Len(disk.sets) -> Nat]
      BY <3>2
    <3>4. retrying' \in Seq(Nat) /\ Len(retrying') = Len(disk.sets)
      BY <3>2, <3>3, FunctionIsSeq
    <3>5. QED
      BY <2>0, <3>2, <3>4 DEF TokenPart, MemoryEmpty
  <2>4. UploadPart'
    <3>1. DOMAIN uploads = {} /\ DOMAIN uploadingSets = {}
      BY <2>0 DEF MemoryEmpty
    <3>2. QED
      BY <3>1 DEF UploadPart, UploadsOK, handlers
  <2>5. OutsidePart'
    BY ManagerAssumption DEF OutsidePart
  <2>6. QED
    BY <2>1, <2>2, <2>3, <2>4, <2>5, Kept DEF Reasons
<1>3. CASE DumpDb
  <2> USE <1>3 DEF DumpDb
  <2>1. Cardinality(DOMAIN sectors) = next - 1
    BY FS_Interval DEF DbPart, DbOK
  <2>2. DiskPart'
    <3>1. CASE disk' = [sectors |-> sectors, sets |-> sets, pending |-> pending,
                        readFrom |-> readFrom, failure |-> failure]
      BY <2>1, <3>1 DEF DiskPart, DbPart, HistoryPart
    <3>2. QED
      BY <3>1, Kept
  <2>3. OutsidePart'
    BY DEF OutsidePart
  <2>4. QED
    BY <2>2, <2>3, Kept DEF db, outside
<1>4. CASE UNCHANGED vars
  BY <1>4, Kept DEF vars, db, outside, MemoryEmpty, history, filling, resuming,
                    tokens, handlers
<1>5. CASE Run
  BY <1>5, RunKeepsBase
<1>6. QED
  BY <1>1, <1>2, <1>3, <1>4, <1>5 DEF Next

\* Types, a well-formed database in memory, and the same in the last dump that was
\* whole, which a restart loads; who is uploaded belongs to a set being uploaded.
THEOREM BaseInvariant == Spec => []Base
<1>1. Init => Base
  BY InitBase
<1>2. Base /\ [Next]_vars => Base'
  BY BaseStep
<1>3. QED
  BY <1>1, <1>2, PTL DEF Spec

\* TypeOK holds in every reachable state.
THEOREM Typing == Spec => []TypeOK
BY BaseInvariant, BaseIsTypeOK, PTL

-----------------------------------------------------------------------------
(* The tokens of the sets                                                  *)


TokenInv ==
  /\ TokensOK
  /\ NoneForgotten
  /\ AllMissingUploaded
  /\ NoParallelUpload

\* A sequence without repetitions stays one when its head goes or a new
\* element comes.
LEMMA OnceTail ==
  ASSUME NEW S, NEW q \in Seq(S), q # << >>, Once(q)
  PROVE  /\ Head(q) \in Elements(q)
         /\ Elements(Tail(q)) = Elements(q) \ {Head(q)}
         /\ Once(Tail(q))
<1>1. /\ Tail(q) \in Seq(S) /\ Head(q) = q[1]
      /\ DOMAIN q = 1 .. Len(q) /\ Len(q) \in Nat \ {0}
      /\ DOMAIN Tail(q) = 1 .. Len(q) - 1
      /\ \A k \in 1 .. Len(q) - 1 : Tail(q)[k] = q[k + 1]
  BY HeadTailProperties, LenProperties, EmptySeq
<1> DEFINE t == Tail(q)
<1>2. /\ \A k \in 2 .. Len(q) : k - 1 \in DOMAIN t /\ t[k - 1] = q[k]
      /\ \A k \in DOMAIN t : k + 1 \in 2 .. Len(q) /\ t[k] = q[k + 1]
      /\ \A k \in 2 .. Len(q) : k \in DOMAIN q /\ q[k] # q[1]
      /\ \A k \in DOMAIN q : k = 1 \/ k \in 2 .. Len(q)
      /\ 1 \in DOMAIN q
  BY <1>1 DEF Once
<1>3. Once(t)
  BY <1>1 DEF Once
<1> HIDE DEF t
<1>4. ASSUME NEW x \in Elements(t)
      PROVE  x \in Elements(q) \ {q[1]}
  BY <1>2 DEF Elements
<1>5. ASSUME NEW x \in Elements(q), x # q[1]
      PROVE  x \in Elements(t)
  BY <1>2, <1>5 DEF Elements
<1>6. q[1] \in Elements(q)
  BY <1>2 DEF Elements
<1>7. Elements(t) = Elements(q) \ {q[1]}
  BY <1>4, <1>5
<1>8. QED
  BY <1>1, <1>3, <1>6, <1>7 DEF t

LEMMA OnceAppend ==
  ASSUME NEW S, NEW q \in Seq(S), NEW e \in S
  PROVE  /\ Elements(Append(q, e)) = Elements(q) \cup {e}
         /\ Once(q) /\ e \notin Elements(q) => Once(Append(q, e))
<1>1. /\ DOMAIN Append(q, e) = DOMAIN q \cup {Len(q) + 1}
      /\ \A k \in DOMAIN q : Append(q, e)[k] = q[k]
      /\ Append(q, e)[Len(q) + 1] = e
      /\ DOMAIN q = 1 .. Len(q) /\ Len(q) \in Nat
  BY AppendProperties, LenProperties
<1>2. Elements(Append(q, e)) = Elements(q) \cup {e}
  BY <1>1 DEF Elements
<1>3. Once(q) /\ e \notin Elements(q) => Once(Append(q, e))
  BY <1>1 DEF Once, Elements
<1>4. QED
  BY <1>2, <1>3

\* What Base says of the database in memory.
LEMMA DbTyped ==
  ASSUME Base
  PROVE  /\ next \in Nat \ {0} /\ next - 1 \in Nat
         /\ DbOK(next - 1, sectors, sets, pending)
         /\ DOMAIN sectors = 1 .. next - 1
         /\ sectors \in [1 .. next - 1 -> Sector]
         /\ \A j \in SetIds : InSet(j) \subseteq DOMAIN sectors
<1>1. /\ next \in Nat \ {0} /\ next - 1 \in Nat
      /\ DbOK(next - 1, sectors, sets, pending)
  BY DEF Base, DbPart
<1>2. /\ DOMAIN sectors = 1 .. next - 1
      /\ sectors \in [1 .. next - 1 -> Sector]
      /\ \A j \in DOMAIN sets : Ids(sets[j]) \subseteq 1 .. next - 1
  BY <1>1, DbFacts
<1>3. QED
  BY <1>1, <1>2 DEF SetIds, InSet

\* While the process lives sets do not change, and a sector of a set keeps
\* the contract it has.
LEMMA SetsStay ==
  ASSUME Base, Run, status' = "up"
  PROVE  /\ SetIds \subseteq SetIds'
         /\ \A j \in SetIds :
              /\ InSet(j)' = InSet(j)
              /\ Missing(j)' \subseteq Missing(j)
<1> USE ManagerAssumption
<1>1. /\ next \in Nat \ {0} /\ next - 1 \in Nat
      /\ DbOK(next - 1, sectors, sets, pending)
      /\ DOMAIN sectors = 1 .. next - 1
      /\ sectors \in [1 .. next - 1 -> Sector]
      /\ \A j \in SetIds : InSet(j) \subseteq DOMAIN sectors
  BY DbTyped
<1>2. CASE UNCHANGED <<sets, sectors>>
  BY <1>2 DEF SetIds, InSet, Missing
<1>3. CASE AllocateSector
  BY <1>1, <1>3 DEF AllocateSector, SetIds, InSet, Missing
<1>4. ASSUME NEW i \in DOMAIN sectors, NEW v \in Values, WriteSector(i, v)
      PROVE  /\ SetIds \subseteq SetIds'
             /\ \A j \in SetIds :
                  /\ InSet(j)' = InSet(j)
                  /\ Missing(j)' \subseteq Missing(j)
  <2>1. \A k \in DOMAIN sectors : sectors'[k].contract = sectors[k].contract
    BY <1>1, <1>4 DEF WriteSector, Sector
  <2>2. QED
    BY <1>1, <1>4, <2>1 DEF WriteSector, SetIds, InSet, Missing
<1>5. CASE FormParitySet
  <2>1. /\ SetIds' = SetIds \cup {Len(sets')}
        /\ \A j \in SetIds : sets'[j] = sets[j]
        /\ \A i \in 1 .. next - 1 : sectors'[i] = sectors[i]
    BY <1>1, <1>5, FormedSet DEF Base, DbPart, TokenPart
  <2>2. QED
    BY <1>1, <2>1 DEF InSet, Missing
<1>6. ASSUME NEW i \in DOMAIN uploads, RecordUpload(i)
      PROVE  /\ SetIds \subseteq SetIds'
             /\ \A j \in SetIds :
                  /\ InSet(j)' = InSet(j)
                  /\ Missing(j)' \subseteq Missing(j)
  <2>1. uploads[i].contract \in Contracts /\ NoContract \notin Contracts
    BY DEF Base, UploadPart, ManagerAssumption
  <2>2. \A k \in DOMAIN sectors :
          sectors'[k].contract = IF k = i THEN uploads[i].contract
                                 ELSE sectors[k].contract
    BY <1>1, <1>6 DEF RecordUpload
  <2>3. QED
    BY <1>1, <1>6, <2>1, <2>2 DEF RecordUpload, SetIds, InSet, Missing
<1>7. ASSUME NEW j \in DOMAIN uploadingSets, AssignContracts(j)
      PROVE  UNCHANGED <<sets, sectors>>
  BY <1>7 DEF AssignContracts, Die, db
<1>8. CASE HandleSet
  BY <1>8, <1>2 DEF HandleSet, Die, db
<1>9. QED
  BY <1>2, <1>3, <1>4, <1>5, <1>6, <1>7, <1>8
     DEF Run, SignalData, ReadSector, HandlePending, FormFullSet, SendNewSet,
         UploadAllPending, FormAnySet, SendAnySet, ContinueUploads, SendResumed,
         ResendSet, RefuseSet, PanicOnHistory, FinishUpload, HostStores,
         FailUpload, MinutePasses, Die, db

-----------------------------------------------------------------------------
(* What a step does to the places of the sets                              *)

\* The types of these places.
LEMMA PlacesTyped ==
  ASSUME Base
  PROVE  /\ SetIds = 1 .. Len(sets) /\ Len(sets) \in Nat
         /\ Elements(setChan) \subseteq SetIds
         /\ Elements(newSets) \subseteq SetIds
         /\ Elements(allSets) \subseteq SetIds
         /\ Retrying \subseteq SetIds
         /\ resumed \subseteq SetIds
         /\ DOMAIN uploadingSets \subseteq SetIds
         /\ setChan \in Seq(SetIds)
         /\ newSets \in Seq(SetIds)
         /\ allSets \in Seq(SetIds)
         /\ oldSets \in 0 .. Len(sets)
<1>1. /\ SetIds = 1 .. Len(sets) /\ Len(sets) \in Nat
      /\ DOMAIN retrying = SetIds
  BY RetryingTyped
<1>2. /\ setChan \in Seq(SetIds) /\ newSets \in Seq(SetIds)
      /\ allSets \in Seq(SetIds) /\ oldSets \in 0 .. Len(sets)
      /\ resumed \subseteq SetIds /\ DOMAIN uploadingSets \subseteq SetIds
  BY DEF Base, FillingPart, TokenPart, UploadPart
<1>3. \A q \in Seq(SetIds) : Elements(q) \subseteq SetIds
  BY LenProperties, ElementOfSeq DEF Elements
<1>4. QED
  BY <1>1, <1>2, <1>3 DEF Retrying

\* A set j that was nowhere but in one place is now in one place.
LEMMA Moved ==
  ASSUME Base, TokensOK, NoneForgotten, Base',
         SetIds \subseteq SetIds',
         \A k \in SetIds : Uploaded(k) => Uploaded(k)',
         NEW j,
         SetIds' \subseteq SetIds \cup {j},
         Once(setChan'), Once(newSets'), Once(allSets'),
         \A k \in DOMAIN retrying' : retrying'[k] <= 1,
         j \in OnTheWay \/ j = Len(sets) + 1,
         UNCHANGED oldSets,
         Elements(setChan') \ {j} = Elements(setChan) \ {j},
         Elements(newSets') \ {j} = Elements(newSets) \ {j},
         Elements(allSets') \ {j} = Elements(allSets) \ {j},
         Retrying' \ {j} = Retrying \ {j},
         resumed' \ {j} = resumed \ {j}, resumed' \subseteq resumed,
         (DOMAIN uploadingSets') \ {j} = DOMAIN uploadingSets \ {j},
         j \in OnTheWay' \/ Uploaded(j)',
         j \in Elements(setChan') =>
           /\ j \notin Elements(newSets') /\ j \notin Elements(allSets')
           /\ j \notin Retrying' /\ j \notin resumed'
           /\ j \notin DOMAIN uploadingSets',
         j \in Elements(newSets') =>
           /\ j \notin Elements(allSets')
           /\ j \notin Retrying' /\ j \notin resumed'
           /\ j \notin DOMAIN uploadingSets',
         j \in Elements(allSets') =>
           /\ j \notin Retrying' /\ j \notin resumed'
           /\ j \notin DOMAIN uploadingSets',
         j \in Retrying' => j \notin resumed' /\ j \notin DOMAIN uploadingSets',
         j \in resumed' => j \notin DOMAIN uploadingSets'
  PROVE  TokensOK' /\ NoneForgotten'
<1>1. OnTheWay' \ {j} = OnTheWay \ {j}
  BY DEF OnTheWay
<1>2. TokensOK'
  <2>1. /\ Elements(setChan') \cap Elements(newSets') = {}
        /\ Elements(setChan') \cap Elements(allSets') = {}
        /\ Elements(setChan') \cap Retrying' = {}
        /\ Elements(setChan') \cap resumed' = {}
        /\ Elements(setChan') \cap DOMAIN uploadingSets' = {}
    BY DEF TokensOK
  <2>2. /\ Elements(newSets') \cap Elements(allSets') = {}
        /\ Elements(newSets') \cap Retrying' = {}
        /\ Elements(newSets') \cap resumed' = {}
        /\ Elements(newSets') \cap DOMAIN uploadingSets' = {}
    BY DEF TokensOK
  <2>3. /\ Elements(allSets') \cap Retrying' = {}
        /\ Elements(allSets') \cap resumed' = {}
        /\ Elements(allSets') \cap DOMAIN uploadingSets' = {}
        /\ Retrying' \cap resumed' = {}
        /\ Retrying' \cap DOMAIN uploadingSets' = {}
        /\ resumed' \cap DOMAIN uploadingSets' = {}
    BY DEF TokensOK
  <2>4. oldSets' > 0 =>
          resumed' = {} /\ \A k \in OnTheWay' : k > oldSets'
    <3>1. oldSets > 0 => resumed = {} /\ \A k \in OnTheWay : k > oldSets
      BY DEF TokensOK
    <3>2. oldSets \in 0 .. Len(sets) /\ Len(sets) \in Nat
      BY PlacesTyped
    <3>3. QED
      BY <1>1, <3>1, <3>2
  <2>5. QED
    BY <2>1, <2>2, <2>3, <2>4 DEF TokensOK
<1>3. NoneForgotten'
  <2>1. ASSUME NEW k \in SetIds', k # j
        PROVE  Uploaded(k)' \/ k \in OnTheWay' \/ k <= oldSets'
    BY <1>1, <2>1 DEF NoneForgotten
  <2>2. QED
    BY <2>1 DEF NoneForgotten
<1>4. QED
  BY <1>2, <1>3

\* The places stay as they are.
LEMMA Unmoved ==
  ASSUME TokensOK, NoneForgotten, SetIds' = SetIds,
         \A k \in SetIds : Uploaded(k) => Uploaded(k)',
         UNCHANGED <<setChan, newSets, allSets, retrying, resumed, oldSets>>,
         DOMAIN uploadingSets' = DOMAIN uploadingSets
  PROVE  TokensOK' /\ NoneForgotten'
<1>1. Retrying' = Retrying
  BY DEF Retrying
<1>2. OnTheWay' = OnTheWay
  BY <1>1 DEF OnTheWay
<1>3. TokensOK'
  BY <1>1, <1>2 DEF TokensOK
<1>4. NoneForgotten'
  BY <1>2 DEF NoneForgotten
<1>5. QED
  BY <1>3, <1>4

\* Uploads go on as they did.
LEMMA StillUploaded ==
  ASSUME Base, AllMissingUploaded,
         \A k \in SetIds : Missing(k)' \subseteq Missing(k),
         \A k \in DOMAIN uploadingSets' :
           uploadingSets'[k] = "uploading" =>
             k \in DOMAIN uploadingSets /\ uploadingSets[k] = "uploading",
         \A i \in DOMAIN uploads :
           i \in DOMAIN uploads' /\ uploads'[i].set = uploads[i].set
  PROVE  AllMissingUploaded'
BY DEF AllMissingUploaded, Base, UploadPart

\* Nothing is anywhere in an empty memory.
LEMMA NoTokens ==
  ASSUME MemoryEmpty
  PROVE  TokensOK /\ NoneForgotten /\ AllMissingUploaded
<1>1. /\ DOMAIN setChan = {} /\ DOMAIN newSets = {} /\ DOMAIN allSets = {}
      /\ DOMAIN retrying = {} /\ resumed = {} /\ DOMAIN uploadingSets = {}
      /\ DOMAIN sets = {} /\ oldSets = 0
  BY DEF MemoryEmpty
<1>2. QED
  BY <1>1 DEF TokensOK, NoneForgotten, AllMissingUploaded, Once, Elements,
              Retrying, OnTheWay, SetIds

LEMMA NoTokensNext ==
  MemoryEmpty' => TokensOK' /\ NoneForgotten' /\ AllMissingUploaded'
BY NoTokens, PTL

\* The process never dies of its assertions, and any other death leaves
\* nothing.
LEMMA DieKeepsTokens ==
  ASSUME NEW reason \in Reasons \ {"parallel uploadSet", "parallel uploadSector"},
         Die(reason)
  PROVE  TokenInv'
<1>1. MemoryEmpty'
  BY DEF Die, MemoryEmpty
<1>2. QED
  BY <1>1, NoTokensNext DEF TokenInv, Die, NoParallelUpload, Reasons

-----------------------------------------------------------------------------
(* Every step of the process                                               *)

\* Sending a set into setChan, from wherever it was.
LEMMA SentFacts ==
  ASSUME Base, TokensOK, NEW j \in SetIds, SendSet(j)
  PROVE  /\ Elements(setChan') = Elements(setChan) \cup {j}
         /\ j \notin Elements(setChan) => Once(setChan')
<1>1. setChan \in Seq(SetIds) /\ Once(setChan)
  BY PlacesTyped DEF TokensOK
<1>2. QED
  BY <1>1, OnceAppend DEF SendSet

\* The set that FormParitySet adds is nowhere yet.
LEMMA FormedTokens ==
  ASSUME Base, TokensOK, FormParitySet, UNCHANGED <<resuming, handlers, setChan>>
  PROVE  /\ SetIds' = SetIds \cup {Len(sets) + 1}
         /\ Len(sets') = Len(sets) + 1
         /\ Len(sets) + 1 \notin SetIds
         /\ Retrying' = Retrying
         /\ \A k \in DOMAIN retrying' : retrying'[k] <= 1
         /\ \A q \in Seq(SetIds) : Once(q) =>
              /\ Elements(Append(q, Len(sets'))) = Elements(q) \cup {Len(sets) + 1}
              /\ Once(Append(q, Len(sets')))
<1>1. /\ SetIds' = SetIds \cup {Len(sets')}
      /\ Len(sets') = Len(sets) + 1
      /\ \A j \in DOMAIN retrying : retrying'[j] = retrying[j]
      /\ retrying'[Len(sets')] = 0
      /\ retrying' \in Seq(Nat) /\ Len(retrying') = Len(sets')
  BY ManagerAssumption, FormedSet, DbTyped DEF Base, DbPart, TokenPart
<1>2. /\ SetIds = 1 .. Len(sets) /\ Len(sets) \in Nat /\ DOMAIN retrying = SetIds
      /\ \A j \in SetIds : retrying[j] \in Nat
  BY RetryingTyped
<1>3. DOMAIN retrying' = DOMAIN retrying \cup {Len(sets) + 1}
  BY <1>1, <1>2, LenProperties
<1>4. Retrying' = Retrying /\ \A k \in DOMAIN retrying' : retrying'[k] <= 1
  BY <1>1, <1>2, <1>3 DEF Retrying, TokensOK
<1>5. ASSUME NEW q \in Seq(SetIds), Once(q)
      PROVE  /\ Elements(Append(q, Len(sets'))) = Elements(q) \cup {Len(sets) + 1}
             /\ Once(Append(q, Len(sets')))
  <2>1. q \in Seq(SetIds') /\ Elements(q) \subseteq SetIds
    <3>1. q \in Seq(SetIds')
      BY <1>1, SeqMonotonic
    <3>2. QED
      BY <3>1, LenProperties, ElementOfSeq DEF Elements
  <2>2. Len(sets') \in SetIds' /\ Len(sets') \notin Elements(q)
    BY <1>1, <1>2, <2>1
  <2>3. QED
    BY <1>1, <1>5, <2>1, <2>2, OnceAppend
<1>6. QED
  BY <1>1, <1>2, <1>4, <1>5

\* Going to sleep, from uploadSet.
LEMMA SleepingTokens ==
  ASSUME Base, TokensOK, NEW j \in DOMAIN uploadingSets, Resleep(j)
  PROVE  /\ Retrying' = Retrying \cup {j}
         /\ DOMAIN uploadingSets' = DOMAIN uploadingSets \ {j}
         /\ \A k \in DOMAIN retrying' : retrying'[k] <= 1
         /\ \A k \in DOMAIN uploadingSets' :
              k \in DOMAIN uploadingSets /\ uploadingSets'[k] = uploadingSets[k]
<1>1. /\ j \in SetIds /\ j \notin Retrying
      /\ DOMAIN retrying = SetIds /\ \A k \in SetIds : retrying[k] \in Nat
  BY RetryingTyped, PlacesTyped DEF TokensOK
<1>2. retrying' = [retrying EXCEPT ![j] = retrying[j] + 1] /\ retrying[j] = 0
  BY <1>1 DEF Resleep, Retrying
<1>3. QED
  BY <1>1, <1>2 DEF Resleep, Restrict, Retrying, TokensOK

LEMMA RunKeepsTokens ==
  ASSUME Base, TokenInv, Run, Base'
  PROVE  TokenInv'
<1> USE DEF TokenInv
<1>a. status = "up" /\ SetIds = 1 .. Len(sets) /\ Len(sets) \in Nat
  BY PlacesTyped DEF Run
<1>b. ASSUME UNCHANGED status
      PROVE  /\ \A k \in SetIds : Missing(k)' \subseteq Missing(k)
             /\ \A k \in SetIds : Uploaded(k) => Uploaded(k)'
             /\ NoParallelUpload'
  BY <1>a, <1>b, SetsStay DEF Uploaded, NoParallelUpload
<1>c. /\ TokensOK
      /\ Elements(setChan) \subseteq SetIds
      /\ Elements(newSets) \subseteq SetIds
      /\ Elements(allSets) \subseteq SetIds
      /\ Retrying \subseteq SetIds
      /\ resumed \subseteq SetIds
      /\ DOMAIN uploadingSets \subseteq SetIds
  BY PlacesTyped
\* Steps that leave all places alone.
<1>1. ASSUME UNCHANGED <<sets, newSets, allSets, resuming, tokens, handlers, status>>
      PROVE  TokenInv'
  <2> USE <1>1 DEF resuming, tokens, handlers
  <2>1. SetIds' = SetIds
    BY DEF SetIds
  <2>2. TokensOK' /\ NoneForgotten'
    BY <2>1, <1>b, Unmoved
  <2>3. AllMissingUploaded'
    BY <1>b, StillUploaded
  <2>4. QED
    BY <2>2, <2>3, <1>b
<1>2. CASE FormFullSet
  <2> USE <1>2 DEF FormFullSet
  <2>1. /\ SetIds' = SetIds \cup {Len(sets) + 1}
        /\ Len(sets) + 1 \notin SetIds
        /\ Retrying' = Retrying
        /\ \A k \in DOMAIN retrying' : retrying'[k] <= 1
        /\ Elements(newSets') = Elements(newSets) \cup {Len(sets) + 1}
        /\ Once(newSets')
    BY FormedTokens, PlacesTyped DEF TokensOK
  <2>2. TokensOK' /\ NoneForgotten'
    <3> DEFINE j == Len(sets) + 1
    <3> HIDE DEF j
    <3>0. j = Len(sets) + 1
      BY DEF j
    <3>1. /\ Once(setChan') /\ Once(allSets')
          /\ UNCHANGED <<setChan, allSets, resumed, oldSets, uploadingSets, status>>
      BY DEF TokensOK, resuming, handlers
    <3>2. j \in OnTheWay'
      BY <2>1, <3>0 DEF OnTheWay
    <3>3. QED
      BY <1>b, <1>c, <2>1, <3>0, <3>1, <3>2, Moved
  <2>3. AllMissingUploaded'
    BY <1>b, StillUploaded DEF handlers
  <2>4. QED
    BY <2>2, <2>3, <1>b
<1>3. CASE FormAnySet
  <2> USE <1>3 DEF FormAnySet
  <2>1. /\ SetIds' = SetIds \cup {Len(sets) + 1}
        /\ Len(sets) + 1 \notin SetIds
        /\ Retrying' = Retrying
        /\ \A k \in DOMAIN retrying' : retrying'[k] <= 1
        /\ Elements(allSets') = Elements(allSets) \cup {Len(sets) + 1}
        /\ Once(allSets')
    BY FormedTokens, PlacesTyped DEF TokensOK
  <2>2. TokensOK' /\ NoneForgotten'
    <3> DEFINE j == Len(sets) + 1
    <3> HIDE DEF j
    <3>0. j = Len(sets) + 1
      BY DEF j
    <3>1. /\ Once(setChan') /\ Once(newSets')
          /\ UNCHANGED <<setChan, newSets, resumed, oldSets, uploadingSets, status>>
      BY DEF TokensOK, resuming, handlers
    <3>2. j \in OnTheWay'
      BY <2>1, <3>0 DEF OnTheWay
    <3>3. QED
      BY <1>b, <1>c, <2>1, <3>0, <3>1, <3>2, Moved
  <2>3. AllMissingUploaded'
    BY <1>b, StillUploaded DEF handlers
  <2>4. QED
    BY <2>2, <2>3, <1>b
\* Sends.
<1>4. ASSUME NEW j \in SetIds, SendSet(j), j \notin Elements(setChan),
             j \in OnTheWay,
             UNCHANGED <<db, oldSets, handlers, status>>,
             \A k \in DOMAIN retrying' : retrying'[k] <= 1,
             Once(newSets'), Once(allSets'),
             j \notin Elements(newSets'), j \notin Elements(allSets'),
             j \notin Retrying', j \notin resumed',
             j \notin DOMAIN uploadingSets,
             Elements(newSets') \ {j} = Elements(newSets) \ {j},
             Elements(allSets') \ {j} = Elements(allSets) \ {j},
             Retrying' \ {j} = Retrying \ {j},
             resumed' \ {j} = resumed \ {j}, resumed' \subseteq resumed
      PROVE  TokenInv'
  <2>1. /\ Elements(setChan') = Elements(setChan) \cup {j} /\ Once(setChan')
        /\ SetIds' = SetIds /\ UNCHANGED <<uploadingSets, uploads>>
    BY <1>4, SentFacts DEF db, SetIds, handlers
  <2>2. j \in OnTheWay'
    BY <2>1 DEF OnTheWay
  <2>3. TokensOK' /\ NoneForgotten'
    BY <1>4, <1>b, <2>1, <2>2, Moved
  <2>4. AllMissingUploaded'
    BY <1>4, <1>b, <2>1, StillUploaded
  <2>5. QED
    BY <1>4, <1>b, <2>3, <2>4
<1>5. CASE SendNewSet
  <2> DEFINE j == Head(newSets)
  <2>1. /\ j \in Elements(newSets) /\ Elements(newSets') = Elements(newSets) \ {j}
        /\ Once(newSets')
    BY <1>5, OnceTail, PlacesTyped DEF SendNewSet, TokensOK
  <2>2. /\ SendSet(j) /\ j \in OnTheWay /\ j \in SetIds
        /\ UNCHANGED <<db, oldSets, handlers, status, allSets, retrying, resumed>>
        /\ Retrying' = Retrying
    BY <1>5, <1>c, <2>1 DEF SendNewSet, OnTheWay, resuming, Retrying
  <2> HIDE DEF j
  <2>3. QED
    BY <1>4, <2>1, <2>2 DEF TokensOK
<1>6. CASE SendAnySet
  <2> DEFINE j == Head(allSets)
  <2>1. /\ j \in Elements(allSets) /\ Elements(allSets') = Elements(allSets) \ {j}
        /\ Once(allSets')
    BY <1>6, OnceTail, PlacesTyped DEF SendAnySet, TokensOK
  <2>2. /\ SendSet(j) /\ j \in OnTheWay /\ j \in SetIds
        /\ UNCHANGED <<db, oldSets, handlers, status, newSets, retrying, resumed>>
        /\ Retrying' = Retrying
    BY <1>6, <1>c, <2>1 DEF SendAnySet, OnTheWay, resuming, Retrying
  <2> HIDE DEF j
  <2>3. QED
    BY <1>4, <2>1, <2>2 DEF TokensOK
<1>7. ASSUME NEW j \in resumed, SendResumed(j)
      PROVE  TokenInv'
  <2>1. /\ SendSet(j) /\ j \in OnTheWay /\ j \in SetIds
        /\ UNCHANGED <<db, oldSets, handlers, status, newSets, allSets, retrying>>
        /\ Retrying' = Retrying
        /\ resumed' = resumed \ {j}
    BY <1>7, <1>c DEF SendResumed, OnTheWay, filling, Retrying
  <2>2. QED
    BY <1>4, <2>1 DEF TokensOK
<1>8. ASSUME NEW j \in DOMAIN retrying, ResendSet(j)
      PROVE  TokenInv'
  <2>1. /\ j \in SetIds /\ DOMAIN retrying = SetIds
        /\ \A k \in SetIds : retrying[k] \in Nat /\ retrying[k] <= 1
    BY RetryingTyped DEF TokensOK
  <2>2. /\ retrying' = [retrying EXCEPT ![j] = retrying[j] - 1]
        /\ retrying[j] = 1
        /\ SendSet(j)
        /\ UNCHANGED <<db, oldSets, handlers, status, newSets, allSets, resumed>>
    BY <1>8, <2>1 DEF ResendSet, filling, resuming
  <2>3. /\ Retrying' = Retrying \ {j} /\ j \in Retrying
        /\ \A k \in DOMAIN retrying' : retrying'[k] <= 1
    BY <2>1, <2>2 DEF Retrying
  <2>4. QED
    BY <1>4, <2>1, <2>2, <2>3 DEF TokensOK, OnTheWay
<1>9. CASE ContinueUploads
  <2> USE <1>9 DEF ContinueUploads
  <2>1. /\ SetIds' = SetIds /\ UNCHANGED <<newSets, allSets, setChan, retrying,
                                            uploadingSets, uploads, status>>
        /\ Retrying' = Retrying
        /\ oldSets > 0 /\ oldSets' = 0
        /\ resumed' = {k \in SetIds : k <= oldSets /\ ~Uploaded(k)}
    BY DEF db, SetIds, filling, tokens, handlers, Retrying, Unfinished
  <2>2. \A k \in OnTheWay : k > oldSets /\ k \notin resumed'
    <3>1. oldSets \in Nat /\ \A k \in OnTheWay : k \in SetIds
      BY <1>c, PlacesTyped DEF OnTheWay
    <3>2. QED
      BY <2>1, <3>1, <1>a DEF TokensOK
  <2>3. TokensOK'
    BY <2>1, <2>2 DEF TokensOK, OnTheWay
  <2>4. NoneForgotten'
    <3>1. \A k \in SetIds : Uploaded(k)' <=> Uploaded(k)
      BY DEF db, Uploaded, Missing, InSet
    <3>2. resumed = {}
      BY <2>1 DEF TokensOK
    <3>3. QED
      BY <2>1, <3>1, <3>2 DEF NoneForgotten, OnTheWay
  <2>5. AllMissingUploaded'
    BY <2>1, <1>b, StillUploaded
  <2>6. QED
    BY <2>1, <2>3, <2>4, <2>5, <1>b
\* Uploads.
<1>10. CASE HandleSet
  <2> DEFINE j == Head(setChan)
  <2>1. /\ setChan # << >> /\ j \in Elements(setChan)
        /\ Elements(Tail(setChan)) = Elements(setChan) \ {j}
        /\ Once(Tail(setChan))
    BY <1>10, OnceTail, PlacesTyped DEF HandleSet, TokensOK
  <2>2. j \notin DOMAIN uploadingSets
    BY <2>1 DEF TokensOK
  <2>3. /\ setChan' = Tail(setChan)
        /\ uploadingSets' = [k \in DOMAIN uploadingSets \cup {j} |->
                               IF k = j THEN "choosing" ELSE uploadingSets[k]]
        /\ UNCHANGED <<db, newSets, allSets, oldSets, resumed, retrying,
                       uploads, status>>
    BY <1>10, <2>2 DEF HandleSet, filling, resuming
  <2> HIDE DEF j
  <2>4. /\ j \in OnTheWay /\ j \in OnTheWay' /\ SetIds' = SetIds
        /\ DOMAIN uploadingSets' = DOMAIN uploadingSets \cup {j}
        /\ Retrying' = Retrying
    BY <2>1, <2>3 DEF OnTheWay, db, SetIds, Retrying
  <2>5. TokensOK' /\ NoneForgotten'
    <3>1. /\ Once(newSets') /\ Once(allSets')
          /\ \A k \in DOMAIN retrying' : retrying'[k] <= 1
          /\ j \notin Elements(newSets') /\ j \notin Elements(allSets')
          /\ j \notin Retrying' /\ j \notin resumed'
          /\ j \notin Elements(setChan')
      BY <2>1, <2>3, <2>4 DEF TokensOK
    <3>2. QED
      BY <1>b, <2>1, <2>3, <2>4, <3>1, Moved
  <2>6. AllMissingUploaded'
    BY <1>b, <2>3, StillUploaded
  <2>7. QED
    BY <2>3, <2>5, <2>6, <1>b
<1>11. ASSUME NEW j \in DOMAIN uploadingSets,
              UNCHANGED <<db, newSets, allSets, resuming, setChan, uploads, status>>,
              Resleep(j)
       PROVE  TokenInv'
  <2>1. /\ Retrying' = Retrying \cup {j}
        /\ DOMAIN uploadingSets' = DOMAIN uploadingSets \ {j}
        /\ \A k \in DOMAIN retrying' : retrying'[k] <= 1
        /\ \A k \in DOMAIN uploadingSets' :
             k \in DOMAIN uploadingSets /\ uploadingSets'[k] = uploadingSets[k]
    BY <1>11, SleepingTokens
  <2>2. /\ j \in OnTheWay /\ j \in OnTheWay' /\ SetIds' = SetIds
        /\ UNCHANGED <<setChan, newSets, allSets, resumed, oldSets, uploads, status>>
    BY <1>11, <2>1 DEF OnTheWay, db, SetIds, resuming
  <2>3. /\ Once(setChan') /\ Once(newSets') /\ Once(allSets')
        /\ j \notin Elements(setChan') /\ j \notin Elements(newSets')
        /\ j \notin Elements(allSets') /\ j \notin resumed'
        /\ j \notin DOMAIN uploadingSets'
    BY <2>1, <2>2 DEF TokensOK
  <2>4. TokensOK' /\ NoneForgotten'
    BY <1>b, <2>1, <2>2, <2>3, Moved
  <2>5. AllMissingUploaded'
    BY <1>b, <2>1, <2>2, StillUploaded
  <2>6. QED
    BY <2>2, <2>4, <2>5, <1>b
<1>12. ASSUME NEW j \in DOMAIN uploadingSets, RefuseSet(j)
       PROVE  TokenInv'
  BY <1>11, <1>12 DEF RefuseSet, filling
<1>13. ASSUME NEW j \in DOMAIN uploadingSets, PanicOnHistory(j)
       PROVE  TokenInv'
  BY <1>13, DieKeepsTokens DEF PanicOnHistory, Reasons
<1>14. ASSUME NEW j \in DOMAIN uploadingSets, AssignContracts(j)
       PROVE  TokenInv'
  <2>1. Missing(j) \cap DOMAIN uploads = {}
    <3>1. SUFFICES ASSUME NEW i \in Missing(j), i \in DOMAIN uploads
                   PROVE  FALSE
      OBVIOUS
    <3>2. /\ uploads[i].set \in SetIds /\ i \in InSet(uploads[i].set)
          /\ uploadingSets[uploads[i].set] # "choosing"
      BY <3>1 DEF Base, UploadPart, UploadsOK
    <3>3. /\ j \in SetIds /\ i \in InSet(j) /\ uploadingSets[j] = "choosing"
      BY <1>14, <1>c DEF Missing, AssignContracts, Choosing
    <3>4. \A k, l \in SetIds : k # l => InSet(k) \cap InSet(l) = {}
      BY DEF Base, DbPart, Placed, SetIds, InSet
    <3>5. QED
      BY <3>2, <3>3, <3>4
  <2>2. /\ uploadingSets' = [uploadingSets EXCEPT ![j] = "uploading"]
        /\ DOMAIN uploads' = DOMAIN uploads \cup Missing(j)
        /\ \A i \in DOMAIN uploads : uploads'[i] = uploads[i]
        /\ \A i \in Missing(j) : uploads'[i].set = j
        /\ UNCHANGED <<db, filling, resuming, tokens, status>>
    <3>1. PICK offered \in SUBSET Contracts :
            \E chosen \in Injection(Missing(j), Candidates(j, offered)) :
              /\ uploads' = [i \in DOMAIN uploads \cup Missing(j) |->
                              IF i \in Missing(j)
                              THEN [set |-> j, contract |-> chosen[i],
                                    stored |-> FALSE]
                              ELSE uploads[i]]
              /\ uploadingSets' = [uploadingSets EXCEPT ![j] = "uploading"]
              /\ UNCHANGED <<db, history, filling, resuming, tokens, status,
                             outside>>
      BY <1>14, <2>1 DEF AssignContracts
    <3>2. \A i \in DOMAIN uploads : i \notin Missing(j)
      BY <2>1
    <3>3. QED
      BY <3>1, <3>2
  <2>3. SetIds' = SetIds /\ \A k \in SetIds : Missing(k)' = Missing(k)
    BY <2>2 DEF db, SetIds, Missing, InSet
  <2>4. TokensOK' /\ NoneForgotten'
    BY <1>b, <2>2, <2>3, Unmoved DEF filling, resuming, tokens
  <2>5. AllMissingUploaded'
    BY <2>2, <2>3, <1>c DEF AllMissingUploaded
  <2>6. QED
    BY <2>2, <2>4, <2>5, <1>b
<1>15. ASSUME NEW j \in DOMAIN uploadingSets, FinishUpload(j)
       PROVE  TokenInv'
  <2> USE <1>15 DEF FinishUpload
  <2>1. CASE uploadingSets[j] = "failing"
    BY <1>11, <2>1 DEF filling
  <2>2. CASE uploadingSets[j] # "failing"
    <3>1. /\ uploadingSets' = Restrict(uploadingSets, DOMAIN uploadingSets \ {j})
          /\ UNCHANGED <<db, newSets, allSets, setChan, retrying, resumed, oldSets,
                         uploads, status>>
      BY <2>2 DEF filling, resuming
    <3>2. /\ DOMAIN uploadingSets' = DOMAIN uploadingSets \ {j}
          /\ \A k \in DOMAIN uploadingSets' :
               k \in DOMAIN uploadingSets /\ uploadingSets'[k] = uploadingSets[k]
          /\ SetIds' = SetIds /\ Retrying' = Retrying
      BY <3>1 DEF Restrict, db, SetIds, Retrying
    <3>3. Uploaded(j)
      <4>1. uploadingSets[j] = "uploading"
        <5>1. uploadingSets[j] \in {"choosing", "uploading", "failing"}
          BY DEF Base, UploadPart
        <5>2. QED
          BY <5>1, <2>2 DEF Choosing
      <4>2. QED
        BY <4>1 DEF AllMissingUploaded, Uploaded
    <3>4. Uploaded(j)' /\ j \in OnTheWay
      BY <3>1, <3>3, <1>b, <1>c DEF OnTheWay
    <3>5. /\ Once(setChan') /\ Once(newSets') /\ Once(allSets')
          /\ \A k \in DOMAIN retrying' : retrying'[k] <= 1
          /\ j \notin Elements(setChan') /\ j \notin Elements(newSets')
          /\ j \notin Elements(allSets') /\ j \notin resumed'
          /\ j \notin DOMAIN uploadingSets' /\ j \notin Retrying'
      BY <3>1, <3>2 DEF TokensOK
    <3>6. TokensOK' /\ NoneForgotten'
      BY <1>b, <3>1, <3>2, <3>4, <3>5, Moved
    <3>7. AllMissingUploaded'
      BY <1>b, <3>1, <3>2, StillUploaded
    <3>8. QED
      BY <3>1, <3>6, <3>7, <1>b
  <2>3. QED
    BY <2>1, <2>2
<1>16. ASSUME NEW i \in DOMAIN uploads,
              HostStores(i) \/ RecordUpload(i) \/ FailUpload(i)
       PROVE  TokenInv'
  <2>1. /\ UNCHANGED <<sets, filling, resuming, tokens, status>>
        /\ DOMAIN uploadingSets' = DOMAIN uploadingSets
    BY <1>16 DEF HostStores, RecordUpload, FailUpload, db
  <2>2. SetIds' = SetIds
    BY <2>1 DEF SetIds
  <2>3. TokensOK' /\ NoneForgotten'
    BY <1>b, <2>1, <2>2, Unmoved DEF filling, resuming, tokens
  <2>4. AllMissingUploaded'
    <3>1. CASE HostStores(i)
      <4>1. /\ UNCHANGED uploadingSets
            /\ \A k \in DOMAIN uploads :
                 k \in DOMAIN uploads' /\ uploads'[k].set = uploads[k].set
        BY <3>1 DEF HostStores, Base, UploadPart
      <4>2. QED
        BY <4>1, <2>1, <1>b, StillUploaded
    <3>2. CASE RecordUpload(i)
      <4>1. /\ UNCHANGED uploadingSets
            /\ \A k \in DOMAIN uploads : k # i =>
                 k \in DOMAIN uploads' /\ uploads'[k] = uploads[k]
        BY <3>2 DEF RecordUpload, Restrict
      <4>2. sectors'[i].contract # NoContract
        BY <3>2, DbTyped, ManagerAssumption
           DEF RecordUpload, Base, UploadPart, ManagerAssumption
      <4>3. \A k \in SetIds : i \notin Missing(k)'
        BY <4>2 DEF Missing
      <4>4. QED
        BY <4>1, <4>3, <2>1, <1>b, <1>c DEF AllMissingUploaded
    <3>3. CASE FailUpload(i)
      <4>1. /\ uploadingSets' = [uploadingSets EXCEPT ![uploads[i].set] = "failing"]
            /\ \A k \in DOMAIN uploads : k # i =>
                 k \in DOMAIN uploads' /\ uploads'[k] = uploads[k]
            /\ uploads[i].set \in DOMAIN uploadingSets
        BY <3>3 DEF FailUpload, Restrict, Base, UploadPart, UploadsOK
      <4>2. QED
        BY <4>1, <2>1, <1>b, <1>c DEF AllMissingUploaded
    <3>4. QED
      BY <1>16, <3>1, <3>2, <3>3
  <2>5. QED
    BY <2>1, <2>3, <2>4, <1>b
<1>17. QED
  <2>1. ASSUME \/ AllocateSector \/ SignalData \/ HandlePending
               \/ UploadAllPending
               \/ \E i \in DOMAIN sectors, v \in Values : WriteSector(i, v)
               \/ \E i \in DOMAIN sectors : ReadSector(i)
               \/ \E c \in Contracts : MinutePasses(c)
        PROVE  UNCHANGED <<sets, newSets, allSets, resuming, tokens, handlers, status>>
    BY <2>1 DEF AllocateSector, SignalData, HandlePending, UploadAllPending,
                WriteSector, ReadSector, MinutePasses, db, filling
  <2>2. QED
    BY <1>1, <1>2, <1>3, <1>5, <1>6, <1>7, <1>8, <1>9, <1>10, <1>12, <1>13,
       <1>14, <1>15, <1>16, <2>1 DEF Run

LEMMA TokenStep ==
  ASSUME Base, TokenInv, [Next]_vars, Base'
  PROVE  TokenInv'
<1>1. CASE Crash
  BY <1>1, DieKeepsTokens DEF Crash, Reasons
<1>2. CASE Restart
  <2>1. MemoryEmpty
    BY <1>2 DEF Base, Restart
  <2>2. /\ DOMAIN setChan' = {} /\ DOMAIN newSets' = {} /\ DOMAIN allSets' = {}
        /\ resumed' = {} /\ DOMAIN uploadingSets' = {}
        /\ oldSets' = Len(sets')
        /\ retrying' = [j \in DOMAIN sets' |-> 0]
        /\ status' = "up"
    BY <1>2, <2>1 DEF Restart, MemoryEmpty, filling, handlers
  <2>3. Retrying' = {} /\ OnTheWay' = {}
    BY <2>2 DEF Retrying, OnTheWay, Elements
  <2>4. TokensOK'
    BY <2>2, <2>3 DEF TokensOK, Once, Elements
  <2>5. SetIds' = 1 .. Len(sets')
    <3>1. disk.sets \in Seq(SetRecords(Cardinality(DOMAIN disk.sectors)))
      BY DEF Base, DiskPart, DbOK, SetRecords
    <3>2. QED
      BY <1>2, <3>1, LenProperties DEF Restart, SetIds
  <2>6. NoneForgotten' /\ AllMissingUploaded'
    BY <2>2, <2>5 DEF NoneForgotten, AllMissingUploaded
  <2>7. QED
    BY <2>2, <2>4, <2>6 DEF TokenInv, NoParallelUpload
<1>3. CASE DumpDb \/ UNCHANGED vars
  <2>1. UNCHANGED <<db, history, filling, resuming, tokens, handlers, status>>
    BY <1>3 DEF DumpDb, vars
  <2>2. QED
    <3>1. /\ SetIds' = SetIds
          /\ \A k \in SetIds : Missing(k)' = Missing(k)
      BY <2>1 DEF db, SetIds, Missing, InSet
    <3>2. TokensOK' /\ NoneForgotten'
      BY <2>1, <3>1, Unmoved
         DEF TokenInv, Uploaded, filling, resuming, tokens, handlers
    <3>3. AllMissingUploaded'
      BY <2>1, <3>1, StillUploaded DEF TokenInv, handlers
    <3>4. QED
      BY <2>1, <3>2, <3>3 DEF TokenInv, NoParallelUpload
<1>4. CASE Run
  BY <1>4, RunKeepsTokens
<1>5. QED
  BY <1>1, <1>2, <1>3, <1>4 DEF Next

THEOREM TokenInvariant == Spec => []TokenInv
<1>1. Init => TokenInv
  <2>1. Init => MemoryEmpty /\ status = "up"
    BY DEF Init, MemoryEmpty
  <2>2. QED
    BY <2>1, NoTokens DEF TokenInv, NoParallelUpload
<1>2. Base /\ TokenInv /\ [Next]_vars /\ Base' => TokenInv'
  BY TokenStep
<1>3. QED
  BY <1>1, <1>2, BaseInvariant, PTL DEF Spec

\* The assertions of uploadSet and uploadSector against parallel uploads
\* never fail.
THEOREM NeverParallel == Spec => []NoParallelUpload
<1>1. TokenInv => NoParallelUpload
  BY DEF TokenInv
<1>2. QED
  BY <1>1, TokenInvariant, PTL

-----------------------------------------------------------------------------
(* Counting the places                                                     *)

LEMMA OccursOnce ==
  ASSUME NEW S, NEW q \in Seq(S), Once(q), NEW j
  PROVE  Occurrences(q, j) = One(j \in Elements(q))
<1> DEFINE at == {k \in DOMAIN q : q[k] = j}
<1>1. CASE j \in Elements(q)
  <2>1. PICK k \in DOMAIN q : q[k] = j
    BY <1>1 DEF Elements
  <2>2. at = {k}
    BY <2>1 DEF Once
  <2>3. QED
    BY <1>1, <2>2, FS_Singleton DEF Occurrences, One
<1>2. CASE j \notin Elements(q)
  <2>1. at = {}
    BY <1>2 DEF Elements
  <2>2. QED
    BY <1>2, <2>1, FS_EmptySet DEF Occurrences, One
<1>3. QED
  BY <1>1, <1>2

LEMMA TokensCounted == Base /\ TokenInv => EverySetHasItsToken
<1> SUFFICES ASSUME Base, TokenInv, NEW j \in SetIds
             PROVE  Tokens(j) <= 1 /\ (Uploaded(j) \/ Tokens(j) = 1)
  BY DEF EverySetHasItsToken
<1>1. /\ Occurrences(setChan, j) = One(j \in Elements(setChan))
      /\ Occurrences(newSets, j) = One(j \in Elements(newSets))
      /\ Occurrences(allSets, j) = One(j \in Elements(allSets))
  BY OccursOnce, PlacesTyped DEF TokenInv, TokensOK
<1>2. retrying[j] = One(j \in Retrying)
  BY RetryingTyped DEF TokenInv, TokensOK, Retrying, One
<1>3. oldSets \in Nat /\ j \in Nat \ {0}
  BY PlacesTyped
<1>4. j <= oldSets => j \notin OnTheWay
  BY <1>3 DEF TokenInv, TokensOK
<1>5. Tokens(j) =
        One(j \in Elements(setChan)) + One(j \in Elements(newSets))
          + One(j \in Elements(allSets)) + One(j \in Retrying)
          + One(j \in resumed) + One(j \in DOMAIN uploadingSets)
          + One(j <= oldSets /\ ~Uploaded(j))
  BY <1>1, <1>2 DEF Tokens
<1>6. CASE j \in OnTheWay
  <2> DEFINE C == j \in Elements(setChan)
             N == j \in Elements(newSets)
             A == j \in Elements(allSets)
             R == j \in Retrying
             M == j \in resumed
             U == j \in DOMAIN uploadingSets
             O == j <= oldSets /\ ~Uploaded(j)
  <2>1. /\ C \/ N \/ A \/ R \/ M \/ U
        /\ ~(C /\ N) /\ ~(C /\ A) /\ ~(C /\ R) /\ ~(C /\ M) /\ ~(C /\ U)
        /\ ~(N /\ A) /\ ~(N /\ R) /\ ~(N /\ M) /\ ~(N /\ U)
        /\ ~(A /\ R) /\ ~(A /\ M) /\ ~(A /\ U)
        /\ ~(R /\ M) /\ ~(R /\ U) /\ ~(M /\ U)
        /\ ~O
    BY <1>4, <1>6 DEF TokenInv, TokensOK, OnTheWay
  <2>2. Tokens(j) = One(C) + One(N) + One(A) + One(R) + One(M) + One(U) + One(O)
    BY <1>5
  <2> HIDE DEF C, N, A, R, M, U, O
  <2>3. Tokens(j) = 1
    BY <2>1, <2>2 DEF One
  <2>4. QED
    BY <2>3
<1>7. CASE j \notin OnTheWay
  BY <1>5, <1>7 DEF TokenInv, NoneForgotten, OnTheWay, One
<1>8. QED
  BY <1>6, <1>7

\* Every set is in at most one place on its way to the hosts, and in exactly
\* one until all its sectors have contracts.
THEOREM SetsKeepTokens == Spec => []EverySetHasItsToken
BY BaseInvariant, TokenInvariant, TokensCounted, PTL

-----------------------------------------------------------------------------
(* Contracts                                                               *)

ContractInv ==
  /\ DistinctContracts
  /\ Separated(disk.sectors, disk.sets)

\* Sectors keep the contract they have or are assigned to, or lose it.
LEMMA ContractsKept ==
  ASSUME DistinctContracts, SetIds' \subseteq SetIds,
         \A j \in SetIds' :
           /\ InSet(j)' = InSet(j)
           /\ \A i \in InSet(j) : ContractOf(i)' \in {ContractOf(i), NoContract}
  PROVE  DistinctContracts'
<1>1. ASSUME NEW j \in SetIds', NEW a \in InSet(j)', NEW b \in InSet(j)', a # b,
             ContractOf(a)' = ContractOf(b)'
      PROVE  ContractOf(a)' = NoContract
  BY <1>1 DEF DistinctContracts
<1>2. QED
  BY <1>1 DEF DistinctContracts

\* A sector with a recorded contract is not being uploaded.
LEMMA RecordedIsDone ==
  ASSUME Base
  PROVE  /\ \A i \in DOMAIN uploads : sectors[i].contract = NoContract
         /\ \A i : sectors[i].contract # NoContract =>
              ContractOf(i) = sectors[i].contract
BY DEF Base, UploadPart, UploadsOK, ContractOf

\* No step but AssignContracts gives a sector of a set a contract it was not
\* assigned to.
LEMMA FormedContracts ==
  ASSUME Base, DistinctContracts, FormParitySet, UNCHANGED uploads
  PROVE  DistinctContracts'
<1>1. /\ SetIds' = SetIds \cup {Len(sets')}
      /\ \A j \in SetIds : sets'[j] = sets[j]
      /\ \A i \in 1 .. next - 1 : sectors'[i] = sectors[i]
      /\ \A i \in Ids(sets'[Len(sets')]) : sectors'[i].contract = NoContract
      /\ \A i \in Ids(sets'[Len(sets')]), j \in SetIds : i \notin InSet(j)
  BY ManagerAssumption, FormedSet, DbTyped DEF Base, DbPart, TokenPart
<1>2. /\ DOMAIN sectors = 1 .. next - 1
      /\ \A j \in SetIds : InSet(j) \subseteq DOMAIN sectors
      /\ \A i \in DOMAIN uploads : \E j \in SetIds : i \in InSet(j)
  BY DbTyped DEF Base, UploadPart, UploadsOK
<1>3. \A j \in SetIds : /\ InSet(j)' = InSet(j)
                        /\ \A i \in InSet(j) : ContractOf(i)' = ContractOf(i)
  BY <1>1, <1>2 DEF InSet, ContractOf
<1>4. \A i \in Ids(sets'[Len(sets')]) : ContractOf(i)' = NoContract
  BY <1>1, <1>2 DEF InSet, ContractOf
<1>5. ASSUME NEW j \in SetIds', NEW a \in InSet(j)', NEW b \in InSet(j)', a # b,
             ContractOf(a)' = ContractOf(b)'
      PROVE  ContractOf(a)' = NoContract
  <2>1. CASE j \in SetIds
    BY <1>3, <1>5, <2>1 DEF DistinctContracts
  <2>2. CASE j = Len(sets')
    BY <1>4, <1>5, <2>2 DEF InSet
  <2>3. QED
    BY <1>1, <2>1, <2>2
<1>6. QED
  BY <1>5 DEF DistinctContracts

\* Candidates are contracts that the set does not use, one for each sector
\* that misses one.
LEMMA AssignedContracts ==
  ASSUME Base, TokenInv, DistinctContracts,
         NEW j \in DOMAIN uploadingSets, AssignContracts(j)
  PROVE  DistinctContracts'
<1>1. CASE Missing(j) \cap DOMAIN uploads # {}
  <2>1. Die("parallel uploadSector")
    BY <1>1 DEF AssignContracts
  <2>2. SetIds' = {}
    <3>1. sets' = << >>
      BY <2>1 DEF Die
    <3>2. QED
      BY <3>1 DEF SetIds
  <2>3. QED
    BY <2>2 DEF DistinctContracts
<1>2. CASE Missing(j) \cap DOMAIN uploads = {}
  <2>1. PICK offered \in SUBSET Contracts :
          \E chosen \in Injection(Missing(j), Candidates(j, offered)) :
            /\ uploads' = [i \in DOMAIN uploads \cup Missing(j) |->
                            IF i \in Missing(j)
                            THEN [set |-> j, contract |-> chosen[i],
                                  stored |-> FALSE]
                            ELSE uploads[i]]
            /\ UNCHANGED db
    BY <1>2 DEF AssignContracts
  <2>2. PICK chosen \in Injection(Missing(j), Candidates(j, offered)) :
          /\ uploads' = [i \in DOMAIN uploads \cup Missing(j) |->
                          IF i \in Missing(j)
                          THEN [set |-> j, contract |-> chosen[i],
                                stored |-> FALSE]
                          ELSE uploads[i]]
          /\ UNCHANGED db
    BY <2>1
  <2>3. /\ \A i \in Missing(j) : chosen[i] \notin Used(j)
        /\ \A a, b \in Missing(j) : chosen[a] = chosen[b] => a = b
    <3>1. chosen \in [Missing(j) -> Candidates(j, offered)]
          /\ \A a, b \in Missing(j) : chosen[a] = chosen[b] => a = b
      BY DEF Injection, IsInjective
    <3>2. QED
      BY <3>1 DEF Candidates
  <2>4. /\ SetIds' = SetIds /\ \A k \in SetIds : InSet(k)' = InSet(k)
        /\ \A i : ContractOf(i)' = IF i \in Missing(j) THEN chosen[i]
                                   ELSE ContractOf(i)
    BY <2>2 DEF db, SetIds, InSet, ContractOf
  <2>5. \A i \in InSet(j) \ Missing(j) : ContractOf(i) \in Used(j)
    BY RecordedIsDone DEF Used, Missing
  <2>6. ASSUME NEW k \in SetIds, NEW a \in InSet(k), NEW b \in InSet(k), a # b,
               ContractOf(a)' = ContractOf(b)'
        PROVE  ContractOf(a)' = NoContract
    <3>1. CASE k = j
      <4>1. a \notin Missing(j) /\ b \notin Missing(j)
        BY <2>3, <2>4, <2>5, <2>6, <3>1
      <4>2. QED
        BY <2>4, <2>6, <4>1 DEF DistinctContracts
    <3>2. CASE k # j
      <4>1. j \in SetIds /\ InSet(k) \cap InSet(j) = {}
        BY <3>2, PlacesTyped DEF Base, DbPart, Placed, SetIds, InSet
      <4>2. a \notin Missing(j) /\ b \notin Missing(j)
        BY <4>1 DEF Missing
      <4>3. QED
        BY <2>4, <2>6, <4>2 DEF DistinctContracts
    <3>3. QED
      BY <3>1, <3>2
  <2>7. QED
    BY <2>4, <2>6 DEF DistinctContracts
<1>3. QED
  BY <1>1, <1>2

LEMMA RunKeepsContracts ==
  ASSUME Base, TokenInv, DistinctContracts, Run
  PROVE  DistinctContracts'
<1>1. ASSUME UNCHANGED <<sets, sectors, uploads>>
      PROVE  DistinctContracts'
  BY <1>1 DEF DistinctContracts, SetIds, InSet, ContractOf
<1>2. ASSUME NEW reason, Die(reason)
      PROVE  DistinctContracts'
  BY <1>2 DEF Die, DistinctContracts, SetIds
<1>3. CASE AllocateSector
  <2>1. \A i \in DOMAIN sectors : sectors'[i] = sectors[i]
    BY <1>3, DbTyped DEF AllocateSector
  <2>2. UNCHANGED <<sets, uploads>>
    BY <1>3 DEF AllocateSector, handlers
  <2>3. QED
    BY <2>1, <2>2, DbTyped, ContractsKept DEF SetIds, InSet, ContractOf
<1>4. ASSUME NEW i \in DOMAIN sectors, NEW v \in Values, WriteSector(i, v)
      PROVE  DistinctContracts'
  <2>1. \A k \in DOMAIN sectors : sectors'[k].contract = sectors[k].contract
    BY <1>4, DbTyped DEF WriteSector, Sector
  <2>2. UNCHANGED <<sets, uploads>>
    BY <1>4 DEF WriteSector, handlers
  <2>3. QED
    BY <2>1, <2>2, DbTyped, ContractsKept DEF SetIds, InSet, ContractOf
<1>5. CASE FormFullSet \/ FormAnySet
  BY <1>5, FormedContracts DEF FormFullSet, FormAnySet, handlers
<1>6. ASSUME NEW i \in DOMAIN uploads, HostStores(i)
      PROVE  DistinctContracts'
  <2>1. /\ UNCHANGED <<sets, sectors>>
        /\ DOMAIN uploads' = DOMAIN uploads
        /\ \A k \in DOMAIN uploads : uploads'[k].contract = uploads[k].contract
    BY <1>6 DEF HostStores, db, Base, UploadPart
  <2>2. QED
    BY <2>1, ContractsKept DEF SetIds, InSet, ContractOf
<1>7. ASSUME NEW i \in DOMAIN uploads, RecordUpload(i)
      PROVE  DistinctContracts'
  <2>1. /\ UNCHANGED sets
        /\ DOMAIN uploads' = DOMAIN uploads \ {i}
        /\ \A k \in DOMAIN uploads' : uploads'[k] = uploads[k]
        /\ \A k \in DOMAIN sectors : k # i => sectors'[k] = sectors[k]
        /\ sectors'[i].contract = uploads[i].contract
    BY <1>7, DbTyped DEF RecordUpload, Restrict, Base, UploadPart
  <2>2. \A k \in DOMAIN sectors : ContractOf(k)' = ContractOf(k)
    BY <2>1 DEF ContractOf
  <2>3. QED
    BY <2>1, <2>2, DbTyped, ContractsKept DEF SetIds, InSet
<1>8. ASSUME NEW i \in DOMAIN uploads, FailUpload(i)
      PROVE  DistinctContracts'
  <2>1. /\ UNCHANGED <<sets, sectors>>
        /\ DOMAIN uploads' = DOMAIN uploads \ {i}
        /\ \A k \in DOMAIN uploads' : uploads'[k] = uploads[k]
    BY <1>8 DEF FailUpload, Restrict, db
  <2>2. \A k : ContractOf(k)' \in {ContractOf(k), NoContract}
    BY <2>1, RecordedIsDone DEF ContractOf
  <2>3. QED
    BY <2>1, <2>2, ContractsKept DEF SetIds, InSet
<1>9. ASSUME NEW j \in DOMAIN uploadingSets, AssignContracts(j)
      PROVE  DistinctContracts'
  BY <1>9, AssignedContracts
<1>10. ASSUME NEW j \in DOMAIN uploadingSets, PanicOnHistory(j)
       PROVE  DistinctContracts'
  BY <1>10, <1>2 DEF PanicOnHistory
<1>11. CASE HandleSet
  BY <1>11, <1>1, <1>2 DEF HandleSet, db
<1>12. QED
  BY <1>1, <1>3, <1>4, <1>5, <1>6, <1>7, <1>8, <1>9, <1>10, <1>11
     DEF Run, SignalData, ReadSector, HandlePending, SendNewSet,
         UploadAllPending, SendAnySet, ContinueUploads, SendResumed, ResendSet,
         RefuseSet, FinishUpload, MinutePasses, db, handlers

LEMMA ContractStep ==
  ASSUME Base, TokenInv, ContractInv, [Next]_vars
  PROVE  ContractInv'
<1> USE DEF ContractInv
<1>1. CASE Crash
  BY <1>1 DEF Crash, Die, DistinctContracts, SetIds, outside
<1>2. CASE Restart
  <2>1. DOMAIN uploads' = {}
    BY <1>2 DEF Base, MemoryEmpty, Restart, handlers
  <2>2. QED
    BY <1>2, <2>1
       DEF Restart, DistinctContracts, Separated, SetIds, InSet, ContractOf
<1>3. CASE DumpDb
  <2>1. DistinctContracts'
    BY <1>3 DEF DumpDb, db, handlers, DistinctContracts, SetIds, InSet, ContractOf
  <2>2. Separated(sectors, sets)
    BY RecordedIsDone DEF DistinctContracts, Separated, SetIds, InSet
  <2>3. QED
    BY <1>3, <2>1, <2>2 DEF DumpDb
<1>4. CASE UNCHANGED vars
  BY <1>4 DEF vars, db, handlers, outside, DistinctContracts, SetIds, InSet, ContractOf
<1>5. CASE Run
  <2>1. UNCHANGED disk
    BY <1>5
       DEF Run, AllocateSector, WriteSector, SignalData, ReadSector,
           HandlePending, FormFullSet, SendNewSet, UploadAllPending, FormAnySet,
           SendAnySet, ContinueUploads, SendResumed, HandleSet, ResendSet,
           RefuseSet, PanicOnHistory, AssignContracts, FinishUpload, HostStores,
           RecordUpload, FailUpload, MinutePasses, Die, outside
  <2>2. QED
    BY <1>5, <2>1, RunKeepsContracts
<1>6. QED
  BY <1>1, <1>2, <1>3, <1>4, <1>5 DEF Next

THEOREM ContractInvariant == Spec => []ContractInv
<1>1. Init => ContractInv
  BY DEF Init, EmptyDb, ContractInv, DistinctContracts, Separated, SetIds
<1>2. Base /\ TokenInv /\ ContractInv /\ [Next]_vars => ContractInv'
  BY ContractStep
<1>3. QED
  BY <1>1, <1>2, BaseInvariant, TokenInvariant, PTL DEF Spec

\* No two sectors of a set are on, or on their way to, the same contract,
\* whatever failed, was retried or was loaded from a whole dump after a restart.
THEOREM ContractsAreDistinct == Spec => []DistinctContracts
<1>1. ContractInv => DistinctContracts
  BY DEF ContractInv
<1>2. QED
  BY <1>1, ContractInvariant, PTL

-----------------------------------------------------------------------------
(* Data                                                                    *)

DataInv ==
  /\ DataOK(sectors, sets, pending)
  /\ DataOK(disk.sectors, disk.sets, disk.pending)
  /\ AnsweredIsStored

\* A sector without data and contract is as AllocateSector left it.
LEMMA EmptyIsNew ==
  ASSUME DataInv, NEW i \in DOMAIN sectors
  PROVE  IsEmpty(sectors[i]) <=> sectors[i] = EmptySector
BY DEF DataInv, DataOK, SectorOK, IsEmpty, EmptySector

\* Where the content of its sectors stays, a set stays as it was formed.
LEMMA SetStays ==
  ASSUME NEW secs, NEW more, NEW set, SetOK(secs, set),
         \A i \in Ids(set) : Content(more[i]) = Content(secs[i])
  PROVE  SetOK(more, set)
<1>1. /\ \A k \in DOMAIN set.data : set.data[k] \in Ids(set)
      /\ \A k \in DOMAIN set.parity : set.parity[k] \in Ids(set)
  BY DEF Ids, Range
<1>2. [k \in DOMAIN set.data |-> Content(more[set.data[k]])]
        = [k \in DOMAIN set.data |-> Content(secs[set.data[k]])]
  BY <1>1
<1>3. \A k \in DOMAIN set.parity :
        Content(more[set.parity[k]]) = Content(secs[set.parity[k]])
  BY <1>1
<1>4. QED
  BY <1>2, <1>3 DEF SetOK

\* A filled sector keeps its content as long as the process lives.
LEMMA ContentStays ==
  ASSUME Base, Run, status' = "up"
  PROVE  \A i \in DOMAIN sectors :
           /\ i \in DOMAIN sectors'
           /\ ~IsEmpty(sectors[i]) => /\ ~IsEmpty(sectors'[i])
                                      /\ Content(sectors'[i]) = Content(sectors[i])
<1> DEFINE Stays == \A i \in DOMAIN sectors :
             /\ i \in DOMAIN sectors'
             /\ ~IsEmpty(sectors[i]) => /\ ~IsEmpty(sectors'[i])
                                        /\ Content(sectors'[i]) = Content(sectors[i])
<1>1. UNCHANGED sectors => Stays
  OBVIOUS
<1>2. CASE AllocateSector
  BY <1>2, DbTyped DEF AllocateSector
<1>3. ASSUME NEW i \in DOMAIN sectors, NEW v \in Values, WriteSector(i, v)
      PROVE  Stays
  BY <1>3, DbTyped DEF WriteSector
<1>4. CASE FormFullSet \/ FormAnySet
  <2>1. /\ next \in Nat \ {0} /\ next' \in Nat \ {0} /\ next <= next'
        /\ DOMAIN sectors = 1 .. next - 1
        /\ DOMAIN sectors' = 1 .. next' - 1
        /\ \A i \in 1 .. next - 1 : sectors'[i] = sectors[i]
    BY <1>4, ManagerAssumption, FormedSet, DbTyped
       DEF FormFullSet, FormAnySet, Base, DbPart, TokenPart, DbOK
  <2> DEFINE m == next - 1
             n == next' - 1
  <2>2. m \in Nat /\ n \in Nat /\ m <= n
    <3> DEFINE u == next
               v == next'
    <3>1. u \in Nat \ {0} /\ v \in Nat \ {0} /\ u <= v /\ m = u - 1 /\ n = v - 1
      BY <2>1
    <3> HIDE DEF m, n, u, v
    <3>2. QED
      BY ONLY <3>1
  <2>3. DOMAIN sectors = 1 .. m /\ DOMAIN sectors' = 1 .. n
        /\ \A i \in 1 .. m : sectors'[i] = sectors[i]
    BY <2>1
  <2> HIDE DEF m, n
  <2>4. \A i \in 1 .. m : i \in 1 .. n
    BY <2>2
  <2>5. \A i \in DOMAIN sectors : i \in DOMAIN sectors' /\ sectors'[i] = sectors[i]
    BY <2>3, <2>4
  <2> HIDE <2>1, <2>2, <2>3, <2>4
  <2>6. QED
    BY <2>5, Zenon
<1>5. ASSUME NEW i \in DOMAIN uploads, RecordUpload(i)
      PROVE  Stays
  <2>1. /\ sectors[i].data # NoData
        /\ uploads[i].contract # NoContract
    BY ManagerAssumption DEF Base, UploadPart, UploadsOK, ManagerAssumption
  <2>2. sectors' = [sectors EXCEPT
                      ![i] = [data |-> NoData, contract |-> uploads[i].contract,
                              root |-> Root(i, sectors[i].data)]]
    BY <1>5 DEF RecordUpload
  <2>3. QED
    BY <2>1, <2>2 DEF IsEmpty, Content, Root
<1>6. ASSUME NEW i \in DOMAIN uploads, HostStores(i) \/ FailUpload(i)
      PROVE  UNCHANGED sectors
  BY <1>6 DEF HostStores, FailUpload, db
<1>7. ASSUME NEW j \in DOMAIN uploadingSets,
             RefuseSet(j) \/ PanicOnHistory(j) \/ AssignContracts(j)
               \/ FinishUpload(j)
      PROVE  UNCHANGED sectors
  BY <1>7 DEF RefuseSet, PanicOnHistory, AssignContracts, FinishUpload, Die, db
<1>8. CASE HandleSet
  BY <1>8 DEF HandleSet, Die, db
<1>9. QED
  BY <1>1, <1>2, <1>3, <1>4, <1>5, <1>6, <1>7, <1>8
     DEF Run, SignalData, ReadSector, HandlePending, SendNewSet,
         UploadAllPending, SendAnySet, ContinueUploads, SendResumed, ResendSet,
         MinutePasses, db

\* A step that forms no set and loses nothing.
LEMMA SectorsChange ==
  ASSUME Base, DataOK(sectors, sets, pending), UNCHANGED sets,
         \A i \in DOMAIN sectors :
           ~IsEmpty(sectors[i]) => Content(sectors'[i]) = Content(sectors[i]),
         \A i \in DOMAIN sectors' :
           \/ sectors'[i] = EmptySector
           \/ i \in DOMAIN sectors /\ sectors'[i] = sectors[i]
           \/ SectorOK(i, sectors[i])' /\ i \in Range(pending)'
           \/ SectorOK(i, sectors[i])' /\ \E j \in SetIds : i \in InSet(j),
         \A c \in Contracts : hosts[c] \subseteq hosts'[c],
         Range(pending) \subseteq Range(pending')
  PROVE  DataOK(sectors, sets, pending)'
<1>1. ASSUME NEW i \in DOMAIN sectors', i \in DOMAIN sectors,
             sectors'[i] = sectors[i]
      PROVE  SectorOK(i, sectors[i])'
  <2>1. sectors[i].contract \in Contracts \cup {NoContract}
    BY <1>1, DbTyped DEF Sector
  <2>2. SectorOK(i, sectors[i])
    BY <1>1 DEF DataOK
  <2>3. QED
    BY <1>1, <2>1, <2>2 DEF SectorOK
<1>2. \A i \in DOMAIN sectors' : SectorOK(i, sectors[i])'
  BY <1>1 DEF SectorOK
<1>3. \A j \in SetIds : InSet(j) \subseteq DOMAIN sectors
                        /\ \A i \in InSet(j) : ~IsEmpty(sectors[i])
  BY DbTyped DEF Base, DbPart, Placed, SetIds, InSet
<1>4. ASSUME NEW j \in DOMAIN sets'
      PROVE  SetOK(sectors', sets'[j])
  <2>1. SetOK(sectors, sets[j]) /\ j \in SetIds
    BY DEF DataOK, SetIds
  <2>2. \A i \in Ids(sets[j]) : Content(sectors'[i]) = Content(sectors[i])
    BY <1>3, <2>1 DEF InSet
  <2>3. QED
    BY <2>1, <2>2, SetStays
<1>5. ASSUME NEW i \in DOMAIN sectors'
      PROVE  \/ IsEmpty(sectors'[i]) \/ i \in Range(pending')
             \/ \E j \in DOMAIN sets' : i \in Ids(sets'[j])
  BY DEF DataOK, IsEmpty, EmptySector, SetIds, InSet
<1>6. QED
  BY <1>2, <1>4, <1>5 DEF DataOK

\* Forming a set.
LEMMA FormedData ==
  ASSUME Base, DataOK(sectors, sets, pending), FormParitySet, UNCHANGED hosts
  PROVE  DataOK(sectors, sets, pending)'
<1> DEFINE new == sets'[Len(sets')]
<1>1. /\ next \in Nat \ {0} /\ next' \in Nat \ {0} /\ next <= next'
      /\ DOMAIN sectors' = 1 .. next' - 1
      /\ \A i \in 1 .. next - 1 : sectors'[i] = sectors[i]
      /\ SetIds' = SetIds \cup {Len(sets')}
      /\ \A j \in SetIds : sets'[j] = sets[j]
      /\ SetOK(sectors', new)
      /\ \A i \in next .. next' - 1 : /\ i \in Ids(new)
                                     /\ sectors'[i].data \in Contents
                                     /\ sectors'[i].contract = NoContract
                                     /\ sectors'[i].root = NoRoot
      /\ Range(pending) \subseteq Range(pending') \cup Ids(new)
  BY ManagerAssumption, FormedSet DEF Base, DbPart, TokenPart, DbOK
<1> HIDE DEF new
<1>2. /\ DOMAIN sectors = 1 .. next - 1
      /\ \A j \in SetIds : InSet(j) \subseteq DOMAIN sectors
  BY DbTyped
<1>3. \A i \in DOMAIN sectors' : i \in DOMAIN sectors \/ i \in next .. next' - 1
  BY ONLY <1>1, <1>2
<1>4. \A i \in DOMAIN sectors' : SectorOK(i, sectors[i])'
  <2>1. ASSUME NEW i \in DOMAIN sectors PROVE SectorOK(i, sectors[i])'
    <3>1. SectorOK(i, sectors[i]) /\ sectors'[i] = sectors[i]
      BY <1>1, <1>2 DEF DataOK
    <3>2. QED
      BY <3>1 DEF SectorOK
  <2>2. ASSUME NEW i \in next .. next' - 1 PROVE SectorOK(i, sectors[i])'
    BY <1>1, ManagerAssumption DEF SectorOK, ManagerAssumption
  <2>3. QED
    BY <1>3, <2>1, <2>2
<1>5. ASSUME NEW j \in SetIds'
      PROVE  SetOK(sectors', sets'[j])
  <2>1. CASE j \in SetIds
    <3>1. SetOK(sectors, sets[j]) /\ sets'[j] = sets[j]
      BY <1>1, <2>1 DEF DataOK, SetIds
    <3>2. \A i \in Ids(sets[j]) : Content(sectors'[i]) = Content(sectors[i])
      BY <1>1, <1>2, <2>1 DEF InSet
    <3>3. QED
      BY <3>1, <3>2, SetStays
  <2>2. CASE j = Len(sets')
    BY <1>1, <2>2 DEF new
  <2>3. QED
    BY <1>1, <2>1, <2>2
<1>6. ASSUME NEW i \in DOMAIN sectors'
      PROVE  \/ IsEmpty(sectors'[i]) \/ i \in Range(pending')
             \/ \E j \in SetIds' : i \in Ids(sets'[j])
  <2>1. CASE i \in DOMAIN sectors
    <3>1. \/ IsEmpty(sectors[i]) \/ i \in Range(pending)
          \/ \E j \in SetIds : i \in Ids(sets[j])
      BY <2>1 DEF DataOK, SetIds
    <3>2. sectors'[i] = sectors[i]
      BY <1>1, <1>2, <2>1
    <3>3. QED
      BY <1>1, <3>1, <3>2 DEF new
  <2>2. CASE i \in next .. next' - 1
    BY <1>1, <2>2 DEF new
  <2>3. QED
    BY <1>3, <2>1, <2>2
<1>7. QED
  BY <1>4, <1>5, <1>6 DEF DataOK, SetIds

\* The hosts keep what they have.
LEMMA HostsKeep ==
  ASSUME Base, [Next]_vars
  PROVE  \A c \in Contracts : hosts[c] \subseteq hosts'[c]
<1>1. ASSUME NEW i \in DOMAIN uploads, HostStores(i)
      PROVE  \A c \in Contracts : hosts[c] \subseteq hosts'[c]
  BY <1>1 DEF HostStores, Base, OutsidePart
<1>2. QED
  BY <1>1
     DEF Next, Run, AllocateSector, WriteSector, SignalData, ReadSector,
         HandlePending, FormFullSet, SendNewSet, UploadAllPending, FormAnySet,
         SendAnySet, ContinueUploads, SendResumed, HandleSet, ResendSet,
         RefuseSet, PanicOnHistory, AssignContracts, FinishUpload, RecordUpload,
         FailUpload, MinutePasses, Crash, Restart, DumpDb, Die, outside, vars

\* No step of the process but a crash or a panic loses data.
LEMMA RunKeepsData ==
  ASSUME Base, DataInv, Run
  PROVE  DataOK(sectors, sets, pending)'
<1> USE DEF DataInv
<1>0. /\ \A c \in Contracts : hosts[c] \subseteq hosts'[c]
      /\ DOMAIN sectors = 1 .. next - 1
      /\ \A i \in DOMAIN sectors : sectors[i] \in Sector
  BY HostsKeep, DbTyped DEF Next
<1>1. UNCHANGED <<sectors, sets, pending>> => DataOK(sectors, sets, pending)'
  BY <1>0, SectorsChange
<1>2. ASSUME NEW reason, Die(reason)
      PROVE  DataOK(sectors, sets, pending)'
  BY <1>2 DEF Die, DataOK
<1>3. CASE AllocateSector
  BY <1>3, <1>0, SectorsChange DEF AllocateSector
<1>4. ASSUME NEW i \in DOMAIN sectors, NEW v \in Values, WriteSector(i, v)
      PROVE  DataOK(sectors, sets, pending)'
  <2>1. /\ sectors' = [sectors EXCEPT ![i].data = v]
        /\ sectors[i] = EmptySector
        /\ IsEmpty(sectors[i])
        /\ UNCHANGED sets
        /\ pending' = Append(pending, i)
    BY <1>4, EmptyIsNew DEF WriteSector
  <2>2. sectors'[i] = [data |-> v, contract |-> NoContract, root |-> NoRoot]
    BY <2>1 DEF EmptySector
  <2>3. v # NoData
    BY ManagerAssumption DEF ManagerAssumption, Contents
  <2>4. SectorOK(i, sectors[i])'
    BY <2>2, <2>3 DEF SectorOK
  <2>5. Range(pending') = Range(pending) \cup {i}
    <3>1. pending \in Seq(1 .. next - 1) /\ i \in 1 .. next - 1
      BY <1>0 DEF Base, DbPart, DbOK
    <3>2. /\ DOMAIN pending' = DOMAIN pending \cup {Len(pending) + 1}
          /\ \A k \in DOMAIN pending : pending'[k] = pending[k]
          /\ pending'[Len(pending) + 1] = i
      BY <2>1, <3>1, AppendProperties, LenProperties
    <3>3. QED
      BY <3>2 DEF Range
  <2>6. /\ DOMAIN sectors' = DOMAIN sectors
        /\ \A k \in DOMAIN sectors : k # i => sectors'[k] = sectors[k]
    BY <2>1
  <2>7. QED
    BY <1>0, <2>1, <2>4, <2>5, <2>6, SectorsChange
<1>5. CASE FormFullSet \/ FormAnySet
  BY <1>5, FormedData DEF FormFullSet, FormAnySet, outside
<1>6. ASSUME NEW i \in DOMAIN uploads, RecordUpload(i)
      PROVE  DataOK(sectors, sets, pending)'
  <2> DEFINE done == [data |-> NoData, contract |-> uploads[i].contract,
                      root |-> Root(i, sectors[i].data)]
  <2>1. /\ uploads[i].contract \in Contracts
        /\ \E j \in SetIds : i \in InSet(j)
        /\ i \in DOMAIN sectors
    BY DEF Base, UploadPart, UploadsOK
  <2>2. /\ sectors' = [sectors EXCEPT ![i] = done]
        /\ UNCHANGED <<sets, pending, hosts>>
        /\ Root(i, sectors[i].data) \in hosts[uploads[i].contract]
    BY <1>6 DEF RecordUpload, AnsweredIsStored, outside
  <2>3. SectorOK(i, sectors[i])'
    <3>1. sectors'[i] = done
      BY <2>1, <2>2
    <3>2. QED
      BY <2>1, <2>2, <3>1, ManagerAssumption DEF SectorOK, Root, ManagerAssumption
  <2>4. \A k \in DOMAIN sectors :
          ~IsEmpty(sectors[k]) => Content(sectors'[k]) = Content(sectors[k])
    <3>1. status' = "up"
      BY <1>6 DEF Run, RecordUpload
    <3>2. QED
      BY <3>1, ContentStays
  <2>5. /\ DOMAIN sectors' = DOMAIN sectors
        /\ \A k \in DOMAIN sectors : k # i => sectors'[k] = sectors[k]
    BY <2>2
  <2> HIDE DEF done
  <2>6. QED
    BY <1>0, <2>1, <2>2, <2>3, <2>4, <2>5, SectorsChange
<1>7. ASSUME NEW i \in DOMAIN uploads, HostStores(i) \/ FailUpload(i)
      PROVE  DataOK(sectors, sets, pending)'
  BY <1>1, <1>7 DEF HostStores, FailUpload, db
<1>8. ASSUME NEW j \in DOMAIN uploadingSets,
             RefuseSet(j) \/ PanicOnHistory(j) \/ AssignContracts(j)
               \/ FinishUpload(j)
      PROVE  DataOK(sectors, sets, pending)'
  BY <1>1, <1>2, <1>8
     DEF RefuseSet, PanicOnHistory, AssignContracts, FinishUpload, db
<1>9. CASE HandleSet
  BY <1>1, <1>2, <1>9 DEF HandleSet, db
<1>10. QED
  BY <1>1, <1>3, <1>4, <1>5, <1>6, <1>7, <1>8, <1>9
     DEF Run, SignalData, ReadSector, HandlePending, SendNewSet,
         UploadAllPending, SendAnySet, ContinueUploads, SendResumed, ResendSet,
         MinutePasses, db

\* A step that adds no answered upload and leaves their data alone.
LEMMA AnswersStay ==
  ASSUME Base, AnsweredIsStored,
         \A c \in Contracts : hosts[c] \subseteq hosts'[c],
         \A i \in DOMAIN uploads' :
           \/ ~uploads'[i].stored
           \/ /\ i \in DOMAIN uploads
              /\ uploads'[i] = uploads[i]
              /\ sectors'[i].data = sectors[i].data
  PROVE  AnsweredIsStored'
<1>1. \A i \in DOMAIN uploads : uploads[i].contract \in Contracts
  BY DEF Base, UploadPart
<1>2. QED
  BY <1>1 DEF AnsweredIsStored

LEMMA RunKeepsAnswers ==
  ASSUME Base, AnsweredIsStored, Run
  PROVE  AnsweredIsStored'
<1>0. /\ \A c \in Contracts : hosts[c] \subseteq hosts'[c]
      /\ DOMAIN sectors = 1 .. next - 1
      /\ \A i \in DOMAIN uploads : /\ i \in DOMAIN sectors
                                  /\ sectors[i].data # NoData
                                  /\ uploads[i].contract \in Contracts
      /\ uploads \in [DOMAIN uploads ->
                        [set : SetIds, contract : Contracts, stored : BOOLEAN]]
  BY HostsKeep, DbTyped DEF Next, Base, UploadPart, UploadsOK
<1>1. ASSUME UNCHANGED uploads,
             \A i \in DOMAIN uploads : sectors'[i].data = sectors[i].data
      PROVE  AnsweredIsStored'
  BY <1>0, <1>1, AnswersStay
<1>2. ASSUME NEW reason, Die(reason)
      PROVE  AnsweredIsStored'
  BY <1>2 DEF Die, AnsweredIsStored
<1>3. CASE AllocateSector
  <2>1. \A i \in DOMAIN sectors : sectors'[i] = sectors[i]
    BY <1>3, DbTyped DEF AllocateSector
  <2>2. QED
    BY <1>0, <1>1, <1>3, <2>1 DEF AllocateSector, handlers
<1>4. ASSUME NEW i \in DOMAIN sectors, NEW v \in Values, WriteSector(i, v)
      PROVE  AnsweredIsStored'
  <2>1. i \notin DOMAIN uploads
    BY <1>0, <1>4 DEF WriteSector, IsEmpty
  <2>2. QED
    BY <1>0, <1>1, <1>4, <2>1 DEF WriteSector, handlers
<1>5. CASE FormFullSet \/ FormAnySet
  <2>1. \A i \in 1 .. next - 1 : sectors'[i] = sectors[i]
    BY <1>5, ManagerAssumption, FormedSet
       DEF FormFullSet, FormAnySet, Base, DbPart, TokenPart
  <2>2. QED
    BY <1>0, <1>1, <1>5, <2>1 DEF FormFullSet, FormAnySet, handlers
<1>6. ASSUME NEW i \in DOMAIN uploads, HostStores(i)
      PROVE  AnsweredIsStored'
  <2>1. /\ Root(i, sectors[i].data) \in hosts'[uploads[i].contract]
        /\ UNCHANGED sectors
    BY <1>0, <1>6 DEF HostStores, Base, OutsidePart, db
  <2>2. /\ DOMAIN uploads' = DOMAIN uploads
        /\ uploads'[i].contract = uploads[i].contract
        /\ \A k \in DOMAIN uploads : k # i => uploads'[k] = uploads[k]
    BY <1>0, <1>6 DEF HostStores
  <2>3. QED
    BY <1>0, <2>1, <2>2 DEF AnsweredIsStored
<1>7. ASSUME NEW i \in DOMAIN uploads, RecordUpload(i)
      PROVE  AnsweredIsStored'
  <2>1. /\ DOMAIN uploads' = DOMAIN uploads \ {i}
        /\ \A k \in DOMAIN uploads' : uploads'[k] = uploads[k]
        /\ \A k \in DOMAIN sectors : k # i => sectors'[k] = sectors[k]
    BY <1>7, DbTyped DEF RecordUpload, Restrict
  <2>2. QED
    BY <1>0, <2>1, AnswersStay
<1>8. ASSUME NEW i \in DOMAIN uploads, FailUpload(i)
      PROVE  AnsweredIsStored'
  <2>1. /\ DOMAIN uploads' = DOMAIN uploads \ {i}
        /\ \A k \in DOMAIN uploads' : uploads'[k] = uploads[k]
        /\ UNCHANGED sectors
    BY <1>8 DEF FailUpload, Restrict, db
  <2>2. QED
    BY <1>0, <2>1, AnswersStay
<1>9. ASSUME NEW j \in DOMAIN uploadingSets, AssignContracts(j)
      PROVE  AnsweredIsStored'
  <2>1. CASE Missing(j) \cap DOMAIN uploads # {}
    <3>1. Die("parallel uploadSector")
      BY <1>9, <2>1 DEF AssignContracts
    <3>2. QED
      BY <3>1, <1>2
  <2>2. CASE Missing(j) \cap DOMAIN uploads = {}
    <3>1. PICK offered \in SUBSET Contracts :
            \E chosen \in Injection(Missing(j), Candidates(j, offered)) :
              uploads' = [i \in DOMAIN uploads \cup Missing(j) |->
                            IF i \in Missing(j)
                            THEN [set |-> j, contract |-> chosen[i],
                                  stored |-> FALSE]
                            ELSE uploads[i]]
      BY <1>9, <2>2 DEF AssignContracts
    <3>2. PICK chosen \in Injection(Missing(j), Candidates(j, offered)) :
            uploads' = [i \in DOMAIN uploads \cup Missing(j) |->
                          IF i \in Missing(j)
                          THEN [set |-> j, contract |-> chosen[i],
                                stored |-> FALSE]
                          ELSE uploads[i]]
      BY <3>1
    <3>3. \A i \in DOMAIN uploads' :
            \/ ~uploads'[i].stored
            \/ i \in DOMAIN uploads /\ uploads'[i] = uploads[i]
      BY <3>2
    <3>4. UNCHANGED sectors
      BY <1>9, <2>2 DEF AssignContracts, db
    <3>5. QED
      BY <1>0, <3>3, <3>4, AnswersStay
  <2>3. QED
    BY <2>1, <2>2
<1>10. ASSUME NEW j \in DOMAIN uploadingSets,
              RefuseSet(j) \/ PanicOnHistory(j) \/ FinishUpload(j)
       PROVE  AnsweredIsStored'
  BY <1>1, <1>2, <1>10 DEF RefuseSet, PanicOnHistory, FinishUpload, db
<1>11. CASE HandleSet
  BY <1>1, <1>2, <1>11 DEF HandleSet, db
<1>12. QED
  BY <1>1, <1>3, <1>4, <1>5, <1>6, <1>7, <1>8, <1>9, <1>10, <1>11
     DEF Run, SignalData, ReadSector, HandlePending, SendNewSet,
         UploadAllPending, SendAnySet, ContinueUploads, SendResumed, ResendSet,
         MinutePasses, db, handlers

\* Only DumpDb writes the dump.
LEMMA DiskStays == Run \/ Crash \/ Restart => UNCHANGED disk
BY DEF Run, AllocateSector, WriteSector, SignalData, ReadSector, HandlePending,
       FormFullSet, SendNewSet, UploadAllPending, FormAnySet, SendAnySet,
       ContinueUploads, SendResumed, HandleSet, ResendSet, RefuseSet,
       PanicOnHistory, AssignContracts, FinishUpload, HostStores, RecordUpload,
       FailUpload, MinutePasses, Crash, Restart, Die, outside

LEMMA DataStep ==
  ASSUME Base, DataInv, [Next]_vars
  PROVE  DataInv'
<1>0. \A c \in Contracts : hosts[c] \subseteq hosts'[c]
  BY HostsKeep
<1>1. ASSUME UNCHANGED disk
      PROVE  DataOK(disk.sectors, disk.sets, disk.pending)'
  <2>1. \A i \in DOMAIN disk.sectors : SectorOK(i, disk.sectors[i])'
    <3>1. \A i \in DOMAIN disk.sectors :
            disk.sectors[i].contract \in Contracts \cup {NoContract}
      BY DEF Base, DiskPart, DbOK, Sector
    <3>2. QED
      BY <1>0, <1>1, <3>1 DEF DataInv, DataOK, SectorOK
  <2>2. QED
    BY <1>1, <2>1 DEF DataInv, DataOK
<1>2. CASE Crash
  BY <1>1, <1>2, DiskStays DEF Crash, Die, DataInv, DataOK, AnsweredIsStored
<1>3. CASE Restart
  <2>1. DOMAIN uploads' = {}
    BY <1>3 DEF Base, MemoryEmpty, Restart, handlers
  <2>2. UNCHANGED <<disk, hosts>> /\ sectors' = disk.sectors
        /\ sets' = disk.sets /\ pending' = disk.pending
    BY <1>3 DEF Restart
  <2>3. QED
    BY <2>1, <2>2 DEF DataInv, DataOK, SectorOK, AnsweredIsStored
<1>4. CASE DumpDb
  <2>1. UNCHANGED <<sectors, sets, pending, uploads, hosts>>
    BY <1>4 DEF DumpDb, db, handlers
  <2>2. \/ UNCHANGED disk
        \/ /\ disk'.sectors = sectors /\ disk'.sets = sets
           /\ disk'.pending = pending
    BY <1>4 DEF DumpDb
  <2>3. DataOK(sectors, sets, pending)' /\ AnsweredIsStored'
    BY <2>1 DEF DataInv, DataOK, SectorOK, AnsweredIsStored
  <2>4. DataOK(disk.sectors, disk.sets, disk.pending)'
    <3>1. CASE UNCHANGED disk
      BY <1>1, <3>1
    <3>2. ASSUME disk'.sectors = sectors, disk'.sets = sets,
                 disk'.pending = pending
          PROVE  DataOK(disk.sectors, disk.sets, disk.pending)'
      BY <2>1, <3>2 DEF DataInv, DataOK, SectorOK
    <3>3. QED
      BY <2>2, <3>1, <3>2
  <2>5. QED
    BY <2>3, <2>4 DEF DataInv
<1>5. CASE UNCHANGED vars
  BY <1>5 DEF vars, db, handlers, outside, DataInv, DataOK, SectorOK,
              AnsweredIsStored
<1>6. CASE Run
  BY <1>1, <1>6, DiskStays, RunKeepsData, RunKeepsAnswers DEF DataInv
<1>7. QED
  BY <1>2, <1>3, <1>4, <1>5, <1>6 DEF Next

THEOREM DataInvariant == Spec => []DataInv
<1>1. Init => DataInv
  BY DEF Init, EmptyDb, DataInv, DataOK, AnsweredIsStored
<1>2. Base /\ DataInv /\ [Next]_vars => DataInv'
  BY DataStep
<1>3. QED
  BY <1>1, <1>2, BaseInvariant, PTL DEF Spec

-----------------------------------------------------------------------------
(* What follows from it                                                    *)

\* While the process lives no filled sector changes its content, and one
\* whose data was dropped is on the host of its contract.
THEOREM ContentIsKept == Spec => ContentKept
<1> DEFINE Keeps ==
      status = "up" /\ status' = "up" =>
        \A i \in DOMAIN sectors :
          sectors[i] # EmptySector =>
            /\ Content(sectors'[i]) = Content(sectors[i])
            /\ sectors'[i].data = NoData =>
                 sectors'[i].root \in hosts'[sectors'[i].contract]
<1>1. Base /\ DataInv /\ DataInv' /\ [Next]_vars => [Keeps]_vars
  <2> SUFFICES ASSUME Base, DataInv, DataInv', Next,
                      status = "up", status' = "up",
                      NEW i \in DOMAIN sectors, sectors[i] # EmptySector
               PROVE  /\ Content(sectors'[i]) = Content(sectors[i])
                      /\ sectors'[i].data = NoData =>
                           sectors'[i].root \in hosts'[sectors'[i].contract]
    OBVIOUS
  <2>1. ~IsEmpty(sectors[i])
    BY EmptyIsNew
  <2>2. /\ i \in DOMAIN sectors'
        /\ ~IsEmpty(sectors'[i])
        /\ Content(sectors'[i]) = Content(sectors[i])
    <3>1. CASE Run
      BY <2>1, <3>1, ContentStays
    <3>2. CASE DumpDb
      BY <2>1, <3>2 DEF DumpDb, db
    <3>3. QED
      BY <3>1, <3>2 DEF Next, Crash, Restart, Die
  <2>3. SectorOK(i, sectors[i])'
    BY <2>2 DEF DataInv, DataOK
  <2>4. QED
    BY <2>2, <2>3 DEF SectorOK, IsEmpty, EmptySector
<1>2. QED
  BY <1>1, BaseInvariant, DataInvariant, PTL DEF Spec, ContentKept

\* What holds of the database in memory.
LEMMA DatabaseOK ==
  ASSUME Base, ContractInv, DataInv
  PROVE  /\ next - 1 \in Nat
         /\ DbOK(next - 1, sectors, sets, pending)
         /\ Placed(sectors, sets, pending)
         /\ DataOK(sectors, sets, pending)
         /\ Separated(sectors, sets)
<1>1. Separated(sectors, sets)
  BY RecordedIsDone DEF ContractInv, DistinctContracts, Separated, SetIds, InSet
<1>2. QED
  BY <1>1 DEF Base, DbPart, DataInv

\* The parity sectors of every set encode its data sectors, and a recorded root
\* is the root of that sector, while the process runs and after it has loaded a
\* whole dump.
THEOREM ParityMatches == Spec => []ParityMatchesData
<1>1. ASSUME Base, ContractInv, DataInv PROVE ParityMatchesData
  <2> SUFFICES ASSUME NEW j \in SetIds
               PROVE  LET datas == [k \in DOMAIN sets[j].data |->
                                      Content(sectors[sets[j].data[k]])]
                      IN /\ \A k \in DOMAIN sets[j].parity :
                              Content(sectors[sets[j].parity[k]]) = Encode(k, datas)
                         /\ \A i \in InSet(j) : \/ sectors[i].root = NoRoot
                                                \/ sectors[i].root.id = i
    BY DEF ParityMatchesData
  <2>1. DbOK(next - 1, sectors, sets, pending) /\ DataOK(sectors, sets, pending)
    BY <1>1, DatabaseOK
  <2>2. SetOK(sectors, sets[j])
    BY <2>1 DEF DataOK, SetIds
  <2>3. ASSUME NEW i \in InSet(j)
        PROVE  sectors[i].root = NoRoot \/ sectors[i].root.id = i
    <3>1. i \in DOMAIN sectors
      BY <1>1, <2>1, DatabaseOK, DbFacts DEF SetIds, InSet
    <3>2. QED
      BY <2>1, <3>1 DEF DataOK, SectorOK, EmptySector
  <2>4. QED
    BY <2>2, <2>3 DEF SetOK
<1>2. QED
  BY <1>1, BaseInvariant, ContractInvariant, DataInvariant, PTL

\* A list without repetitions is as long as what it lists.
LEMMA OnceLength ==
  ASSUME NEW S, NEW q \in Seq(S), \A k, l \in DOMAIN q : q[k] = q[l] => k = l
  PROVE  IsFiniteSet(Range(q)) /\ Cardinality(Range(q)) = Len(q)
<1>1. DOMAIN q = 1 .. Len(q) /\ Len(q) \in Nat
  BY LenProperties
<1>2. q \in Bijection(1 .. Len(q), Range(q))
  BY <1>1 DEF Bijection, Injection, Surjection, IsInjective, Range
<1>3. IsFiniteSet(1 .. Len(q)) /\ Cardinality(1 .. Len(q)) = Len(q)
  BY <1>1, FS_Interval
<1>4. QED
  BY <1>2, <1>3, FS_Bijection DEF ExistsBijection

\* However many contracts are lost, at most as many sectors of a set are.
LEMMA SetSurvives ==
  ASSUME NEW n \in Nat, NEW secs, NEW ss, NEW pend,
         DbOK(n, secs, ss, pend), Placed(secs, ss, pend),
         DataOK(secs, ss, pend), Separated(secs, ss),
         NEW j \in DOMAIN ss,
         NEW lost \in SUBSET Contracts, Cardinality(lost) <= Nparity
  PROVE  Len(ss[j].data) <=
           Cardinality({i \in Ids(ss[j]) : Readable(secs[i], lost)})
<1> DEFINE set == ss[j]
           D == Range(set.data)
           P == Range(set.parity)
           R == {i \in Ids(set) : Readable(secs[i], lost)}
           U == Ids(set) \ R
<1>1. SetOK(secs, set) /\ Ids(set) = D \cup P
  BY DEF DataOK, Ids
<1>2. set.data \in Seq(1 .. n) /\ set.parity \in Seq(1 .. n)
  <2>1. ss \in Seq(SetRecords(n))
    BY DEF DbOK, SetRecords
  <2>2. set \in SetRecords(n)
    BY <2>1, ElementOfSeq, LenProperties
  <2>3. QED
    BY <2>2 DEF SetRecords
<1>3. /\ IsFiniteSet(D) /\ Cardinality(D) = Len(set.data)
      /\ IsFiniteSet(P) /\ Cardinality(P) = Nparity
      /\ D \cap P = {}
      /\ Len(set.data) \in Nat
  <2> HIDE DEF set
  <2>1. /\ \A k, l \in DOMAIN set.data : set.data[k] = set.data[l] => k = l
        /\ \A k, l \in DOMAIN set.parity : set.parity[k] = set.parity[l] => k = l
        /\ D \cap P = {} /\ Len(set.parity) = Nparity
    BY <1>1 DEF SetOK
  <2>2. QED
    BY <1>2, <2>1, OnceLength, LenProperties
<1>4. /\ IsFiniteSet(Ids(set))
      /\ Cardinality(Ids(set)) = Len(set.data) + Nparity
  <2> HIDE DEF D, P
  <2>1. /\ IsFiniteSet(D \cup P)
        /\ Cardinality(D \cup P) =
             Cardinality(D) + Cardinality(P) - Cardinality(D \cap P)
    BY <1>3, FS_Union
  <2>2. Cardinality(D \cap P) = 0 /\ Nparity \in Nat
    BY <1>3, FS_EmptySet, ManagerAssumption DEF ManagerAssumption
  <2>3. QED
    BY <1>1, <1>3, <2>1, <2>2
<1>5. \A i \in U : secs[i].contract \in lost
  <2> SUFFICES ASSUME NEW i \in U PROVE secs[i].contract \in lost
    OBVIOUS
  <2>1. i \in DOMAIN secs /\ ~IsEmpty(secs[i])
    BY DbFacts DEF Placed
  <2>2. SectorOK(i, secs[i])
    BY <2>1 DEF DataOK
  <2>3. ~Readable(secs[i], lost)
    OBVIOUS
  <2> HIDE DEF U, set
  <2>4. QED
    BY <2>1, <2>2, <2>3 DEF SectorOK, IsEmpty, EmptySector, Readable
<1>6. [i \in U |-> secs[i].contract] \in Injection(U, lost)
  <2>1. ASSUME NEW a \in U, NEW b \in U, secs[a].contract = secs[b].contract
        PROVE  a = b
    <3>1. secs[a].contract # NoContract
      BY <1>5, ManagerAssumption DEF ManagerAssumption
    <3>2. QED
      BY <2>1, <3>1 DEF Separated
  <2> HIDE DEF U
  <2>2. QED
    BY <1>5, <2>1 DEF Injection, IsInjective
<1>7. IsFiniteSet(lost)
  BY FS_Subset, ManagerAssumption DEF ManagerAssumption
<1>8. IsFiniteSet(U) /\ Cardinality(U) <= Cardinality(lost)
  <2> HIDE DEF U
  <2>1. QED
    BY <1>6, <1>7, FS_Injection
<1>9. /\ IsFiniteSet(R)
      /\ Cardinality(U) = Cardinality(Ids(set)) - Cardinality(R)
  <2>1. IsFiniteSet(R)
    BY <1>4, FS_Subset
  <2>2. Ids(set) \cap R = R
    OBVIOUS
  <2> HIDE DEF R, set
  <2>3. Cardinality(Ids(set) \ R) =
          Cardinality(Ids(set)) - Cardinality(Ids(set) \cap R)
    BY <1>4, FS_Difference
  <2>4. QED
    BY <2>1, <2>2, <2>3
<1>10. /\ Cardinality(R) \in Nat /\ Cardinality(U) \in Nat
       /\ Cardinality(lost) \in Nat /\ Nparity \in Nat
  BY <1>7, <1>8, <1>9, FS_CardinalityType, ManagerAssumption DEF ManagerAssumption
<1> HIDE DEF R, U, D, P
<1>11. Len(set.data) <= Cardinality(R)
  BY <1>3, <1>4, <1>8, <1>9, <1>10
<1>12. QED
  BY <1>11 DEF R

\* Whichever Nparity contracts are lost, enough sectors of every set stay
\* readable to rebuild the others, through failures and retries and after a
\* restart from a whole dump.
THEOREM LossIsSurvived == Spec => []SurvivesContractLoss
<1>1. ASSUME Base, ContractInv, DataInv PROVE SurvivesContractLoss
  <2> SUFFICES ASSUME NEW j \in DOMAIN sets, NEW lost \in SUBSET Contracts,
                      Cardinality(lost) <= Nparity
               PROVE  Len(sets[j].data) <=
                        Cardinality({i \in Ids(sets[j]) : Readable(sectors[i], lost)})
    BY DEF SurvivesContractLoss, SetIds, InSet
  <2>1. QED
    BY <1>1, DatabaseOK, SetSurvives
<1>2. QED
  BY <1>1, BaseInvariant, ContractInvariant, DataInvariant, PTL

\* The places of a sector, one by one.
LEMMA PlacesOf ==
  ASSUME NEW i, NEW p
  PROVE  p \in Places(i) <=>
           \/ \E k \in DOMAIN pending :
                pending[k] = i /\ p = <<0, "pending", k>>
           \/ \E j \in SetIds :
                \/ \E k \in DOMAIN sets[j].data :
                     sets[j].data[k] = i /\ p = <<j, "data", k>>
                \/ \E k \in DOMAIN sets[j].parity :
                     sets[j].parity[k] = i /\ p = <<j, "parity", k>>
BY DEF Places

\* A filled sector is pending once or in one set once; an allocated one that
\* nobody filled is in no list.
THEOREM SectorsHaveTheirPlace == Spec => []EverySectorHasItsPlace
<1>1. ASSUME Base, DataInv PROVE EverySectorHasItsPlace
  <2>1. Placed(sectors, sets, pending) /\ DataOK(sectors, sets, pending)
    BY <1>1 DEF Base, DbPart, DataInv
  <2>2. /\ \A j \in SetIds : \A k \in DOMAIN sets[j].data :
             sets[j].data[k] \in Ids(sets[j])
        /\ \A j \in SetIds : \A k \in DOMAIN sets[j].parity :
             sets[j].parity[k] \in Ids(sets[j])
    BY DEF Ids, Range
  <2>3. ASSUME NEW i \in DOMAIN sectors, sectors[i] = EmptySector
        PROVE  Places(i) = {}
    <3>1. \A k \in DOMAIN pending : pending[k] # i
      BY <2>1, <2>3, ManagerAssumption
         DEF Placed, EmptySector, Contents, ManagerAssumption
    <3>2. \A j \in SetIds : i \notin Ids(sets[j])
      BY <2>1, <2>3 DEF Placed, EmptySector, IsEmpty, SetIds
    <3>3. \A p : p \notin Places(i)
      BY <2>2, <3>1, <3>2, PlacesOf
    <3>4. QED
      BY <3>3
  <2>4. ASSUME NEW i \in DOMAIN sectors, sectors[i] # EmptySector
        PROVE  \E p : Places(i) = {p}
    <3>1. CASE i \in Range(pending)
      <4>1. PICK k \in DOMAIN pending : pending[k] = i
        BY <3>1 DEF Range
      <4>2. /\ \A l \in DOMAIN pending : pending[l] = i => l = k
            /\ \A j \in SetIds : i \notin Ids(sets[j])
        BY <2>1, <4>1 DEF Placed, SetIds
      <4>3. Places(i) = {<<0, "pending", k>>}
        <5>1. ASSUME NEW p, p \in Places(i) PROVE p = <<0, "pending", k>>
          <6>1. \E l \in DOMAIN pending :
                  pending[l] = i /\ p = <<0, "pending", l>>
            BY <2>2, <4>2, <5>1, PlacesOf
          <6>2. QED
            BY <4>2, <6>1
        <5>2. <<0, "pending", k>> \in Places(i)
          BY <4>1, PlacesOf
        <5>3. QED
          BY <5>1, <5>2, Zenon
      <4>4. QED
        BY <4>3
    <3>2. ASSUME NEW j \in SetIds, i \in Ids(sets[j])
          PROVE  \E p : Places(i) = {p}
      <4>1. /\ \A k \in DOMAIN pending : pending[k] # i
            /\ \A l \in SetIds : i \in Ids(sets[l]) => l = j
        BY <2>1, <3>2 DEF Placed, SetIds
      <4>2. /\ \A k, l \in DOMAIN sets[j].data :
                 sets[j].data[k] = sets[j].data[l] => k = l
            /\ \A k, l \in DOMAIN sets[j].parity :
                 sets[j].parity[k] = sets[j].parity[l] => k = l
            /\ \A k \in DOMAIN sets[j].data, l \in DOMAIN sets[j].parity :
                 sets[j].data[k] # sets[j].parity[l]
        <5>1. SetOK(sectors, sets[j])
          BY <2>1 DEF DataOK, SetIds
        <5>2. /\ \A k \in DOMAIN sets[j].data :
                   sets[j].data[k] \in Range(sets[j].data)
              /\ \A k \in DOMAIN sets[j].parity :
                   sets[j].parity[k] \in Range(sets[j].parity)
          BY DEF Range
        <5>3. QED
          BY <5>1, <5>2 DEF SetOK
      <4>3. CASE i \in Range(sets[j].data)
        <5>1. PICK k \in DOMAIN sets[j].data : sets[j].data[k] = i
          BY <4>3 DEF Range
        <5>2. ASSUME NEW p, p \in Places(i) PROVE p = <<j, "data", k>>
          <6>1. \E l \in DOMAIN sets[j].data :
                  sets[j].data[l] = i /\ p = <<j, "data", l>>
            BY <2>2, <4>1, <4>2, <5>1, <5>2, PlacesOf
          <6>2. QED
            BY <4>2, <5>1, <6>1
        <5>3. <<j, "data", k>> \in Places(i)
          BY <5>1, PlacesOf
        <5>4. QED
          BY <5>2, <5>3, Zenon
      <4>4. CASE i \in Range(sets[j].parity)
        <5>1. PICK k \in DOMAIN sets[j].parity : sets[j].parity[k] = i
          BY <4>4 DEF Range
        <5>2. ASSUME NEW p, p \in Places(i) PROVE p = <<j, "parity", k>>
          <6>1. \E l \in DOMAIN sets[j].parity :
                  sets[j].parity[l] = i /\ p = <<j, "parity", l>>
            BY <2>2, <4>1, <4>2, <5>1, <5>2, PlacesOf
          <6>2. QED
            BY <4>2, <5>1, <6>1
        <5>3. <<j, "parity", k>> \in Places(i)
          BY <5>1, PlacesOf
        <5>4. QED
          BY <5>2, <5>3, Zenon
      <4>5. QED
        BY <3>2, <4>3, <4>4 DEF Ids
    <3>3. ~IsEmpty(sectors[i])
      BY <1>1, <2>4, EmptyIsNew
    <3>4. QED
      BY <2>1, <3>1, <3>2, <3>3 DEF DataOK, SetIds
  <2>5. ASSUME NEW i \in DOMAIN sectors
        PROVE  Cardinality(Places(i)) = One(sectors[i] # EmptySector)
    BY <2>3, <2>4, FS_EmptySet, FS_Singleton DEF One
  <2>6. QED
    BY <2>5 DEF EverySectorHasItsPlace
<1>2. QED
  BY <1>1, BaseInvariant, DataInvariant, PTL

\* Everything the proofs rest on holds in every reachable state, of the database
\* in memory and of the last dump that was whole.
THEOREM InductiveHolds == Spec => []InductiveInvariant
<1>1. Base /\ TokenInv /\ ContractInv /\ DataInv => InductiveInvariant
  BY BaseIsTypeOK
     DEF Base, DbPart, UploadPart, DiskPart, TokenInv, ContractInv, DataInv,
         InductiveInvariant
<1>2. QED
  BY <1>1, BaseInvariant, TokenInvariant, ContractInvariant, DataInvariant,
     PTL

=============================================================================
