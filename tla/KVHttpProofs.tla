----------------------------- MODULE KVHttpProofs -----------------------------
(***************************************************************************)
(* Proofs about ZipKV, and about KVHttp which runs on it, for every value  *)
(* of the constants.  Of the store: its types, and that the map in memory  *)
(* is what a restart replays from the history (Typed); which index names   *)
(* there are, and which a start finds (NamesOK); that no block an index    *)
(* refers to is written again (NumbersOK); where values are (PlacesInv),   *)
(* from which the store over whole files implements KVStore.  Of the       *)
(* server: it takes steps of the store only, what a GET holds stays the    *)
(* value found, and the last value of some bytes put before the signal is  *)
(* on disk when the listener is closed.                                    *)
(***************************************************************************)
EXTENDS KVHttp, TLAPS, SequenceTheorems, WellFoundedInduction

-----------------------------------------------------------------------------
(* Extreme elements                                                        *)

\* A set of natural numbers that is not empty has a least element.
LEMMA MinOfNat ==
  ASSUME NEW S, S \subseteq Nat, S # {}
  PROVE  Min(S) \in S /\ \A y \in S : Min(S) <= y
<1> DEFINE R == OpToRel(<, Nat)
<1>1. IsWellFoundedOn(R, Nat)
  BY NatLessThanWellFounded
<1>2. R = {ss \in Nat \X Nat : ss[1] < ss[2]}
  BY Zenon DEF OpToRel
<1> HIDE DEF R
<1>3. \E x \in S : \A y \in S : ~(<<y, x>> \in R)
  BY <1>1, WFMin
<1>4. \E x \in S : \A y \in S : x <= y
  <2>1. PICK x \in S : \A y \in S : ~(<<y, x>> \in R)
    BY <1>3
  <2>2. ASSUME NEW y \in S PROVE x <= y
    <3>1. x \in Nat /\ y \in Nat /\ ~(<<y, x>> \in {ss \in Nat \X Nat : ss[1] < ss[2]})
      BY <1>2, <2>1
    <3>2. QED
      BY ONLY <3>1
  <2>3. QED
    BY <2>2
<1>5. QED
  BY <1>4 DEF Min

\* One that is bounded has a greatest element.
LEMMA MaxOfBounded ==
  ASSUME NEW n \in Nat, NEW S, S \subseteq 1 .. n, S # {}
  PROVE  Max(S) \in S /\ \A y \in S : y <= Max(S)
<1> DEFINE T == {n - x : x \in S}
<1>1. \A x \in S : x \in 1 .. n /\ n - x \in Nat
  OBVIOUS
<1>2. T \subseteq Nat /\ T # {}
  BY <1>1
<1>3. Min(T) \in T /\ \A u \in T : Min(T) <= u
  BY <1>2, MinOfNat
<1>4. PICK x \in S : n - x = Min(T)
  BY <1>3
<1>5. ASSUME NEW y \in S PROVE x >= y
  <2>1. n - y \in T
    OBVIOUS
  <2>2. n - x <= n - y
    BY <2>1, <1>3, <1>4
  <2> HIDE DEF T
  <2>3. QED
    BY <2>2, <1>1
<1>6. QED
  BY <1>4, <1>5, <1>1 DEF Max

-----------------------------------------------------------------------------
(* Replaying a history                                                     *)

\* A record added to a history decides its own key and no other.
LEMMA AppendedRecord ==
  ASSUME NEW h \in Seq(HistoryRecord), NEW r \in HistoryRecord
  PROVE  LET g == Append(h, r)
         IN /\ HasFile(g, r.key) <=> r.put
            /\ Found(g, r.key) = r.loc
            /\ \A k \in Keys \ {r.key} :
                 /\ HasFile(g, k) <=> HasFile(h, k)
                 /\ HasFile(h, k) => Found(g, k) = Found(h, k)
<1> DEFINE g == Append(h, r)
           n == Len(h) + 1
<1>1. /\ n \in Nat \ {0}
      /\ DOMAIN h = 1 .. n - 1 /\ DOMAIN g = 1 .. n
      /\ g[n] = r
      /\ \A i \in 1 .. n - 1 : g[i] = h[i]
  BY AppendProperties, LenProperties
<1> HIDE DEF g, n
<1>2. Records(g, r.key) \in SUBSET (1 .. n) /\ n \in Records(g, r.key)
  BY <1>1 DEF Records
<1>3. Max(Records(g, r.key)) = n
  <2> DEFINE S == Records(g, r.key)
  <2>1. n \in Nat /\ S \in SUBSET (1 .. n) /\ S # {} /\ n \in S
    BY <1>1, <1>2
  <2> HIDE DEF S
  <2>2. Max(S) \in S /\ \A y \in S : y <= Max(S)
    BY ONLY <2>1, MaxOfBounded
  <2> DEFINE x == Max(S)
  <2>3. x \in 1 .. n /\ n <= x
    BY <2>1, <2>2
  <2> HIDE DEF x
  <2>4. x = n
    BY ONLY <2>1, <2>3
  <2>5. QED
    BY <2>4 DEF S, x
<1>4. ASSUME NEW k \in Keys \ {r.key}
      PROVE  /\ HasFile(g, k) <=> HasFile(h, k)
             /\ HasFile(h, k) => Found(g, k) = Found(h, k)
  <2>1. Records(g, k) = Records(h, k) /\ Records(h, k) \in SUBSET (1 .. n - 1)
    BY <1>1 DEF Records
  <2>2. Records(h, k) # {} => Max(Records(h, k)) \in 1 .. n - 1
    <3> DEFINE S == Records(h, k)
               m == n - 1
    <3>1. m \in Nat /\ S \in SUBSET (1 .. m)
      BY <1>1, <2>1
    <3> HIDE DEF S, m
    <3>2. S # {} => Max(S) \in S
      BY <3>1, MaxOfBounded
    <3>3. QED
      BY <3>1, <3>2 DEF S, m
  <2>3. QED
    BY <1>1, <2>1, <2>2 DEF HasFile, Found
<1>5. QED
  BY <1>1, <1>2, <1>3, <1>4 DEF HasFile, Found, g

LEMMA ReplayPut ==
  ASSUME NEW h \in Seq(HistoryRecord), NEW k \in Keys, NEW loc \in Location
  PROVE  Replay(Append(h, PutRecord(k, loc))) = Assign(Replay(h), k, loc)
<1>1. PutRecord(k, loc) \in HistoryRecord
  BY DEF PutRecord, HistoryRecord
<1> DEFINE g == Append(h, PutRecord(k, loc))
<1>2. /\ HasFile(g, k) /\ Found(g, k) = loc
      /\ \A j \in Keys \ {k} :
           /\ HasFile(g, j) <=> HasFile(h, j)
           /\ HasFile(h, j) => Found(g, j) = Found(h, j)
  BY <1>1, AppendedRecord DEF PutRecord
<1> HIDE DEF g
<1>3. {j \in Keys : HasFile(g, j)} = {j \in Keys : HasFile(h, j)} \cup {k}
  BY <1>2
<1>4. QED
  BY <1>2, <1>3 DEF Replay, Assign, g

LEMMA ReplayDelete ==
  ASSUME NEW h \in Seq(HistoryRecord), NEW k \in Keys
  PROVE  LET fs == Replay(h)
         IN Replay(Append(h, DeleteRecord(k))) = Restrict(fs, DOMAIN fs \ {k})
<1>1. DeleteRecord(k) \in HistoryRecord
  BY DEF DeleteRecord, HistoryRecord
<1> DEFINE g == Append(h, DeleteRecord(k))
<1>2. /\ ~HasFile(g, k)
      /\ \A j \in Keys \ {k} :
           /\ HasFile(g, j) <=> HasFile(h, j)
           /\ HasFile(h, j) => Found(g, j) = Found(h, j)
  BY <1>1, AppendedRecord DEF DeleteRecord
<1> HIDE DEF g
<1>3. {j \in Keys : HasFile(g, j)} = {j \in Keys : HasFile(h, j)} \ {k}
  BY <1>2
<1>4. QED
  BY <1>2, <1>3 DEF Replay, Restrict, g

\* The files of a history are at locations.
LEMMA ReplayTyped ==
  ASSUME NEW h \in Seq(HistoryRecord)
  PROVE  DOMAIN Replay(h) \subseteq Keys /\ Range(Replay(h)) \subseteq Location
<1>1. \A n \in DOMAIN h : h[n] \in HistoryRecord
  BY ElementOfSeq, LenProperties
<1>2. ASSUME NEW k \in Keys, HasFile(h, k) PROVE Found(h, k) \in Location
  <2>1. Records(h, k) \subseteq 1 .. Len(h) /\ Len(h) \in Nat
    BY LenProperties DEF Records
  <2>2. Max(Records(h, k)) \in DOMAIN h
    BY <1>2, <2>1, MaxOfBounded, LenProperties DEF HasFile
  <2>3. QED
    BY <1>1, <1>2, <2>2 DEF HasFile, Found, HistoryRecord
<1>3. QED
  BY <1>2 DEF Replay, Range

LEMMA ReplayEmpty == Replay(<< >>) = << >>
<1>1. \A k \in Keys : ~HasFile(<< >>, k)
  BY DEF HasFile, Records
<1>2. QED
  BY <1>1 DEF Replay

-----------------------------------------------------------------------------
(* Types, and the map in memory                                            *)

CallOK == call \in {NoCall, [op |-> "sync"]} \cup
            [op : {"put"}, key : Keys, value : Values, meta : Metas]
IndexRecord == [whole : {TRUE}, nextBlock : Nat, history : Seq(HistoryRecord)]
DbsOK ==
  /\ DOMAIN dbs \subseteq 0 .. MaxDbName
  /\ \A i \in DOMAIN dbs : dbs[i] = Torn \/ dbs[i] \in IndexRecord
BlocksOK == DOMAIN blocks \subseteq Nat /\ Range(blocks) \subseteq Seq(Values)

\* The inductive form of TypeOK: the files are those of the history, whether
\* the process is up or not.
Typed ==
  /\ up \in BOOLEAN
  /\ history \in Seq(HistoryRecord) /\ files = Replay(history)
  /\ nextBlock \in Nat
  /\ next \in Seq(Values)
  /\ currDb \in -1 .. MaxDbName
  /\ CallOK
  /\ stage \in {"no", "block", "db", "delete", "done"}
  /\ BlocksOK
  /\ DbsOK
  /\ errors \in 0 .. MaxErrors /\ crashes \in 0 .. MaxCrashes

LEMMA TypedIsTypeOK == Typed => TypeOK /\ FilesMatchHistory
BY ReplayTyped DEF Typed, TypeOK, FilesMatchHistory, CallOK, DbsOK, BlocksOK,
                   IndexRecord

\* The index names rotate within their range.
LEMMA NextDbTyped ==
  ASSUME currDb \in -1 .. MaxDbName
  PROVE  /\ NextDb \in 0 .. MaxDbName
         /\ currDb = MaxDbName => NextDb = 0
         /\ currDb # MaxDbName => NextDb = currDb + 1
<1> DEFINE b == MaxDbName + 1
           a == currDb + 1
<1>1. a \in 0 .. b /\ b \in Nat \ {0}
  BY ZipKVAssumption
<1>2. a < b => a % b = a
  BY <1>1
<1>3. b % b = 0
  BY <1>1
<1>4. QED
  BY <1>1, <1>2, <1>3, ZipKVAssumption DEF NextDb

\* The index a start would find is one of those there are.
LEMMA FindDbTyped ==
  ASSUME DbsOK
  PROVE  /\ DOMAIN dbs = {} => FindDb = -1
         /\ DOMAIN dbs # {} => /\ FindDb \in DOMAIN dbs
                               /\ \A i \in DOMAIN dbs : FindDb <= i
         /\ FindDb \in -1 .. MaxDbName
<1>1. DOMAIN dbs \subseteq 0 .. MaxDbName /\ MaxDbName \in Nat
  BY ZipKVAssumption DEF DbsOK
<1>2. DOMAIN dbs # {} => /\ Min(DOMAIN dbs) \in DOMAIN dbs
                         /\ \A i \in DOMAIN dbs : Min(DOMAIN dbs) <= i
  BY <1>1, MinOfNat
<1>3. QED
  BY <1>1, <1>2 DEF FindDb

\* The tail of Put adds a record to the history, its file and its value.
LEMMA Added ==
  ASSUME Typed, NEW k \in Keys, NEW v \in Values, NEW m \in Metas,
         NEW values \in Seq(Values), Add(k, v, m, values)
  PROVE  /\ history' \in Seq(HistoryRecord) /\ files' = Replay(history')
         /\ next' \in Seq(Values)
<1> DEFINE loc == [block |-> nextBlock, pos |-> Len(values) + 1, meta |-> m]
<1>1. loc \in Location
  BY LenProperties DEF Typed, Location
<1>2. /\ history' = Append(history, PutRecord(k, loc))
      /\ files' = Assign(files, k, loc)
      /\ next' = Append(values, v)
  BY DEF Add, Record
<1>3. PutRecord(k, loc) \in HistoryRecord
  BY <1>1 DEF PutRecord, HistoryRecord
<1> HIDE DEF loc
<1>4. QED
  BY <1>1, <1>2, <1>3, ReplayPut, AppendProperties DEF Typed

LEMMA InitTyped == Init => Typed
<1> SUFFICES ASSUME Init PROVE Typed
  OBVIOUS
<1>1. BlocksOK /\ DbsOK /\ CallOK
  BY DEF Init, BlocksOK, DbsOK, CallOK, Range
<1>2. files = Replay(history) /\ history \in Seq(HistoryRecord)
  BY ReplayEmpty, EmptySeq DEF Init
<1>3. QED
  BY <1>1, <1>2, EmptySeq, ZipKVAssumption DEF Init, Typed

\* Blocks and indexes keep their types when a file is written or removed.
LEMMA AssignedBlock ==
  ASSUME BlocksOK, NEW b \in Nat, NEW values \in Seq(Values),
         blocks' = Assign(blocks, b, values)
  PROVE  BlocksOK'
BY DEF BlocksOK, Assign, Range

LEMMA AssignedIndex ==
  ASSUME DbsOK, NEW n \in 0 .. MaxDbName, NEW x, x = Torn \/ x \in IndexRecord,
         dbs' = Assign(dbs, n, x)
  PROVE  DbsOK'
BY DEF DbsOK, Assign

LEMMA RemovedIndex ==
  ASSUME DbsOK, NEW n, dbs' = Restrict(dbs, DOMAIN dbs \ {n})
  PROVE  DbsOK'
BY DEF DbsOK, Restrict

LEMMA NextTyped == Typed /\ [Next]_vars => Typed'
<1> SUFFICES ASSUME Typed, [Next]_vars PROVE Typed'
  OBVIOUS
<1> USE DEF Typed
<1>1. ASSUME UNCHANGED vars PROVE Typed'
  BY <1>1 DEF vars, memory, backend, CallOK, BlocksOK, DbsOK
<1>2. ASSUME NEW k \in Keys, NEW v \in Values, NEW m \in Metas, Put(k, v, m)
      PROVE  Typed'
  BY <1>2, Added DEF Put, backend, CallOK, BlocksOK, DbsOK
<1>3. ASSUME NEW k \in Keys, NEW v \in Values, NEW m \in Metas,
             PutToNewBlock(k, v, m)
      PROVE  Typed'
  <2>1. CallOK'
    BY <1>3 DEF PutToNewBlock, CallOK
  <2>2. QED
    BY <1>3, <2>1 DEF PutToNewBlock, backend, BlocksOK, DbsOK
<1>4. ASSUME NEW dst \in Keys, NEW src \in Keys, NEW m \in Metas,
             Link(dst, src, m)
      PROVE  Typed'
  <2> DEFINE loc == [files[src] EXCEPT !.meta = m]
  <2>1. files[src] \in Location
    BY <1>4, ReplayTyped DEF Link, Range
  <2>2. loc \in Location
    BY <2>1 DEF Location
  <2>3. PutRecord(dst, loc) \in HistoryRecord
    BY <2>2 DEF PutRecord, HistoryRecord
  <2>4. /\ history' = Append(history, PutRecord(dst, loc))
        /\ files' = Assign(files, dst, loc)
    BY <1>4 DEF Link, Record
  <2> HIDE DEF loc
  <2>5. history' \in Seq(HistoryRecord) /\ files' = Replay(history')
    BY <2>2, <2>3, <2>4, ReplayPut, AppendProperties
  <2>6. QED
    BY <1>4, <2>5 DEF Link, backend, CallOK, BlocksOK, DbsOK
<1>5. ASSUME NEW k \in Keys, Delete(k) PROVE Typed'
  <2>1. DeleteRecord(k) \in HistoryRecord
    BY DEF DeleteRecord, HistoryRecord
  <2>2. history' \in Seq(HistoryRecord) /\ files' = Replay(history')
    BY <1>5, <2>1, ReplayDelete, AppendProperties DEF Delete, Record
  <2>3. QED
    BY <1>5, <2>2 DEF Delete, backend, CallOK, BlocksOK, DbsOK
<1>6. CASE Sync
  <2>1. CallOK'
    BY <1>6 DEF Sync, CallOK
  <2>2. QED
    BY <1>6, <2>1 DEF Sync, backend, BlocksOK, DbsOK
<1>7. CASE TearFile
  <2>1. UNCHANGED <<up, memory, errors, crashes>>
    BY <1>7 DEF TearFile
  <2>2. BlocksOK'
    <3>1. << >> \in Seq(Values)
      BY EmptySeq
    <3>2. CASE blocks' = Assign(blocks, nextBlock, << >>)
      BY <3>1, <3>2, AssignedBlock
    <3>3. CASE UNCHANGED blocks
      BY <3>3 DEF BlocksOK
    <3>4. QED
      BY <1>7, <3>2, <3>3 DEF TearFile
  <2>3. DbsOK'
    <3>1. CASE dbs' = Assign(dbs, NextDb, Torn)
      BY <3>1, NextDbTyped, AssignedIndex
    <3>2. CASE UNCHANGED dbs
      BY <3>2 DEF DbsOK
    <3>3. QED
      BY <1>7, <3>1, <3>2 DEF TearFile
  <2>4. QED
    BY <2>1, <2>2, <2>3 DEF memory, CallOK
<1>8. CASE WriteBlock
  <2>1. BlocksOK'
    BY <1>8, AssignedBlock DEF WriteBlock
  <2>2. QED
    BY <1>8, <2>1 DEF WriteBlock, NumberAfterBlock, CallOK, DbsOK
<1>9. CASE WriteDb
  <2>1. Index(nextBlock, history) \in IndexRecord
    BY DEF Index, IndexRecord
  <2>2. DbsOK'
    BY <1>9, <2>1, NextDbTyped, AssignedIndex DEF WriteDb
  <2>3. currDb' \in -1 .. MaxDbName /\ stage' \in {"done", "delete"}
    BY <1>9, NextDbTyped DEF WriteDb
  <2>4. QED
    BY <1>9, <2>2, <2>3 DEF WriteDb, CallOK, BlocksOK
<1>10. CASE DeleteDb
  <2>1. DbsOK'
    BY <1>10, RemovedIndex DEF DeleteDb
  <2>2. QED
    BY <1>10, <2>1, NextDbTyped DEF DeleteDb, CallOK, BlocksOK
<1>11. CASE Finish
  <2>1. CallOK' /\ << >> \in Seq(Values)
    BY <1>11, EmptySeq DEF Finish, CallOK
  <2>2. /\ history' \in Seq(HistoryRecord) /\ files' = Replay(history')
        /\ next' \in Seq(Values)
    <3>1. CASE call.op = "put"
      <4>1. call.key \in Keys /\ call.value \in Values /\ call.meta \in Metas
        BY <3>1 DEF CallOK, NoCall
      <4>2. Add(call.key, call.value, call.meta, << >>)
        BY <1>11, <3>1 DEF Finish
      <4>3. QED
        BY <2>1, <4>1, <4>2, Added
    <3>2. CASE call.op # "put"
      BY <1>11, <3>2, <2>1 DEF Finish
    <3>3. QED
      BY <3>1, <3>2
  <2>3. QED
    BY <1>11, <2>1, <2>2 DEF Finish, backend, BlocksOK, DbsOK
<1>12. CASE Fail
  <2>1. CallOK' /\ errors' \in 0 .. MaxErrors
    BY <1>12, ZipKVAssumption DEF Fail, CallOK
  <2>2. QED
    BY <1>12, <2>1 DEF Fail, backend, BlocksOK, DbsOK
<1>13. CASE Crash
  <2>1. CallOK' /\ crashes' \in 0 .. MaxCrashes
    BY <1>13, ZipKVAssumption DEF Crash, CallOK
  <2>2. files' = Replay(history') /\ history' \in Seq(HistoryRecord)
    BY <1>13, ReplayEmpty, EmptySeq DEF Crash
  <2>3. BlocksOK' /\ DbsOK'
    BY <1>13 DEF Crash, backend, BlocksOK, DbsOK
  <2>4. /\ up' = FALSE /\ nextBlock' = 0 /\ next' = << >> /\ currDb' = -1
        /\ stage' = "no" /\ errors' = errors
    BY <1>13 DEF Crash
  <2>5. -1 \in -1 .. MaxDbName /\ << >> \in Seq(Values)
    BY EmptySeq, ZipKVAssumption
  <2>6. QED
    BY <2>1, <2>2, <2>3, <2>4, <2>5
<1>14. ASSUME NEW n \in 0 .. MaxOps, Open(n) PROVE Typed'
  <2>1. /\ history' \in Seq(HistoryRecord) /\ files' = Replay(history')
        /\ nextBlock' \in Nat
    <3>1. CASE FindDb = -1
      BY <1>14, <3>1 DEF Open
    <3>2. CASE FindDb # -1
      <4>1. dbs[FindDb] \in IndexRecord
        <5>1. FindDb \in DOMAIN dbs
          BY <3>2, FindDbTyped
        <5>2. dbs[FindDb] = Torn \/ dbs[FindDb] \in IndexRecord
          BY <5>1 DEF DbsOK
        <5>3. dbs[FindDb].whole
          BY <1>14, <3>2 DEF Open
        <5>4. QED
          BY <5>2, <5>3 DEF Torn
      <4>2. /\ dbs[FindDb].history \in Seq(HistoryRecord)
            /\ dbs[FindDb].nextBlock \in Nat
        BY <4>1 DEF IndexRecord
      <4> DEFINE h == dbs[FindDb].history
      <4>3. n \in 1 .. Len(h) /\ history' = SubSeq(h, 1, n)
        BY <1>14, <3>2 DEF Open
      <4>4. \A i \in 1 .. n : h[i] \in HistoryRecord
        BY <4>2, <4>3, ElementOfSeq
      <4> HIDE DEF h
      <4>5. history' \in Seq(HistoryRecord)
        BY <4>3, <4>4, SubSeqProperties
      <4>6. QED
        BY <1>14, <3>2, <4>2, <4>5 DEF Open
    <3>3. QED
      BY <3>1, <3>2
  <2>2. currDb' \in -1 .. MaxDbName
    BY <1>14, FindDbTyped DEF Open
  <2>3. QED
    BY <1>14, <2>1, <2>2 DEF Open, backend, CallOK, BlocksOK, DbsOK
<1>15. QED
  BY <1>1, <1>2, <1>3, <1>4, <1>5, <1>6, <1>7, <1>8, <1>9, <1>10, <1>11, <1>12,
     <1>13, <1>14 DEF Next, WholeNext

THEOREM TypedInvariant == Spec => []Typed
BY InitTyped, NextTyped, PTL DEF Spec

\* What holds over any backend holds over one whose files are whole: Sync, Put
\* and the others make the same steps.
THEOREM WholeIsSpec == WholeSpec => Spec
<1>1. [WholeNext]_vars => [Next]_vars
  BY DEF Next
<1>2. QED
  BY <1>1, PTL DEF WholeSpec, Spec

\* Every variable of the store and of its backend keeps its type.
THEOREM Typing == Spec => []TypeOK
BY TypedInvariant, TypedIsTypeOK, PTL

\* The map that Get uses is at all times the one a restart would compute from
\* the history.
THEOREM FilesAreHistory == Spec => []FilesMatchHistory
BY TypedInvariant, TypedIsTypeOK, PTL


-----------------------------------------------------------------------------
(* The names of the indexes                                                *)

\* Beside the index c in force there can be the next one and, left by a crash
\* while the names wrapped around, the last one.
NamesAt(D, c) ==
  \/ c = -1 /\ D \subseteq {0}
  \/ /\ c \in D
     /\ \A i \in D : i \in {c, c + 1, MaxDbName} \/ (c = MaxDbName /\ i = 0)

\* Where writeDb is, the index it has written and the one it is to delete.
NamesOK ==
  /\ ~up => stage = "no"
  /\ NamesAt(DOMAIN dbs, IF up THEN currDb ELSE FindDb)
  /\ stage = "delete" =>
       /\ currDb # -1
       /\ NextDb \in DOMAIN dbs
       /\ dbs[NextDb] = Index(nextBlock, history)
  /\ stage = "done" =>
       /\ currDb \in DOMAIN dbs
       /\ DOMAIN dbs \subseteq {currDb, MaxDbName}
       /\ dbs[currDb] = Index(nextBlock, history)

\* The lowest name is the one in force, or name 0 where the names wrap around.
LEMMA LowestName ==
  ASSUME DbsOK, NEW c \in -1 .. MaxDbName, NamesAt(DOMAIN dbs, c)
  PROVE  /\ NamesAt(DOMAIN dbs, FindDb)
         /\ c \notin {-1, MaxDbName} => FindDb = c
         /\ c # -1 => FindDb # -1
<1>1. DOMAIN dbs \subseteq 0 .. MaxDbName /\ MaxDbName \in Nat \ {0}
  BY ZipKVAssumption DEF DbsOK
<1>2. CASE c = -1
  <2>1. DOMAIN dbs \subseteq {0}
    BY <1>1, <1>2 DEF NamesAt
  <2>2. FindDb = -1 \/ (FindDb = 0 /\ 0 \in DOMAIN dbs)
    <3>1. CASE DOMAIN dbs = {}
      BY <3>1, FindDbTyped
    <3>2. CASE DOMAIN dbs # {}
      <4>1. FindDb \in DOMAIN dbs
        BY <3>2, FindDbTyped
      <4>2. QED
        BY <4>1, <2>1
    <3>3. QED
      BY <3>1, <3>2
  <2>3. NamesAt(DOMAIN dbs, -1)
    BY <2>1 DEF NamesAt
  <2>4. ASSUME 0 \in DOMAIN dbs PROVE NamesAt(DOMAIN dbs, 0)
    <3>1. \A i \in DOMAIN dbs : i = 0
      BY <2>1
    <3>2. QED
      BY ONLY <2>4, <3>1 DEF NamesAt
  <2>5. QED
    BY <1>2, <2>2, <2>3, <2>4
<1>3. CASE c # -1
  <2>1. /\ c \in DOMAIN dbs
        /\ \A i \in DOMAIN dbs : i \in {c, c + 1, MaxDbName}
                                   \/ (c = MaxDbName /\ i = 0)
    BY <1>1, <1>3 DEF NamesAt
  <2>2. /\ FindDb \in DOMAIN dbs /\ FindDb <= c
        /\ \A i \in DOMAIN dbs : FindDb <= i
    BY <2>1, FindDbTyped
  <2>3. CASE FindDb = c
    BY <2>3, <1>3 DEF NamesAt
  <2>4. CASE FindDb # c
    <3>1. FindDb = 0 /\ c = MaxDbName
      BY <1>1, <2>1, <2>2, <2>4
    <3>2. \A i \in DOMAIN dbs : i \in {0, MaxDbName}
      BY <1>1, <2>1, <3>1
    <3>3. QED
      BY <1>1, <2>2, <3>1, <3>2 DEF NamesAt
  <2>5. QED
    BY <2>3, <2>4
<1>4. QED
  BY <1>2, <1>3

\* What writing the next index, whole or torn, does to the names.
LEMMA NextName ==
  ASSUME DbsOK, currDb \in -1 .. MaxDbName, NamesAt(DOMAIN dbs, currDb), NEW x,
         dbs' = Assign(dbs, NextDb, x)
  PROVE  /\ NamesAt(DOMAIN dbs', currDb)
         /\ NextDb # currDb /\ NextDb \in 0 .. MaxDbName
         /\ DOMAIN dbs' = DOMAIN dbs \cup {NextDb}
         /\ dbs'[NextDb] = x
         /\ \A i \in DOMAIN dbs : i # NextDb => dbs'[i] = dbs[i]
<1>1. /\ NextDb \in 0 .. MaxDbName /\ MaxDbName \in Nat \ {0}
      /\ currDb = MaxDbName => NextDb = 0
      /\ currDb # MaxDbName => NextDb = currDb + 1
  BY NextDbTyped, ZipKVAssumption
<1>2. /\ DOMAIN dbs' = DOMAIN dbs \cup {NextDb}
      /\ dbs'[NextDb] = x
      /\ \A i \in DOMAIN dbs : i # NextDb => dbs'[i] = dbs[i]
  BY DEF Assign
<1>3. NamesAt(DOMAIN dbs', currDb)
  BY <1>1, <1>2 DEF NamesAt
<1>4. QED
  BY <1>1, <1>2, <1>3

LEMMA InitNames == Init => NamesOK
BY DEF Init, NamesOK, NamesAt

LEMMA NextNames == Typed /\ NamesOK /\ [Next]_vars => NamesOK'
<1> SUFFICES ASSUME Typed, NamesOK, [Next]_vars PROVE NamesOK'
  OBVIOUS
<1>0. /\ DbsOK /\ currDb \in -1 .. MaxDbName
      /\ MaxDbName \in Nat \ {0}
  BY ZipKVAssumption DEF Typed
<1>1. ASSUME UNCHANGED vars PROVE NamesOK'
  BY <1>1 DEF vars, memory, backend, NamesOK, NextDb, FindDb
<1>2. ASSUME UNCHANGED <<up, currDb, dbs>>, stage' \in {"no", "block"}, up
      PROVE  NamesOK'
  BY <1>2 DEF NamesOK
<1>3. ASSUME NEW k \in Keys, NEW v \in Values, NEW m \in Metas,
             Put(k, v, m) \/ PutToNewBlock(k, v, m)
      PROVE  NamesOK'
  BY <1>2, <1>3 DEF Put, PutToNewBlock, Idle, backend
<1>4. ASSUME NEW dst \in Keys, NEW src \in Keys, NEW m \in Metas,
             Link(dst, src, m)
      PROVE  NamesOK'
  BY <1>2, <1>4 DEF Link, Idle, backend
<1>5. ASSUME NEW k \in Keys, Delete(k) PROVE NamesOK'
  BY <1>2, <1>5 DEF Delete, Idle, backend
<1>6. CASE Sync
  BY <1>2, <1>6 DEF Sync, Idle, backend
<1>7. CASE TearFile
  <2>1. CASE UNCHANGED dbs
    BY <1>7, <2>1 DEF TearFile, memory, NamesOK, NextDb, FindDb
  <2>2. CASE stage = "db" /\ dbs' = Assign(dbs, NextDb, Torn)
    <3>1. NamesAt(DOMAIN dbs', currDb)
      BY <1>0, <1>7, <2>2, NextName DEF TearFile, NamesOK
    <3>2. QED
      BY <1>7, <2>2, <3>1 DEF TearFile, memory, NamesOK
  <2>3. QED
    BY <1>7, <2>1, <2>2 DEF TearFile
<1>8. CASE WriteBlock
  BY <1>8 DEF WriteBlock, NamesOK
<1>9. CASE WriteDb
  <2>1. dbs' = Assign(dbs, NextDb, Index(nextBlock, history))
    BY <1>9 DEF WriteDb
  <2>2. NamesAt(DOMAIN dbs, currDb)
    BY <1>9 DEF WriteDb, NamesOK
  <2>3. /\ NamesAt(DOMAIN dbs', currDb)
        /\ NextDb # currDb /\ NextDb \in 0 .. MaxDbName
        /\ DOMAIN dbs' = DOMAIN dbs \cup {NextDb}
        /\ dbs'[NextDb] = Index(nextBlock, history)
    BY <1>0, <2>1, <2>2, NextName
  <2>4. CASE currDb = -1
    <3>1. NextDb = 0 /\ currDb' = 0 /\ stage' = "done"
      BY <1>0, <1>9, <2>4, NextDbTyped DEF WriteDb
    <3>2. DOMAIN dbs' = {0}
      BY <1>0, <2>2, <2>3, <2>4, <3>1 DEF NamesAt, DbsOK
    <3>3. dbs'[0] = Index(nextBlock', history')
      BY <1>9, <2>3, <3>1 DEF WriteDb
    <3>4. QED
      BY <1>0, <1>9, <3>1, <3>2, <3>3 DEF WriteDb, NamesOK, NamesAt
  <2>5. CASE currDb # -1
    <3>1. UNCHANGED <<up, currDb, nextBlock, history>> /\ stage' = "delete" /\ up
      BY <1>9, <2>5 DEF WriteDb
    <3>2. NextDb' = NextDb
      BY <3>1 DEF NextDb
    <3>3. Index(nextBlock, history)' = Index(nextBlock, history)
      BY <3>1
    <3>4. QED
      BY <2>3, <2>5, <3>1, <3>2, <3>3 DEF NamesOK
  <2>6. QED
    BY <2>4, <2>5
<1>10. CASE DeleteDb
  <2>1. /\ up /\ currDb # -1 /\ NextDb \in DOMAIN dbs
        /\ dbs[NextDb] = Index(nextBlock, history)
        /\ NamesAt(DOMAIN dbs, currDb)
    BY <1>10 DEF DeleteDb, NamesOK
  <2>2. /\ DOMAIN dbs' = DOMAIN dbs \ {currDb}
        /\ \A i \in DOMAIN dbs' : dbs'[i] = dbs[i]
        /\ currDb' = NextDb /\ stage' = "done" /\ up'
        /\ UNCHANGED <<nextBlock, history>>
    BY <1>10 DEF DeleteDb, Restrict
  <2>3. /\ NextDb \in 0 .. MaxDbName
        /\ currDb = MaxDbName => NextDb = 0
        /\ currDb # MaxDbName => NextDb = currDb + 1
    BY <1>0, NextDbTyped
  <2>4. NextDb \in DOMAIN dbs' /\ DOMAIN dbs' \subseteq {NextDb, MaxDbName}
    <3> DEFINE n == NextDb
               D == DOMAIN dbs
    <3>1. \A i \in D : i \in {currDb, currDb + 1, MaxDbName}
                         \/ (currDb = MaxDbName /\ i = 0)
      BY <2>1 DEF NamesAt
    <3>2. n # currDb /\ n = IF currDb = MaxDbName THEN 0 ELSE currDb + 1
      BY <1>0, <2>1, <2>3
    <3>3. D \subseteq 0 .. MaxDbName
      BY <1>0 DEF DbsOK
    <3> HIDE DEF n, D
    <3>4. \A i \in D \ {currDb} : i \in {n, MaxDbName}
      BY ONLY <1>0, <3>1, <3>2, <3>3
    <3>5. n \in D \ {currDb} /\ DOMAIN dbs' = D \ {currDb}
      BY <2>1, <2>2, <3>2 DEF n, D
    <3>6. QED
      BY <3>4, <3>5 DEF n
  <2>5. dbs'[NextDb] = Index(nextBlock', history')
    BY <2>1, <2>2, <2>4
  <2>6. NamesAt(DOMAIN dbs', NextDb)
    BY <2>4 DEF NamesAt
  <2>7. /\ NamesAt(DOMAIN dbs', currDb')
        /\ currDb' \in DOMAIN dbs' /\ DOMAIN dbs' \subseteq {currDb', MaxDbName}
        /\ dbs'[currDb'] = Index(nextBlock', history')
    BY <2>2, <2>4, <2>5, <2>6
  <2>8. QED
    BY ONLY <2>2, <2>7 DEF NamesOK
<1>11. CASE Finish
  BY <1>2, <1>11 DEF Finish, backend
<1>12. CASE Fail
  BY <1>2, <1>12 DEF Fail, backend
<1>13. CASE Crash
  <2>1. NamesAt(DOMAIN dbs, currDb) /\ UNCHANGED dbs /\ ~up' /\ stage' = "no"
    BY <1>13 DEF Crash, backend, NamesOK
  <2>2. NamesAt(DOMAIN dbs, FindDb)
    BY <1>0, <2>1, LowestName
  <2>3. FindDb' = FindDb
    BY <2>1 DEF FindDb
  <2>4. QED
    BY <2>1, <2>2, <2>3 DEF NamesOK
<1>14. ASSUME NEW n \in 0 .. MaxOps, Open(n) PROVE NamesOK'
  BY <1>14 DEF Open, backend, NamesOK
<1>15. QED
  BY <1>1, <1>3, <1>4, <1>5, <1>6, <1>7, <1>8, <1>9, <1>10, <1>11, <1>12, <1>13,
     <1>14 DEF Next, WholeNext

THEOREM NamesInvariant == Spec => [](Typed /\ NamesOK)
BY InitTyped, NextTyped, InitNames, NextNames, PTL DEF Spec

LEMMA DoneIsDurable == Typed /\ NamesOK => WriteNextIsDurable
<1> SUFFICES ASSUME Typed, NamesOK, stage = "done"
             PROVE  SavedHistory = history
  BY DEF WriteNextIsDurable
<1>1. /\ currDb \in DOMAIN dbs
      /\ DOMAIN dbs \subseteq {currDb, MaxDbName}
      /\ dbs[currDb] = Index(nextBlock, history)
  BY DEF NamesOK
<1>2. DbsOK /\ DOMAIN dbs \subseteq 0 .. MaxDbName /\ MaxDbName \in Nat
  BY ZipKVAssumption DEF Typed, DbsOK
<1>3. FindDb = currDb
  BY <1>1, <1>2, FindDbTyped
<1>4. QED
  BY <1>1, <1>2, <1>3 DEF SavedHistory, Index

\* When writeNext has succeeded, a start finds the index it has written.
THEOREM WriteNextDurable == Spec => []WriteNextIsDurable
  BY DoneIsDurable, NamesInvariant, PTL

-----------------------------------------------------------------------------
(* The numbers of the blocks                                               *)

\* The records of a history are in blocks with numbers below n.
Below(h, n) == \A i \in DOMAIN h : h[i].put => h[i].loc.block < n

\* All blocks below n are written.
Written(n) == \A b \in 0 .. n - 1 : b \in DOMAIN blocks

\* An index file refers to blocks that are written, and its number of the
\* next block is above them.
IndexesOK ==
  \A i \in DOMAIN dbs : dbs[i].whole =>
    Below(dbs[i].history, dbs[i].nextBlock) /\ Written(dbs[i].nextBlock)

\* The index that a start would find counts no more blocks than the process.
ForceOK ==
  IF currDb = -1 THEN \A i \in DOMAIN dbs : ~dbs[i].whole
  ELSE /\ dbs[currDb].whole /\ dbs[currDb].nextBlock <= nextBlock
       /\ currDb = MaxDbName /\ 0 \in DOMAIN dbs /\ dbs[0].whole
            => dbs[0].nextBlock <= nextBlock

NumbersOK ==
  /\ IndexesOK
  /\ ~up => history = << >> /\ nextBlock = 0
  /\ up => /\ Below(history, nextBlock + 1)
           /\ stage \in {"db", "delete", "done"} => Below(history, nextBlock)
           /\ Written(nextBlock)
           /\ ForceOK

\* A record added to a history is in its range if its block is.
LEMMA BelowAppend ==
  ASSUME NEW h \in Seq(HistoryRecord), NEW r \in HistoryRecord, NEW n \in Nat,
         Below(h, n), r.put => r.loc.block < n
  PROVE  Below(Append(h, r), n)
<1> DEFINE g == Append(h, r)
<1>1. /\ DOMAIN g = 1 .. Len(h) + 1 /\ g[Len(h) + 1] = r
      /\ \A i \in 1 .. Len(h) : g[i] = h[i]
      /\ DOMAIN h = 1 .. Len(h) /\ Len(h) \in Nat
  BY AppendProperties, LenProperties
<1> HIDE DEF g
<1>2. ASSUME NEW i \in DOMAIN g, g[i].put PROVE g[i].loc.block < n
  <2>1. i = Len(h) + 1 \/ i \in 1 .. Len(h)
    BY <1>1
  <2>2. QED
    BY <1>1, <1>2, <2>1 DEF Below
<1>3. QED
  BY <1>2 DEF Below, g

LEMMA BelowPrefix ==
  ASSUME NEW h \in Seq(HistoryRecord), NEW n \in Nat, NEW m \in 1 .. Len(h),
         Below(h, n)
  PROVE  Below(SubSeq(h, 1, m), n)
<1>1. \A i \in 1 .. m : h[i] \in HistoryRecord
  BY ElementOfSeq
<1>2. /\ DOMAIN SubSeq(h, 1, m) = 1 .. m /\ DOMAIN h = 1 .. Len(h)
      /\ Len(h) \in Nat
      /\ \A i \in 1 .. m : SubSeq(h, 1, m)[i] = h[i]
  BY <1>1, SubSeqProperties, LenProperties
<1>3. QED
  BY <1>2 DEF Below

\* Numbers that were in range stay so when the range grows.
LEMMA BelowMore ==
  ASSUME NEW h \in Seq(HistoryRecord), NEW n \in Nat, NEW m \in Nat, n <= m,
         Below(h, n)
  PROVE  Below(h, m)
<1>1. \A i \in DOMAIN h : h[i] \in HistoryRecord
  BY ElementOfSeq, LenProperties
<1>2. \A i \in DOMAIN h : h[i].put => h[i].loc.block \in Nat
  BY <1>1 DEF HistoryRecord, Location
<1>3. QED
  BY <1>2 DEF Below

\* The block of a file is in the range of its history.
LEMMA FileBelow ==
  ASSUME NEW h \in Seq(HistoryRecord), NEW n \in Nat, Below(h, n),
         NEW k \in DOMAIN Replay(h)
  PROVE  Replay(h)[k].block < n
<1>1. k \in Keys /\ HasFile(h, k) /\ Replay(h)[k] = Found(h, k)
  BY DEF Replay
<1>2. Records(h, k) \subseteq 1 .. Len(h) /\ Len(h) \in Nat
  BY LenProperties DEF Records
<1>3. Max(Records(h, k)) \in DOMAIN h
  BY <1>1, <1>2, MaxOfBounded, LenProperties DEF HasFile
<1>4. QED
  BY <1>1, <1>3 DEF HasFile, Found, Below

LEMMA InitNumbers == Init => NumbersOK
BY DEF Init, NumbersOK, IndexesOK, Below, Written, ForceOK

\* The indexes stay in order when blocks are added and other indexes change.
LEMMA KeptIndexes ==
  ASSUME IndexesOK,
         DOMAIN blocks \subseteq DOMAIN blocks',
         \A i \in DOMAIN dbs' :
           \/ i \in DOMAIN dbs /\ dbs'[i] = dbs[i]
           \/ dbs'[i] = Torn
           \/ /\ dbs'[i] = Index(nextBlock, history)
              /\ Below(history, nextBlock) /\ Written(nextBlock)
  PROVE  IndexesOK'
<1> SUFFICES ASSUME NEW i \in DOMAIN dbs', dbs'[i].whole
             PROVE  /\ Below(dbs'[i].history, dbs'[i].nextBlock)
                    /\ \A b \in 0 .. dbs'[i].nextBlock - 1 : b \in DOMAIN blocks'
  BY DEF IndexesOK, Below, Written
<1>1. CASE i \in DOMAIN dbs /\ dbs'[i] = dbs[i]
  BY <1>1 DEF IndexesOK, Written
<1>2. CASE dbs'[i] = Torn
  BY <1>2 DEF Torn
<1>3. CASE /\ dbs'[i] = Index(nextBlock, history)
           /\ Below(history, nextBlock) /\ Written(nextBlock)
  BY <1>3 DEF Index, Written
<1>4. QED
  BY <1>1, <1>2, <1>3

LEMMA NextNumbers == Typed /\ NamesOK /\ NumbersOK /\ [Next]_vars => NumbersOK'
<1> SUFFICES ASSUME Typed, NamesOK, NumbersOK, [Next]_vars PROVE NumbersOK'
  OBVIOUS
<1>0. /\ DbsOK /\ currDb \in -1 .. MaxDbName
      /\ MaxDbName \in Nat \ {0}
      /\ nextBlock \in Nat /\ nextBlock + 1 \in Nat
      /\ history \in Seq(HistoryRecord)
      /\ files = Replay(history)
      /\ IndexesOK
  BY ZipKVAssumption DEF Typed, NumbersOK
<1>1. ASSUME UNCHANGED vars PROVE NumbersOK'
  BY <1>1 DEF vars, memory, backend, NumbersOK, IndexesOK, Below, Written, ForceOK
<1>2. ASSUME up, UNCHANGED <<up, nextBlock, currDb, backend>>,
             Below(history', nextBlock + 1), stage' \in {"no", "block"}
      PROVE  NumbersOK'
  BY <1>2 DEF backend, NumbersOK, IndexesOK, Below, Written, ForceOK
<1>3. ASSUME up, UNCHANGED <<up, nextBlock, currDb, backend, history>>,
             stage' \in {"no", "block"}
      PROVE  NumbersOK'
  BY <1>2, <1>3 DEF NumbersOK, Below
<1>4. ASSUME NEW k \in Keys, NEW v \in Values, NEW m \in Metas,
             NEW values \in Seq(Values), up, Add(k, v, m, values)
      PROVE  Below(history', nextBlock + 1)
  <2> DEFINE loc == [block |-> nextBlock, pos |-> Len(values) + 1, meta |-> m]
  <2>1. loc \in Location /\ loc.block < nextBlock + 1
    BY <1>0, LenProperties DEF Location
  <2>2. history' = Append(history, PutRecord(k, loc))
    BY <1>4 DEF Add, Record
  <2> HIDE DEF loc
  <2>3. PutRecord(k, loc) \in HistoryRecord /\ PutRecord(k, loc).loc = loc
    BY <2>1 DEF PutRecord, HistoryRecord
  <2>4. Below(history, nextBlock + 1)
    BY <1>4 DEF NumbersOK
  <2>5. QED
    BY <1>0, <2>1, <2>2, <2>3, <2>4, BelowAppend
<1>5. ASSUME NEW k \in Keys, NEW v \in Values, NEW m \in Metas, Put(k, v, m)
      PROVE  NumbersOK'
  BY <1>2, <1>4, <1>5 DEF Put, Idle, Typed
<1>6. ASSUME NEW k \in Keys, NEW v \in Values, NEW m \in Metas,
             PutToNewBlock(k, v, m)
      PROVE  NumbersOK'
  BY <1>3, <1>6 DEF PutToNewBlock, Idle
<1>7. ASSUME NEW dst \in Keys, NEW src \in Keys, NEW m \in Metas,
             Link(dst, src, m)
      PROVE  NumbersOK'
  <2> DEFINE loc == [files[src] EXCEPT !.meta = m]
  <2>1. /\ src \in DOMAIN Replay(history)
        /\ Below(history, nextBlock + 1)
    BY <1>0, <1>7 DEF Link, Idle, NumbersOK
  <2>2. files[src] \in Location
    BY <1>0, <2>1, ReplayTyped DEF Range
  <2>3. files[src].block < nextBlock + 1
    BY <1>0, <2>1, FileBelow
  <2>4. loc \in Location /\ loc.block < nextBlock + 1
    BY <2>2, <2>3 DEF Location
  <2>5. history' = Append(history, PutRecord(dst, loc))
    BY <1>7 DEF Link, Record
  <2> HIDE DEF loc
  <2>6. PutRecord(dst, loc) \in HistoryRecord /\ PutRecord(dst, loc).loc = loc
    BY <2>4 DEF PutRecord, HistoryRecord
  <2>7. Below(history', nextBlock + 1)
    BY <1>0, <2>1, <2>4, <2>5, <2>6, BelowAppend
  <2>8. QED
    BY <1>2, <1>7, <2>7 DEF Link, Idle
<1>8. ASSUME NEW k \in Keys, Delete(k) PROVE NumbersOK'
  <2>1. DeleteRecord(k) \in HistoryRecord /\ ~DeleteRecord(k).put
    BY DEF DeleteRecord, HistoryRecord
  <2>2. Below(history, nextBlock + 1)
    BY <1>8 DEF Delete, Idle, NumbersOK
  <2>3. Below(history', nextBlock + 1)
    BY <1>0, <1>8, <2>1, <2>2, BelowAppend DEF Delete, Record
  <2>4. QED
    BY <1>2, <1>8, <2>3 DEF Delete, Idle
<1>9. CASE Sync
  BY <1>3, <1>9 DEF Sync, Idle
<1>10. CASE Finish
  <2>1. Below(history', nextBlock + 1)
    <3>1. CASE call.op = "put"
      <4>1. call.key \in Keys /\ call.value \in Values /\ call.meta \in Metas
        BY <3>1 DEF Typed, CallOK, NoCall
      <4>2. Add(call.key, call.value, call.meta, << >>) /\ up
        BY <1>10, <3>1 DEF Finish
      <4>3. QED
        BY <1>4, <4>1, <4>2, EmptySeq
    <3>2. CASE call.op # "put"
      BY <1>10, <3>2 DEF Finish, NumbersOK
    <3>3. QED
      BY <3>1, <3>2
  <2>2. QED
    BY <1>2, <1>10, <2>1 DEF Finish
<1>11. CASE Fail
  BY <1>3, <1>11 DEF Fail
<1>12. CASE WriteBlock
  <2>1. /\ up /\ up' /\ nextBlock' = nextBlock + 1 /\ stage' = "db"
        /\ UNCHANGED <<history, currDb, dbs>>
        /\ DOMAIN blocks' = DOMAIN blocks \cup {nextBlock}
    BY <1>12 DEF WriteBlock, NumberAfterBlock, Assign
  <2>2. Below(history, nextBlock') /\ Below(history, nextBlock' + 1)
    BY <1>0, <2>1, BelowMore DEF NumbersOK
  <2>3. Written(nextBlock)'
    BY <1>0, <2>1 DEF NumbersOK, Written
  <2>4. ForceOK'
    <3>1. \A i \in DOMAIN dbs : dbs[i].whole => dbs[i].nextBlock \in Nat
      <4>1. ASSUME NEW i \in DOMAIN dbs, dbs[i].whole
            PROVE  dbs[i].nextBlock \in Nat
        <5>1. dbs[i] # Torn
          BY <4>1 DEF Torn
        <5>2. dbs[i] \in IndexRecord
          BY <1>0, <5>1 DEF DbsOK
        <5>3. QED
          BY <5>2 DEF IndexRecord
      <4>2. QED
        BY <4>1
    <3>2. currDb # -1 => currDb \in DOMAIN dbs
      BY <2>1 DEF NamesOK, NamesAt
    <3>3. ForceOK
      BY <2>1 DEF NumbersOK
    <3>4. CASE currDb = -1
      BY <2>1, <3>3, <3>4 DEF ForceOK
    <3>5. CASE currDb # -1
      <4>1. dbs[currDb].whole /\ dbs[currDb].nextBlock <= nextBlock + 1
        BY <1>0, <3>1, <3>2, <3>3, <3>5 DEF ForceOK
      <4>2. currDb = MaxDbName /\ 0 \in DOMAIN dbs /\ dbs[0].whole
              => dbs[0].nextBlock <= nextBlock + 1
        BY <1>0, <3>1, <3>3, <3>5 DEF ForceOK
      <4>3. QED
        BY <2>1, <3>5, <4>1, <4>2 DEF ForceOK
    <3>6. QED
      BY <3>4, <3>5
  <2>5. IndexesOK'
    BY <1>0, <2>1, KeptIndexes
  <2>6. QED
    BY <2>1, <2>2, <2>3, <2>4, <2>5 DEF NumbersOK, Below
<1>13. CASE TearFile
  <2>1. up /\ UNCHANGED <<up, memory>>
    BY <1>13 DEF TearFile
  <2>2. CASE UNCHANGED dbs /\ blocks' = Assign(blocks, nextBlock, << >>)
    <3>1. DOMAIN blocks \subseteq DOMAIN blocks'
      BY <2>2 DEF Assign
    <3>2. IndexesOK'
      BY <1>0, <2>2, <3>1, KeptIndexes
    <3>3. Written(nextBlock)'
      BY <2>1, <3>1 DEF memory, NumbersOK, Written
    <3>4. QED
      BY <2>1, <2>2, <3>2, <3>3 DEF memory, NumbersOK, Below, ForceOK
  <2>3. CASE /\ stage = "db" /\ UNCHANGED blocks
             /\ dbs' = Assign(dbs, NextDb, Torn)
    <3>1. NamesAt(DOMAIN dbs, currDb)
      BY <2>1 DEF NamesOK
    <3>2. /\ NextDb # currDb
          /\ DOMAIN dbs' = DOMAIN dbs \cup {NextDb}
          /\ dbs'[NextDb] = Torn
          /\ \A i \in DOMAIN dbs : i # NextDb => dbs'[i] = dbs[i]
      BY <1>0, <2>3, <3>1, NextName
    <3>3. IndexesOK'
      BY <1>0, <2>3, <3>2, KeptIndexes
    <3>4. \A i \in DOMAIN dbs' : dbs'[i].whole => i \in DOMAIN dbs /\ dbs'[i] = dbs[i]
      BY <3>2 DEF Torn
    <3>5. currDb # -1 => currDb \in DOMAIN dbs /\ dbs'[currDb] = dbs[currDb]
      BY <3>1, <3>2 DEF NamesAt
    <3>6. ForceOK'
      BY <2>1, <3>4, <3>5 DEF memory, NumbersOK, ForceOK
    <3>7. QED
      BY <2>1, <2>3, <3>3, <3>6 DEF memory, NumbersOK, Below, Written
  <2>4. QED
    BY <1>13, <2>2, <2>3 DEF TearFile
<1>14. CASE WriteDb
  <2>1. /\ up /\ up' /\ stage = "db"
        /\ UNCHANGED <<history, nextBlock, blocks>>
        /\ dbs' = Assign(dbs, NextDb, Index(nextBlock, history))
    BY <1>14 DEF WriteDb
  <2>2. NamesAt(DOMAIN dbs, currDb)
    BY <2>1 DEF NamesOK
  <2>3. /\ NextDb # currDb
        /\ DOMAIN dbs' = DOMAIN dbs \cup {NextDb}
        /\ dbs'[NextDb] = Index(nextBlock, history)
        /\ \A i \in DOMAIN dbs : i # NextDb => dbs'[i] = dbs[i]
    BY <1>0, <2>1, <2>2, NextName
  <2>4. Below(history, nextBlock) /\ Written(nextBlock)
    BY <2>1 DEF NumbersOK
  <2>5. IndexesOK'
    BY <1>0, <2>1, <2>3, <2>4, KeptIndexes
  <2>6. dbs'[NextDb].whole /\ dbs'[NextDb].nextBlock = nextBlock
    BY <2>3 DEF Index
  <2>7. ForceOK'
    <3>1. CASE currDb = -1
      <4>1. currDb' = NextDb /\ NextDb = 0
        BY <1>0, <1>14, <3>1, NextDbTyped DEF WriteDb
      <4>2. QED
        BY <1>0, <2>1, <2>6, <4>1 DEF ForceOK
    <3>2. CASE currDb # -1
      <4>1. currDb' = currDb /\ currDb \in DOMAIN dbs /\ dbs'[currDb] = dbs[currDb]
        BY <1>14, <2>2, <2>3, <3>2 DEF WriteDb, NamesAt
      <4>2. currDb = MaxDbName => NextDb = 0
        BY <1>0, NextDbTyped
      <4>3. ForceOK
        BY <2>1 DEF NumbersOK
      <4>4. QED
        BY <1>0, <2>1, <2>6, <3>2, <4>1, <4>2, <4>3 DEF ForceOK
    <3>3. QED
      BY <3>1, <3>2
  <2>8. QED
    BY <2>1, <2>4, <2>5, <2>7 DEF NumbersOK, Below, Written
<1>15. CASE DeleteDb
  <2>1. /\ up /\ up' /\ stage = "delete"
        /\ UNCHANGED <<history, nextBlock, blocks>>
        /\ currDb' = NextDb
        /\ DOMAIN dbs' = DOMAIN dbs \ {currDb}
        /\ \A i \in DOMAIN dbs' : dbs'[i] = dbs[i]
    BY <1>15 DEF DeleteDb, Restrict
  <2>2. /\ NextDb \in DOMAIN dbs /\ currDb # -1
        /\ dbs[NextDb] = Index(nextBlock, history)
        /\ NamesAt(DOMAIN dbs, currDb)
    BY <2>1 DEF NamesOK
  <2>3. /\ NextDb \in 0 .. MaxDbName /\ NextDb # currDb
        /\ NextDb = MaxDbName => currDb # MaxDbName
        /\ currDb # MaxDbName => NextDb = currDb + 1
    BY <1>0, NextDbTyped
  <2>4. dbs'[NextDb].whole /\ dbs'[NextDb].nextBlock = nextBlock
    BY <2>1, <2>2, <2>3 DEF Index
  <2>5. NextDb = MaxDbName => 0 \notin DOMAIN dbs'
    <3> SUFFICES ASSUME NextDb = MaxDbName, 0 \in DOMAIN dbs', 0 \in DOMAIN dbs
                 PROVE  FALSE
      BY <2>1
    <3>1. currDb # MaxDbName /\ currDb \in DOMAIN dbs
      BY <2>2, <2>3 DEF NamesAt
    <3>2. 0 \in {currDb, currDb + 1, MaxDbName}
      BY <2>2, <3>1 DEF NamesAt
    <3>3. QED
      BY <1>0, <2>1, <2>2, <3>1, <3>2
  <2>6. ForceOK'
    BY <1>0, <2>1, <2>3, <2>4, <2>5 DEF ForceOK
  <2>7. IndexesOK'
    BY <1>0, <2>1, KeptIndexes
  <2>8. QED
    BY <2>1, <2>6, <2>7 DEF NumbersOK, Below, Written
<1>16. CASE Crash
  <2>1. /\ ~up' /\ history' = << >> /\ nextBlock' = 0
        /\ UNCHANGED <<blocks, dbs>>
    BY <1>16 DEF Crash, backend
  <2>2. QED
    BY <1>0, <2>1 DEF NumbersOK, IndexesOK, Written
<1>17. ASSUME NEW n \in 0 .. MaxOps, Open(n) PROVE NumbersOK'
  <2>1. /\ up' /\ ~up /\ currDb' = FindDb /\ stage' = "no"
        /\ UNCHANGED <<blocks, dbs>>
    BY <1>17 DEF Open, backend, NamesOK
  <2>2. IndexesOK'
    BY <1>0, <2>1 DEF IndexesOK, Written
  <2>3. CASE FindDb = -1
    <3>1. DOMAIN dbs = {}
      <4>1. -1 \notin DOMAIN dbs
        BY <1>0 DEF DbsOK
      <4>2. QED
        BY <1>0, <2>3, <4>1, FindDbTyped
    <3>2. history' = << >> /\ nextBlock' = 0
      BY <1>17, <2>1, <2>3 DEF Open, NumbersOK
    <3>3. QED
      BY <2>1, <2>2, <2>3, <3>1, <3>2
         DEF NumbersOK, Below, Written, ForceOK
  <2>4. CASE FindDb # -1
    <3> DEFINE db == dbs[FindDb]
    <3>1. /\ FindDb \in DOMAIN dbs
          /\ \A i \in DOMAIN dbs : FindDb <= i
      BY <1>0, <2>4, FindDbTyped
    <3>2. /\ db.whole
          /\ n \in 1 .. Len(db.history)
          /\ history' = SubSeq(db.history, 1, n)
          /\ nextBlock' = db.nextBlock
      BY <1>17, <2>4 DEF Open
    <3>3. db \in IndexRecord
      <4>1. db # Torn
        BY <3>2 DEF Torn
      <4>2. QED
        BY <1>0, <3>1, <4>1 DEF DbsOK
    <3>4. db.history \in Seq(HistoryRecord) /\ db.nextBlock \in Nat
      BY <3>3 DEF IndexRecord
    <3>5. Below(db.history, db.nextBlock) /\ Written(db.nextBlock)
      BY <1>0, <3>1, <3>2 DEF IndexesOK
    <3> HIDE DEF db
    <3>6. Below(db.history, db.nextBlock + 1)
      BY <3>4, <3>5, BelowMore
    <3>7. Below(history', nextBlock' + 1)
      BY <3>2, <3>4, <3>6, BelowPrefix
    <3>8. Written(nextBlock)'
      BY <2>1, <3>2, <3>5 DEF Written
    <3>9. FindDb = MaxDbName => 0 \notin DOMAIN dbs
      BY <1>0, <3>1
    <3>10. ForceOK'
      BY <2>1, <2>4, <3>2, <3>4, <3>9 DEF ForceOK, db
    <3>11. QED
      BY <2>1, <2>2, <3>7, <3>8, <3>10 DEF NumbersOK, Below
  <2>5. QED
    BY <2>3, <2>4
<1>18. QED
  BY <1>1, <1>5, <1>6, <1>7, <1>8, <1>9, <1>10, <1>11, <1>12, <1>13, <1>14,
     <1>15, <1>16, <1>17 DEF Next, WholeNext

THEOREM NumbersInvariant == Spec => [](Typed /\ NamesOK /\ NumbersOK)
BY InitTyped, NextTyped, InitNames, NextNames, InitNumbers, NextNumbers, PTL
   DEF Spec

-----------------------------------------------------------------------------
(* What a start finds is kept                                              *)

\* A whole index that a start would find counts no more blocks than the
\* process does, and is the one in force or name 0 where the names wrap around.
LEMMA FoundIndex ==
  ASSUME Typed, NamesOK, NumbersOK, up, FindDb # -1, dbs[FindDb].whole
  PROVE  /\ currDb # -1
         /\ currDb # MaxDbName => FindDb = currDb
         /\ FindDb \in DOMAIN dbs /\ dbs[FindDb] \in IndexRecord
         /\ dbs[FindDb].nextBlock <= nextBlock
<1>1. /\ DbsOK /\ currDb \in -1 .. MaxDbName /\ NamesAt(DOMAIN dbs, currDb)
      /\ ForceOK
  BY DEF Typed, NamesOK, NumbersOK
<1>2. FindDb \in DOMAIN dbs /\ \A i \in DOMAIN dbs : FindDb <= i
  BY <1>1, FindDbTyped
<1>3. dbs[FindDb] \in IndexRecord
  <2>1. dbs[FindDb] # Torn
    BY DEF Torn
  <2>2. QED
    BY <1>1, <1>2, <2>1 DEF DbsOK
<1>4. currDb # -1
  BY <1>1, <1>2 DEF ForceOK
<1>5. currDb # MaxDbName => FindDb = currDb
  BY <1>1, <1>4, LowestName
<1>6. FindDb = currDb \/ (currDb = MaxDbName /\ FindDb = 0)
  <2>1. currDb \in DOMAIN dbs /\ NamesAt(DOMAIN dbs, FindDb)
    BY <1>1, <1>4, LowestName DEF NamesAt
  <2>2. CASE currDb = MaxDbName
    <3>1. FindDb \in {currDb, currDb + 1, MaxDbName} \/ FindDb = 0
      BY <1>1, <1>2, <1>4 DEF NamesAt
    <3>2. FindDb <= currDb
      BY <1>2, <2>1
    <3>3. QED
      BY <1>1, <2>2, <3>1, <3>2
  <2>3. QED
    BY <1>5, <2>2
<1>7. dbs[FindDb].nextBlock <= nextBlock
  BY <1>1, <1>2, <1>4, <1>6 DEF ForceOK
<1>8. QED
  BY <1>2, <1>3, <1>4, <1>5, <1>7

\* Blocks change only under the number of the next one.
LEMMA NextBlocks ==
  ASSUME [Next]_vars
  PROVE  \/ UNCHANGED blocks
         \/ /\ up
            /\ DOMAIN blocks' = DOMAIN blocks \cup {nextBlock}
            /\ \A b \in DOMAIN blocks : b # nextBlock => blocks'[b] = blocks[b]
<1>1. ASSUME UNCHANGED vars PROVE UNCHANGED blocks
  BY <1>1 DEF vars, backend
<1>2. ASSUME NEW k \in Keys, NEW v \in Values, NEW m \in Metas,
             Put(k, v, m) \/ PutToNewBlock(k, v, m)
      PROVE  UNCHANGED blocks
  BY <1>2 DEF Put, PutToNewBlock, backend
<1>3. ASSUME NEW dst \in Keys, NEW src \in Keys, NEW m \in Metas,
             Link(dst, src, m)
      PROVE  UNCHANGED blocks
  BY <1>3 DEF Link, backend
<1>4. ASSUME NEW k \in Keys, Delete(k) PROVE UNCHANGED blocks
  BY <1>4 DEF Delete, backend
<1>5. CASE TearFile \/ WriteBlock
  BY <1>5 DEF TearFile, WriteBlock, Assign
<1>6. CASE Sync \/ WriteDb \/ DeleteDb \/ Finish \/ Fail \/ Crash
  BY <1>6 DEF Sync, WriteDb, DeleteDb, Finish, Fail, Crash, backend
<1>7. ASSUME NEW n \in 0 .. MaxOps, Open(n) PROVE UNCHANGED blocks
  BY <1>7 DEF Open, backend
<1>8. QED
  BY <1>1, <1>2, <1>3, <1>4, <1>5, <1>6, <1>7 DEF Next, WholeNext

\* What an index in force refers to is there and is not written again.
SavedBlocksStay ==
  \A n \in DOMAIN SavedHistory : SavedHistory[n].put =>
    LET b == SavedHistory[n].loc.block
    IN b \in DOMAIN blocks /\ b \in DOMAIN blocks' /\ blocks'[b] = blocks[b]

LEMMA StepKeepsSaved == Typed /\ NamesOK /\ NumbersOK /\ [Next]_vars => SavedBlocksStay
<1> SUFFICES ASSUME Typed, NamesOK, NumbersOK, [Next]_vars,
                    NEW n \in DOMAIN SavedHistory, SavedHistory[n].put
             PROVE  LET b == SavedHistory[n].loc.block
                    IN b \in DOMAIN blocks /\ b \in DOMAIN blocks' /\ blocks'[b] = blocks[b]
  BY DEF SavedBlocksStay
<1> DEFINE db == dbs[FindDb]
           b == SavedHistory[n].loc.block
<1>1. FindDb # -1 /\ db.whole /\ SavedHistory = db.history
  BY DEF SavedHistory
<1>2. FindDb \in DOMAIN dbs /\ db \in IndexRecord
  <2>1. DbsOK
    BY DEF Typed
  <2>2. db # Torn
    BY <1>1 DEF Torn
  <2>3. QED
    BY <1>1, <2>1, <2>2, FindDbTyped DEF DbsOK
<1>3. Below(db.history, db.nextBlock) /\ Written(db.nextBlock)
  BY <1>1, <1>2 DEF NumbersOK, IndexesOK
<1>4. b < db.nextBlock /\ b \in Nat /\ db.nextBlock \in Nat
  <2>1. db.history \in Seq(HistoryRecord) /\ db.nextBlock \in Nat
    BY <1>2 DEF IndexRecord
  <2>2. db.history[n] \in HistoryRecord
    BY <1>1, <2>1, ElementOfSeq, LenProperties
  <2>3. b \in Nat
    BY <1>1, <2>2 DEF HistoryRecord, Location
  <2>4. QED
    BY <1>1, <1>3, <2>1, <2>3 DEF Below
<1>5. b \in DOMAIN blocks
  BY <1>3, <1>4 DEF Written
<1>6. up => db.nextBlock <= nextBlock
  BY <1>1, FoundIndex
<1>7. nextBlock \in Nat
  BY DEF Typed
<1> HIDE DEF db, b
<1>8. b \in DOMAIN blocks' /\ blocks'[b] = blocks[b]
  BY <1>4, <1>5, <1>6, <1>7, NextBlocks
<1>9. QED
  BY <1>5, <1>8 DEF b

\* No step, crash or failure changes a block that the index in force refers to.
THEOREM SavedBlocksKept == Spec => SavedBlocksUnchanged
<1>1. SavedBlocksStay =>
        \A n \in DOMAIN SavedHistory : SavedHistory[n].put =>
          LET b == SavedHistory[n].loc.block
          IN b \in DOMAIN blocks' /\ blocks'[b] = blocks[b]
  BY DEF SavedBlocksStay
<1>2. QED
  BY <1>1, StepKeepsSaved, NumbersInvariant, PTL DEF Spec, SavedBlocksUnchanged

\* Which index a start would find.
FindsCurrent ==
  up => /\ currDb # -1 => FindDb # -1
        /\ currDb \notin {-1, MaxDbName} => FindDb = currDb
        /\ stage = "done" => FindDb # -1 /\ dbs[FindDb].whole

LEMMA StartFinds == Typed /\ NamesOK => FindsCurrent
<1> SUFFICES ASSUME Typed, NamesOK, up PROVE FindsCurrent
  BY DEF FindsCurrent
<1>1. /\ DbsOK /\ currDb \in -1 .. MaxDbName /\ MaxDbName \in Nat \ {0}
      /\ NamesAt(DOMAIN dbs, currDb)
  BY ZipKVAssumption DEF Typed, NamesOK
<1>2. /\ currDb # -1 => FindDb # -1
      /\ currDb \notin {-1, MaxDbName} => FindDb = currDb
  BY <1>1, LowestName
<1>3. ASSUME stage = "done" PROVE FindDb # -1 /\ dbs[FindDb].whole
  <2>1. /\ currDb \in DOMAIN dbs
        /\ DOMAIN dbs \subseteq {currDb, MaxDbName}
        /\ dbs[currDb] = Index(nextBlock, history)
    BY <1>3 DEF NamesOK
  <2>2. DOMAIN dbs \subseteq 0 .. MaxDbName
    BY <1>1 DEF DbsOK
  <2>3. FindDb = currDb
    BY <1>1, <2>1, <2>2, FindDbTyped
  <2>4. QED
    BY <1>1, <2>1, <2>2, <2>3 DEF Index
<1>4. QED
  BY <1>2, <1>3 DEF FindsCurrent

\* A whole index that a start would find is followed by a whole one, or the
\* names wrap around.
THEOREM TornAtWrapOnly == Spec => TornOnlyAtWrap
<1> DEFINE Kept ==
      FindDb # -1 /\ dbs[FindDb].whole =>
        /\ FindDb' # -1
        /\ dbs'[FindDb'].whole \/ currDb = MaxDbName
<1>1. /\ Typed /\ NamesOK /\ NumbersOK /\ FindsCurrent'
      /\ [Next]_vars
      => Kept
  <2> SUFFICES ASSUME Typed, NamesOK, NumbersOK, FindsCurrent',
                      [Next]_vars, FindDb # -1, dbs[FindDb].whole
               PROVE  FindDb' # -1 /\ (dbs'[FindDb'].whole \/ currDb = MaxDbName)
    OBVIOUS
  <2>0. /\ DbsOK /\ currDb \in -1 .. MaxDbName /\ MaxDbName \in Nat \ {0}
    BY ZipKVAssumption DEF Typed
  <2>1. CASE UNCHANGED dbs
    BY <2>1 DEF FindDb
  <2>2. ASSUME NEW x, up, up', currDb' = currDb, dbs' = Assign(dbs, NextDb, x)
        PROVE  FindDb' # -1 /\ (dbs'[FindDb'].whole \/ currDb = MaxDbName)
    <3>1. /\ currDb # -1
          /\ currDb # MaxDbName => FindDb = currDb
      BY <2>2, FoundIndex
    <3>2. NamesAt(DOMAIN dbs, currDb)
      BY <2>2 DEF NamesOK
    <3>3. /\ NextDb # currDb
          /\ \A i \in DOMAIN dbs : i # NextDb => dbs'[i] = dbs[i]
      BY <2>0, <2>2, <3>2, NextName
    <3>4. currDb # MaxDbName => dbs'[currDb] = dbs[currDb]
      BY <3>1, <3>2, <3>3 DEF NamesAt
    <3>5. /\ FindDb' # -1
          /\ currDb # MaxDbName => FindDb' = currDb
      BY <2>2, <3>1 DEF FindsCurrent
    <3>6. QED
      BY <3>1, <3>4, <3>5
  <2>3. CASE stage' = "done" /\ up'
    BY <2>3 DEF FindsCurrent
  <2>4. CASE TearFile
    BY <2>1, <2>2, <2>4 DEF TearFile, memory
  <2>5. CASE WriteDb
    <3>1. CASE currDb = -1
      BY <2>3, <2>5, <3>1 DEF WriteDb
    <3>2. CASE currDb # -1
      BY <2>2, <2>5, <3>2 DEF WriteDb
    <3>3. QED
      BY <3>1, <3>2
  <2>6. CASE DeleteDb
    BY <2>3, <2>6 DEF DeleteDb
  <2>7. ASSUME UNCHANGED vars PROVE UNCHANGED dbs
    BY <2>7 DEF vars, backend
  <2>8. ASSUME NEW k \in Keys, NEW v \in Values, NEW m \in Metas,
               Put(k, v, m) \/ PutToNewBlock(k, v, m)
        PROVE  UNCHANGED dbs
    BY <2>8 DEF Put, PutToNewBlock, backend
  <2>9. ASSUME NEW dst \in Keys, NEW src \in Keys, NEW m \in Metas,
               Link(dst, src, m)
        PROVE  UNCHANGED dbs
    BY <2>9 DEF Link, backend
  <2>10. ASSUME NEW k \in Keys, Delete(k) PROVE UNCHANGED dbs
    BY <2>10 DEF Delete, backend
  <2>11. ASSUME Sync \/ WriteBlock \/ Finish \/ Fail \/ Crash
         PROVE  UNCHANGED dbs
    BY <2>11 DEF Sync, WriteBlock, Finish, Fail, Crash, backend
  <2>12. ASSUME NEW n \in 0 .. MaxOps, Open(n) PROVE UNCHANGED dbs
    BY <2>12 DEF Open, backend
  <2>13. QED
    BY <2>1, <2>4, <2>5, <2>6, <2>7, <2>8, <2>9, <2>10, <2>11, <2>12 DEF Next, WholeNext
<1>2. Typed /\ NamesOK => FindsCurrent
  BY StartFinds
<1>3. QED
  BY <1>1, <1>2, NumbersInvariant, PTL DEF Spec, TornOnlyAtWrap

-----------------------------------------------------------------------------
(* The store that a history leaves                                         *)

\* What Stored finds at each location: n is the number of the next block, values
\* are those of f.next, and bs the block files.
ValueAt(loc, inMemory, n, values, bs) ==
  LET block == IF inMemory /\ loc.block = n THEN values
               ELSE IF loc.block \in DOMAIN bs THEN bs[loc.block]
               ELSE << >>
  IN IF loc.pos \in DOMAIN block THEN [value |-> block[loc.pos], meta |-> loc.meta] ELSE NoEntry

View(inMemory, n, values, bs) == [loc \in Location |-> ValueAt(loc, inMemory, n, values, bs)]

\* The entries that a history leaves when view tells what is at a location.
Entries(h, view) == [k \in Keys |-> IF HasFile(h, k) THEN view[Found(h, k)] ELSE NoEntry]
Past(h, view) == [n \in 1 .. Len(h) + 1 |-> Entries(SubSeq(h, 1, n - 1), view)]

\* The location of a key is that of one of the records.
LEMMA FoundIsRecorded ==
  ASSUME NEW h \in Seq(HistoryRecord), NEW k \in Keys, HasFile(h, k)
  PROVE  /\ Found(h, k) \in Location
         /\ \E n \in DOMAIN h : h[n].put /\ Found(h, k) = h[n].loc
<1>1. Records(h, k) \subseteq 1 .. Len(h) /\ Len(h) \in Nat /\ DOMAIN h = 1 .. Len(h)
  BY LenProperties DEF Records
<1> DEFINE n == Max(Records(h, k))
<1>2. n \in DOMAIN h /\ h[n].put /\ Found(h, k) = h[n].loc
  BY <1>1, MaxOfBounded DEF HasFile, Found
<1> HIDE DEF n
<1>3. h[n] \in HistoryRecord
  BY <1>1, <1>2, ElementOfSeq
<1>4. h[n].loc \in Location
  BY <1>2, <1>3 DEF HistoryRecord
<1>5. QED
  BY <1>2, <1>4

LEMMA PrefixOfHistory ==
  ASSUME NEW h \in Seq(HistoryRecord), NEW n \in 0 .. Len(h)
  PROVE  /\ SubSeq(h, 1, n) \in Seq(HistoryRecord)
         /\ Len(SubSeq(h, 1, n)) = n /\ DOMAIN SubSeq(h, 1, n) = 1 .. n
         /\ \A i \in 1 .. n : SubSeq(h, 1, n)[i] = h[i] /\ i \in DOMAIN h
         /\ n = Len(h) => SubSeq(h, 1, n) = h
<1>1. Len(h) \in Nat /\ DOMAIN h = 1 .. Len(h) /\ n \in Nat
  BY LenProperties
<1>2. \A i \in 1 .. n : i \in DOMAIN h /\ h[i] \in HistoryRecord
  BY <1>1, ElementOfSeq
<1>3. /\ SubSeq(h, 1, n) \in Seq(HistoryRecord)
      /\ Len(SubSeq(h, 1, n)) = n
      /\ \A i \in 1 .. n : SubSeq(h, 1, n)[i] = h[i]
  BY <1>1, <1>2, SubSeqProperties
<1>4. DOMAIN SubSeq(h, 1, n) = 1 .. n
  BY <1>3, LenProperties
<1>5. n = Len(h) => SubSeq(h, 1, n) = h
  BY <1>3, SeqEqual
<1>6. QED
  BY <1>2, <1>3, <1>4, <1>5

LEMMA FoundInPast ==
  ASSUME NEW h \in Seq(HistoryRecord), NEW n \in 1 .. Len(h) + 1, NEW k \in Keys,
         HasFile(SubSeq(h, 1, n - 1), k)
  PROVE  Found(SubSeq(h, 1, n - 1), k) \in Location
<1>1. n - 1 \in 0 .. Len(h)
  BY LenProperties
<1>2. SubSeq(h, 1, n - 1) \in Seq(HistoryRecord)
  BY <1>1, PrefixOfHistory
<1>3. QED
  BY <1>2, FoundIsRecorded

\* The stores that KVStore sees, before and after a step.
LEMMA StoresIsPast ==
  ASSUME NEW m \in BOOLEAN
  PROVE  /\ \A h \in Seq(HistoryRecord) : Stores(h, m) = Past(h, View(m, nextBlock, next, blocks))
         /\ history' \in Seq(HistoryRecord) =>
              Stores(history, m)' = Past(history', View(m, nextBlock', next', blocks'))
         /\ SavedHistory' \in Seq(HistoryRecord) =>
              Stores(SavedHistory, m)' = Past(SavedHistory', View(m, nextBlock', next', blocks'))
<1>1. ASSUME NEW h \in Seq(HistoryRecord)
      PROVE  Stores(h, m) = Past(h, View(m, nextBlock, next, blocks))
  BY FoundInPast DEF Stores, Past, Entries, View, ValueAt, Stored
<1>2. ASSUME history' \in Seq(HistoryRecord)
      PROVE  Stores(history, m)' = Past(history', View(m, nextBlock', next', blocks'))
  BY <1>2, FoundInPast DEF Stores, Past, Entries, View, ValueAt, Stored
<1>3. ASSUME SavedHistory' \in Seq(HistoryRecord)
      PROVE  Stores(SavedHistory, m)' = Past(SavedHistory', View(m, nextBlock', next', blocks'))
  BY <1>3, FoundInPast DEF Stores, Past, Entries, View, ValueAt, Stored
<1>4. QED
  BY <1>1, <1>2, <1>3

\* Only the locations that a history records matter.
LEMMA SamePast ==
  ASSUME NEW h \in Seq(HistoryRecord), NEW f, NEW g,
         \A n \in DOMAIN h : h[n].put => f[h[n].loc] = g[h[n].loc]
  PROVE  Past(h, f) = Past(h, g)
<1>1. ASSUME NEW n \in 1 .. Len(h) + 1, NEW k \in Keys, HasFile(SubSeq(h, 1, n - 1), k)
      PROVE  f[Found(SubSeq(h, 1, n - 1), k)] = g[Found(SubSeq(h, 1, n - 1), k)]
  <2> DEFINE p == SubSeq(h, 1, n - 1)
  <2>1. n - 1 \in 0 .. Len(h)
    BY LenProperties
  <2>2. p \in Seq(HistoryRecord) /\ \A i \in DOMAIN p : p[i] = h[i] /\ i \in DOMAIN h
    BY <2>1, PrefixOfHistory
  <2> HIDE DEF p
  <2>3. HasFile(p, k)
    BY <1>1 DEF p
  <2>4. PICK i \in DOMAIN p : p[i].put /\ Found(p, k) = p[i].loc
    BY <2>2, <2>3, FoundIsRecorded
  <2>5. f[Found(p, k)] = g[Found(p, k)]
    BY <2>2, <2>4
  <2>6. QED
    BY <2>5 DEF p
<1>2. QED
  BY <1>1 DEF Past, Entries

\* The store as it is now is the last of those a history goes through.
LEMMA PastIsSeq ==
  ASSUME NEW h \in Seq(HistoryRecord), NEW f
  PROVE  /\ Len(Past(h, f)) = Len(h) + 1 /\ Past(h, f) # << >>
         /\ DOMAIN Past(h, f) = 1 .. Len(h) + 1
         /\ Last(Past(h, f)) = Entries(h, f)
         /\ \A S : Past(h, f) \in Seq(S) <=> \A n \in 1 .. Len(h) + 1 : Past(h, f)[n] \in S
<1>1. Len(h) \in Nat /\ Len(h) \in 0 .. Len(h) /\ Len(h) + 1 \in 1 .. Len(h) + 1
  BY LenProperties
<1> DEFINE p == Past(h, f)
<1>2. DOMAIN p = 1 .. Len(h) + 1
  BY DEF Past
<1>3. p[Len(h) + 1] = Entries(SubSeq(h, 1, Len(h)), f)
  BY <1>1 DEF Past
<1>4. SubSeq(h, 1, Len(h)) = h
  BY <1>1, PrefixOfHistory
<1>5. Len(p) = Len(h) + 1
  BY <1>1, <1>2
<1>6. \A S : p \in Seq(S) <=> \A n \in 1 .. Len(h) + 1 : p[n] \in S
  <2>1. p = [n \in 1 .. Len(h) + 1 |-> p[n]]
    BY DEF Past
  <2> HIDE DEF p
  <2>2. QED
    BY <1>1, <1>2, <1>5, <2>1
<1>7. p # << >>
  BY <1>1, <1>2
<1>8. Last(p) = p[Len(p)]
  BY DEF Last
<1>9. QED
  BY <1>1, <1>2, <1>3, <1>4, <1>5, <1>6, <1>7, <1>8

\* A record adds one store to those of a history.
LEMMA PastOfAppend ==
  ASSUME NEW h \in Seq(HistoryRecord), NEW r \in HistoryRecord, NEW f
  PROVE  Past(Append(h, r), f) =
           Append(Past(h, f), [Entries(h, f) EXCEPT ![r.key] = IF r.put THEN f[r.loc] ELSE NoEntry])
<1> DEFINE g == Append(h, r)
           new == [Entries(h, f) EXCEPT ![r.key] = IF r.put THEN f[r.loc] ELSE NoEntry]
           p == Past(h, f)
           q == Past(g, f)
           S == {p[n] : n \in 1 .. Len(h) + 1} \cup {q[n] : n \in 1 .. Len(g) + 1} \cup {new}
<1>1. /\ g \in Seq(HistoryRecord) /\ Len(g) = Len(h) + 1 /\ Len(h) \in Nat
      /\ \A i \in 1 .. Len(h) : g[i] = h[i]
  BY AppendProperties, LenProperties
<1>2. Entries(g, f) = new
  <2>1. r.key \in Keys
    BY DEF HistoryRecord
  <2>2. /\ HasFile(g, r.key) <=> r.put
        /\ Found(g, r.key) = r.loc
        /\ \A k \in Keys \ {r.key} :
             /\ HasFile(g, k) <=> HasFile(h, k)
             /\ HasFile(h, k) => Found(g, k) = Found(h, k)
    BY AppendedRecord
  <2> HIDE DEF g
  <2>3. QED
    BY <2>1, <2>2 DEF Entries
<1>3. ASSUME NEW n \in 1 .. Len(h) + 1 PROVE q[n] = p[n]
  <2>1. n - 1 \in 0 .. Len(h) /\ n - 1 \in 0 .. Len(g) /\ n \in 1 .. Len(g) + 1
    BY <1>1
  <2> HIDE DEF g
  <2>2. SubSeq(g, 1, n - 1) = SubSeq(h, 1, n - 1)
    <3> DEFINE a == SubSeq(g, 1, n - 1)
               b == SubSeq(h, 1, n - 1)
    <3>1. /\ a \in Seq(HistoryRecord) /\ Len(a) = n - 1
          /\ \A i \in 1 .. n - 1 : a[i] = g[i]
      BY <1>1, <2>1, PrefixOfHistory
    <3>2. /\ b \in Seq(HistoryRecord) /\ Len(b) = n - 1
          /\ \A i \in 1 .. n - 1 : b[i] = h[i]
      BY <2>1, PrefixOfHistory
    <3>3. \A i \in 1 .. n - 1 : a[i] = b[i]
      BY <1>1, <2>1, <3>1, <3>2
    <3> HIDE DEF a, b
    <3>4. a = b
      BY <3>1, <3>2, <3>3, SeqEqual
    <3>5. QED
      BY <3>4 DEF a, b
  <2>3. QED
    BY <2>1, <2>2 DEF Past
<1>4. q[Len(h) + 2] = new
  <2>1. Len(h) + 2 \in 1 .. Len(g) + 1 /\ (Len(h) + 2) - 1 = Len(g) /\ Len(g) \in 0 .. Len(g)
    BY <1>1
  <2>2. SubSeq(g, 1, Len(g)) = g
    BY <1>1, <2>1, PrefixOfHistory
  <2> HIDE DEF g, new
  <2>3. q[Len(h) + 2] = Entries(SubSeq(g, 1, (Len(h) + 2) - 1), f)
    BY <2>1 DEF Past
  <2>4. QED
    BY <1>2, <2>1, <2>2, <2>3
<1> HIDE DEF new, g
<1>5. /\ p \in Seq(S) /\ Len(p) = Len(h) + 1
      /\ q \in Seq(S) /\ Len(q) = Len(h) + 2
  <2>1. p \in Seq(S) /\ Len(p) = Len(h) + 1
    BY PastIsSeq
  <2>2. q \in Seq(S) /\ Len(q) = Len(g) + 1
    BY <1>1, PastIsSeq
  <2> HIDE DEF p, q, S
  <2>3. QED
    BY <1>1, <2>1, <2>2
<1>6. /\ Append(p, new) \in Seq(S) /\ Len(Append(p, new)) = Len(h) + 2
      /\ \A i \in 1 .. Len(h) + 1 : Append(p, new)[i] = p[i]
      /\ Append(p, new)[Len(h) + 2] = new
  <2>1. new \in S
    OBVIOUS
  <2> HIDE DEF p, S
  <2>2. Len(p) + 1 = Len(h) + 2
    BY <1>1, <1>5
  <2>3. QED
    BY <1>5, <2>1, <2>2, AppendProperties
<1> HIDE DEF p, q, S
<1>7. \A i \in 1 .. Len(h) + 2 : q[i] = Append(p, new)[i]
  BY <1>1, <1>3, <1>4, <1>6
<1>8. q = Append(p, new)
  BY <1>5, <1>6, <1>7, SeqEqual
<1>9. QED
  BY <1>8 DEF p, q, new, g

\* Rolled back, a history goes through the first of its stores.
LEMMA PastOfPrefix ==
  ASSUME NEW h \in Seq(HistoryRecord), NEW n \in 0 .. Len(h), NEW f
  PROVE  Past(SubSeq(h, 1, n), f) = SubSeq(Past(h, f), 1, n + 1)
<1> DEFINE g == SubSeq(h, 1, n)
           p == Past(h, f)
           q == Past(g, f)
           S == {p[i] : i \in 1 .. Len(h) + 1} \cup {q[i] : i \in 1 .. Len(g) + 1}
<1>1. /\ g \in Seq(HistoryRecord) /\ Len(g) = n /\ n \in Nat /\ Len(h) \in Nat
      /\ \A i \in 1 .. n : g[i] = h[i]
  BY PrefixOfHistory, LenProperties
<1>2. ASSUME NEW i \in 1 .. n + 1 PROVE q[i] = p[i]
  <2>1. i - 1 \in 0 .. Len(h) /\ i - 1 \in 0 .. Len(g) /\ i \in 1 .. Len(g) + 1
        /\ i \in 1 .. Len(h) + 1
    BY <1>1
  <2> HIDE DEF g
  <2>2. SubSeq(g, 1, i - 1) = SubSeq(h, 1, i - 1)
    <3> DEFINE a == SubSeq(g, 1, i - 1)
               b == SubSeq(h, 1, i - 1)
    <3>1. /\ a \in Seq(HistoryRecord) /\ Len(a) = i - 1
          /\ \A j \in 1 .. i - 1 : a[j] = g[j]
      BY <1>1, <2>1, PrefixOfHistory
    <3>2. /\ b \in Seq(HistoryRecord) /\ Len(b) = i - 1
          /\ \A j \in 1 .. i - 1 : b[j] = h[j]
      BY <2>1, PrefixOfHistory
    <3>3. \A j \in 1 .. i - 1 : a[j] = b[j]
      BY <1>1, <2>1, <3>1, <3>2
    <3> HIDE DEF a, b
    <3>4. a = b
      BY <3>1, <3>2, <3>3, SeqEqual
    <3>5. QED
      BY <3>4 DEF a, b
  <2>3. QED
    BY <2>1, <2>2 DEF Past
<1> HIDE DEF g
<1>3. /\ p \in Seq(S) /\ Len(p) = Len(h) + 1
      /\ q \in Seq(S) /\ Len(q) = n + 1
  BY <1>1, PastIsSeq
<1> HIDE DEF p, q, S
<1>4. /\ SubSeq(p, 1, n + 1) \in Seq(S) /\ Len(SubSeq(p, 1, n + 1)) = n + 1
      /\ \A i \in 1 .. n + 1 : SubSeq(p, 1, n + 1)[i] = p[i]
  <2>1. \A i \in 1 .. n + 1 : p[i] \in S
    BY <1>1, <1>3, ElementOfSeq
  <2>2. QED
    BY <1>1, <2>1, SubSeqProperties
<1>5. q = SubSeq(p, 1, n + 1)
  BY <1>2, <1>3, <1>4, SeqEqual
<1>6. QED
  BY <1>5 DEF p, q, g

-----------------------------------------------------------------------------
(* Where the values are                                                    *)

\* A location in the block that is filled names a value of f.next, any other
\* one of the values in its block file.
Placed(loc) ==
  IF loc.block = nextBlock THEN loc.pos \in DOMAIN next
  ELSE loc.pos \in DOMAIN blocks[loc.block]

HistoryPlaced == \A n \in DOMAIN history : history[n].put => Placed(history[n].loc)

SavedPlaced ==
  \A n \in DOMAIN SavedHistory : SavedHistory[n].put =>
    SavedHistory[n].loc.pos \in DOMAIN blocks[SavedHistory[n].loc.block]

AllWhole == \A i \in DOMAIN dbs : dbs[i].whole

Numbered == Typed /\ NamesOK /\ NumbersOK

PlacesInv == Numbered /\ AllWhole /\ HistoryPlaced /\ SavedPlaced

LEMMA NextNumbered == Numbered /\ [Next]_vars => Numbered'
  BY NextTyped, NextNames, NextNumbers DEF Numbered

\* The index that a start finds, if any, is a whole one.
LEMMA SavedTyped ==
  ASSUME Typed, AllWhole
  PROVE  /\ FindDb = -1 => SavedHistory = << >>
         /\ FindDb # -1 => /\ FindDb \in DOMAIN dbs /\ dbs[FindDb] \in IndexRecord
                           /\ dbs[FindDb].whole /\ SavedHistory = dbs[FindDb].history
         /\ SavedHistory \in Seq(HistoryRecord)
<1>1. DbsOK
  BY DEF Typed
<1>2. CASE FindDb = -1
  BY <1>2 DEF SavedHistory
<1>3. CASE FindDb # -1
  <2>1. FindDb \in DOMAIN dbs /\ dbs[FindDb].whole
    BY <1>1, <1>3, FindDbTyped DEF AllWhole
  <2>2. dbs[FindDb] # Torn
    BY <2>1 DEF Torn
  <2>3. dbs[FindDb] \in IndexRecord
    BY <1>1, <2>1, <2>2 DEF DbsOK
  <2>4. QED
    BY <1>3, <2>1, <2>3 DEF SavedHistory, IndexRecord
<1>4. QED
  BY <1>2, <1>3

\* The locations of the history are in f.next or in files that are there.
LEMMA HistoryLocations ==
  ASSUME Numbered, up, NEW n \in DOMAIN history, history[n].put
  PROVE  LET loc == history[n].loc
         IN /\ loc \in Location /\ loc.block \in Nat /\ loc.pos \in Nat \ {0}
            /\ loc.block <= nextBlock /\ nextBlock \in Nat
            /\ loc.block # nextBlock => loc.block \in DOMAIN blocks
            /\ stage \in {"db", "delete", "done"} => loc.block # nextBlock
<1> DEFINE loc == history[n].loc
<1>1. history \in Seq(HistoryRecord) /\ nextBlock \in Nat
  BY DEF Numbered, Typed
<1>2. history[n] \in HistoryRecord
  BY <1>1, ElementOfSeq, LenProperties
<1>3. loc \in Location
  BY <1>2 DEF HistoryRecord
<1>4. loc.block \in Nat /\ loc.pos \in Nat \ {0}
  BY <1>3 DEF Location
<1>5. /\ loc.block < nextBlock + 1
      /\ stage \in {"db", "delete", "done"} => loc.block < nextBlock
  BY DEF Numbered, NumbersOK, Below
<1> HIDE DEF loc
<1>6. loc.block <= nextBlock /\ (stage \in {"db", "delete", "done"} => loc.block # nextBlock)
  BY <1>1, <1>4, <1>5
<1>7. loc.block # nextBlock => loc.block \in 0 .. nextBlock - 1
  BY <1>1, <1>4, <1>6
<1>8. loc.block # nextBlock => loc.block \in DOMAIN blocks
  BY <1>7 DEF Numbered, NumbersOK, Written
<1>9. QED
  BY <1>1, <1>3, <1>4, <1>6, <1>8 DEF loc

\* What is in place at a location is a value, with the metadata of the location.
LEMMA EntryPresent ==
  ASSUME Numbered, HistoryPlaced, up, NEW n \in DOMAIN history, history[n].put
  PROVE  LET loc == history[n].loc
             entry == View(TRUE, nextBlock, next, blocks)[loc]
         IN /\ \A m \in Metas :
                 View(TRUE, nextBlock, next, blocks)[[loc EXCEPT !.meta = m]]
                   = [value |-> entry.value, meta |-> m]
            /\ entry # NoEntry /\ entry.value \in Values
<1> DEFINE loc == history[n].loc
           block == IF loc.block = nextBlock THEN next ELSE blocks[loc.block]
<1>1. /\ loc \in Location /\ loc.pos \in Nat \ {0}
      /\ loc.block # nextBlock => loc.block \in DOMAIN blocks
  BY HistoryLocations
<1>2. loc.pos \in DOMAIN block
  BY DEF HistoryPlaced, Placed
<1>3. block \in Seq(Values)
  BY <1>1 DEF Numbered, Typed, BlocksOK, Range
<1> HIDE DEF loc
<1>4. block[loc.pos] \in Values
  BY <1>2, <1>3, ElementOfSeq, LenProperties
<1>5. loc.meta \in Metas /\ \A m \in Metas : [loc EXCEPT !.meta = m] \in Location
  BY <1>1 DEF Location
<1>6. View(TRUE, nextBlock, next, blocks)[loc] = [value |-> block[loc.pos], meta |-> loc.meta]
  BY <1>1, <1>2 DEF View, ValueAt
<1>7. ASSUME NEW m \in Metas
      PROVE  View(TRUE, nextBlock, next, blocks)[[loc EXCEPT !.meta = m]]
               = [value |-> block[loc.pos], meta |-> m]
  <2> DEFINE l == [loc EXCEPT !.meta = m]
  <2>1. l \in Location /\ l.block = loc.block /\ l.pos = loc.pos /\ l.meta = m
    BY <1>1, <1>5 DEF Location
  <2> HIDE DEF l
  <2>2. View(TRUE, nextBlock, next, blocks)[l] = [value |-> block[loc.pos], meta |-> m]
    BY <1>1, <1>2, <2>1 DEF View, ValueAt
  <2>3. QED
    BY <2>2 DEF l
<1>8. [value |-> block[loc.pos], meta |-> loc.meta] # NoEntry
  BY <1>4, <1>5, ZipKVAssumption
<1> HIDE DEF block
<1> DEFINE view == View(TRUE, nextBlock, next, blocks)
           value == block[loc.pos]
<1>9. view[loc] = [value |-> value, meta |-> loc.meta]
  BY <1>6
<1>10. value \in Values /\ [value |-> value, meta |-> loc.meta] # NoEntry
  BY <1>4, <1>8
<1> HIDE DEF view, value
<1>11. view[loc].value = value
  BY <1>9
<1>12. view[loc].value \in Values /\ view[loc] # NoEntry /\ view[loc].value = value
  BY <1>9, <1>10, <1>11
<1>13. \A m \in Metas : view[[loc EXCEPT !.meta = m]] = [value |-> view[loc].value, meta |-> m]
  BY <1>7, <1>11 DEF view, value
<1>14. QED
  BY <1>12, <1>13, Zenon DEF loc, view

\* The saved stores are what they were, and in place, when the same history is saved.
LEMMA SavedStays ==
  ASSUME PlacesInv, SavedBlocksStay, SavedHistory' = SavedHistory
  PROVE  SavedPlaced' /\ Stores(SavedHistory, FALSE)' = Stores(SavedHistory, FALSE)
<1> DEFINE f == View(FALSE, nextBlock, next, blocks)
           g == View(FALSE, nextBlock', next', blocks')
<1>1. SavedHistory \in Seq(HistoryRecord)
  BY SavedTyped DEF PlacesInv, Numbered
<1>2. ASSUME NEW n \in DOMAIN SavedHistory, SavedHistory[n].put
      PROVE  /\ SavedHistory[n].loc.pos \in DOMAIN blocks'[SavedHistory[n].loc.block]
             /\ f[SavedHistory[n].loc] = g[SavedHistory[n].loc]
  <2> DEFINE loc == SavedHistory[n].loc
  <2>1. SavedHistory[n] \in HistoryRecord
    BY <1>1, ElementOfSeq, LenProperties
  <2>2. loc \in Location
    BY <1>2, <2>1 DEF HistoryRecord
  <2>3. loc.block \in DOMAIN blocks /\ loc.block \in DOMAIN blocks' /\ blocks'[loc.block] = blocks[loc.block]
    BY <1>2 DEF SavedBlocksStay
  <2>4. loc.pos \in DOMAIN blocks[loc.block]
    BY <1>2 DEF PlacesInv, SavedPlaced
  <2> HIDE DEF loc
  <2>5. f[loc] = g[loc] /\ loc.pos \in DOMAIN blocks'[loc.block]
    BY <2>2, <2>3, <2>4 DEF View, ValueAt
  <2>6. QED
    BY <2>5 DEF loc
<1>3. SavedPlaced'
  BY <1>2 DEF SavedPlaced
<1>4. Stores(SavedHistory, FALSE)' = Past(SavedHistory, g)
  BY <1>1, StoresIsPast
<1>5. Stores(SavedHistory, FALSE) = Past(SavedHistory, f)
  BY <1>1, StoresIsPast
<1> HIDE DEF f, g
<1>6. Past(SavedHistory, f) = Past(SavedHistory, g)
  BY <1>1, <1>2, SamePast
<1>7. QED
  BY <1>3, <1>4, <1>5, <1>6

\* What the history refers to moves into a file with f.next, and stays in place
\* when f.next grows, or is emptied after writeNext.
LEMMA HistoryStays ==
  ASSUME PlacesInv, up,
         \/ /\ UNCHANGED <<nextBlock, blocks>>
            /\ \/ UNCHANGED next
               \/ \E v \in Values : next' = Append(next, v)
               \/ stage \in {"db", "delete", "done"}
         \/ /\ blocks' = Assign(blocks, nextBlock, next)
            /\ nextBlock' = nextBlock + 1 /\ UNCHANGED next,
         NEW n \in DOMAIN history, history[n].put
  PROVE  LET loc == history[n].loc
         IN /\ IF loc.block = nextBlock' THEN loc.pos \in DOMAIN next'
               ELSE loc.pos \in DOMAIN blocks'[loc.block]
            /\ View(TRUE, nextBlock, next, blocks)[loc] = View(TRUE, nextBlock', next', blocks')[loc]
<1> DEFINE loc == history[n].loc
<1>1. /\ loc \in Location /\ loc.block \in Nat /\ loc.pos \in Nat \ {0}
      /\ loc.block <= nextBlock /\ nextBlock \in Nat
      /\ loc.block # nextBlock => loc.block \in DOMAIN blocks
      /\ stage \in {"db", "delete", "done"} => loc.block # nextBlock
  BY HistoryLocations DEF PlacesInv
<1>2. IF loc.block = nextBlock THEN loc.pos \in DOMAIN next ELSE loc.pos \in DOMAIN blocks[loc.block]
  BY DEF PlacesInv, HistoryPlaced, Placed
<1>3. next \in Seq(Values) /\ DOMAIN next = 1 .. Len(next) /\ Len(next) \in Nat
  BY LenProperties DEF PlacesInv, Numbered, Typed
<1> HIDE DEF loc
<1> DEFINE Stays ==
      /\ IF loc.block = nextBlock' THEN loc.pos \in DOMAIN next' ELSE loc.pos \in DOMAIN blocks'[loc.block]
      /\ ValueAt(loc, TRUE, nextBlock, next, blocks) = ValueAt(loc, TRUE, nextBlock', next', blocks')
<1>4. ASSUME UNCHANGED <<nextBlock, blocks, next>> PROVE Stays
  BY <1>2, <1>4
<1>5. ASSUME UNCHANGED <<nextBlock, blocks>>, stage \in {"db", "delete", "done"} PROVE Stays
  BY <1>1, <1>2, <1>5 DEF ValueAt
<1>6. ASSUME UNCHANGED <<nextBlock, blocks>>, NEW v \in Values, next' = Append(next, v)
      PROVE  Stays
  <2>1. DOMAIN next' = 1 .. Len(next) + 1 /\ \A i \in 1 .. Len(next) : next'[i] = next[i]
    <3> DEFINE more == Append(next, v)
    <3>1. /\ more \in Seq(Values) /\ Len(more) = Len(next) + 1
          /\ \A i \in 1 .. Len(next) : more[i] = next[i]
      BY <1>3, AppendProperties
    <3>2. next' = more
      BY <1>6
    <3> HIDE DEF more
    <3>3. DOMAIN more = 1 .. Len(next) + 1
      BY <3>1, LenProperties
    <3>4. QED
      BY <3>1, <3>2, <3>3
  <2>2. loc.pos \in DOMAIN next => loc.pos \in DOMAIN next' /\ next'[loc.pos] = next[loc.pos]
    BY <1>3, <2>1
  <2>3. QED
    BY <1>1, <1>2, <1>6, <2>2 DEF ValueAt
<1>7. ASSUME blocks' = Assign(blocks, nextBlock, next), nextBlock' = nextBlock + 1, UNCHANGED next
      PROVE  Stays
  <2>1. /\ loc.block # nextBlock'
        /\ nextBlock \in DOMAIN blocks' /\ blocks'[nextBlock] = next
        /\ \A b \in DOMAIN blocks : b # nextBlock => b \in DOMAIN blocks' /\ blocks'[b] = blocks[b]
    BY <1>1, <1>7 DEF Assign
  <2>2. QED
    BY <1>1, <1>2, <1>7, <2>1 DEF ValueAt
<1>8. Stays
  BY <1>4, <1>5, <1>6, <1>7
<1>9. QED
  BY <1>1, <1>8 DEF View, loc

-----------------------------------------------------------------------------
(* Steps of the store are steps of KVStore, or change nothing there        *)

\* A record comes to the history: KVStore makes the same update.
LEMMA RecordStep ==
  ASSUME PlacesInv, Numbered', [Next]_vars, up, UNCHANGED <<up, nextBlock, blocks, dbs>>,
         \/ UNCHANGED next
         \/ \E v \in Values : next' = Append(next, v)
         \/ stage \in {"db", "delete", "done"},
         NEW r \in HistoryRecord, history' = Append(history, r),
         r.put => IF r.loc.block = nextBlock THEN r.loc.pos \in DOMAIN next'
                  ELSE r.loc.pos \in DOMAIN blocks[r.loc.block]
  PROVE  /\ PlacesInv'
         /\ KV!Update(r.key, IF r.put THEN View(TRUE, nextBlock', next', blocks')[r.loc] ELSE NoEntry)
         /\ KV!Latest = Entries(history, View(TRUE, nextBlock, next, blocks))
         /\ Len(Stores(history, TRUE)') = Len(Stores(history, TRUE)) + 1
<1> DEFINE f == View(TRUE, nextBlock, next, blocks)
           g == View(TRUE, nextBlock', next', blocks')
           new == IF r.put THEN g[r.loc] ELSE NoEntry
<1>1. history \in Seq(HistoryRecord) /\ history' \in Seq(HistoryRecord)
  BY DEF PlacesInv, Numbered, Typed
<1>2. ASSUME NEW n \in DOMAIN history, history[n].put
      PROVE  /\ IF history[n].loc.block = nextBlock' THEN history[n].loc.pos \in DOMAIN next'
                ELSE history[n].loc.pos \in DOMAIN blocks'[history[n].loc.block]
             /\ f[history[n].loc] = g[history[n].loc]
  BY <1>2, HistoryStays
<1>3. HistoryPlaced'
  <2>1. /\ DOMAIN history = 1 .. Len(history) /\ Len(history) \in Nat
        /\ DOMAIN history' = 1 .. Len(history) + 1
        /\ history'[Len(history) + 1] = r
        /\ \A n \in 1 .. Len(history) : history'[n] = history[n]
    BY <1>1, AppendProperties, LenProperties
  <2>2. ASSUME NEW n \in DOMAIN history', history'[n].put
        PROVE  IF history'[n].loc.block = nextBlock' THEN history'[n].loc.pos \in DOMAIN next'
               ELSE history'[n].loc.pos \in DOMAIN blocks'[history'[n].loc.block]
    <3>1. CASE n \in DOMAIN history
      BY <1>2, <2>1, <2>2, <3>1
    <3>2. CASE n = Len(history) + 1
      BY <2>1, <2>2, <3>2
    <3>3. QED
      BY <2>1, <3>1, <3>2
  <2>3. QED
    BY <2>2 DEF HistoryPlaced, Placed
<1>4. SavedHistory' = SavedHistory
  BY DEF SavedHistory, FindDb
<1>5. SavedPlaced' /\ Stores(SavedHistory, FALSE)' = Stores(SavedHistory, FALSE)
  BY <1>4, SavedStays, StepKeepsSaved DEF PlacesInv, Numbered
<1>6. AllWhole'
  BY DEF PlacesInv, AllWhole
<1>7. PlacesInv'
  BY <1>3, <1>5, <1>6 DEF PlacesInv
<1>8. /\ Stores(history, TRUE) = Past(history, f)
      /\ Stores(history, TRUE)' = Past(history', g)
  BY <1>1, StoresIsPast
<1> HIDE DEF f, g
<1>9. Past(history, f) = Past(history, g)
  BY <1>1, <1>2, SamePast
<1>10. Past(history', g) = Append(Past(history, g), [Entries(history, g) EXCEPT ![r.key] = new])
  BY <1>1, PastOfAppend
<1>11. /\ Past(history, f) # << >> /\ Last(Past(history, f)) = Entries(history, f)
       /\ Last(Past(history, g)) = Entries(history, g)
       /\ Len(Past(history, f)) = Len(history) + 1
       /\ Len(Past(history', g)) = Len(history') + 1
  BY <1>1, PastIsSeq
<1> HIDE DEF new
<1>12. Entries(history, g) = Entries(history, f)
  BY <1>9, <1>11
<1>13. Len(history') = Len(history) + 1 /\ Len(history) \in Nat
  BY <1>1, AppendProperties, LenProperties
<1>14. KV!Update(r.key, new) /\ KV!Latest = Entries(history, f)
  <2> DEFINE log == Stores(history, TRUE)
             latest == Entries(history, f)
  <2>1. log # << >> /\ Last(log) = latest
    BY <1>8, <1>11
  <2>2. log' = Append(log, [latest EXCEPT ![r.key] = new])
    BY <1>8, <1>9, <1>10, <1>12
  <2>3. up /\ up'
    OBVIOUS
  <2>4. KV!Latest = latest
    BY <2>1, <2>3 DEF KV!Latest, KV!Last, Last
  <2> HIDE DEF latest
  <2>5. KV!Update(r.key, new)
    BY <1>5, <2>1, <2>2, <2>3, <2>4 DEF KV!Update
  <2>6. QED
    BY <2>4, <2>5 DEF latest
<1>15. Len(Stores(history, TRUE)') = Len(Stores(history, TRUE)) + 1
  BY <1>8, <1>11, <1>13
<1>16. QED
  BY <1>7, <1>14, <1>15 DEF new, f, g

\* The history stays, and a start finds what it found or the history: KVStore
\* saves it, or does nothing.
LEMMA HistoryStep ==
  ASSUME PlacesInv, Numbered', [Next]_vars, up, UNCHANGED <<up, history>>,
         \/ /\ UNCHANGED <<nextBlock, blocks>>
            /\ \/ UNCHANGED next
               \/ stage \in {"db", "delete", "done"}
         \/ /\ blocks' = Assign(blocks, nextBlock, next)
            /\ nextBlock' = nextBlock + 1 /\ UNCHANGED next,
         \/ SavedHistory' = SavedHistory
         \/ /\ SavedHistory' = history /\ stage \in {"db", "delete", "done"}
            /\ UNCHANGED <<nextBlock, next, blocks>>,
         AllWhole'
  PROVE  PlacesInv' /\ [KV!Next]_(KV!vars)
<1> DEFINE f == View(TRUE, nextBlock, next, blocks)
           g == View(TRUE, nextBlock', next', blocks')
<1>1. history \in Seq(HistoryRecord) /\ history' \in Seq(HistoryRecord)
  BY DEF PlacesInv, Numbered, Typed
<1>2. ASSUME NEW n \in DOMAIN history, history[n].put
      PROVE  /\ IF history[n].loc.block = nextBlock' THEN history[n].loc.pos \in DOMAIN next'
                ELSE history[n].loc.pos \in DOMAIN blocks'[history[n].loc.block]
             /\ f[history[n].loc] = g[history[n].loc]
  BY <1>2, HistoryStays
<1>3. HistoryPlaced'
  BY <1>2 DEF HistoryPlaced, Placed
<1>4. Stores(history, TRUE)' = Stores(history, TRUE)
  <2>1. /\ Stores(history, TRUE) = Past(history, f)
        /\ Stores(history, TRUE)' = Past(history', g)
    BY <1>1, StoresIsPast
  <2> HIDE DEF f, g
  <2>2. Past(history, f) = Past(history, g)
    BY <1>1, <1>2, SamePast
  <2>3. QED
    BY <2>1, <2>2
<1>5. Stores(history, TRUE) # << >>
  BY <1>1, StoresIsPast, PastIsSeq
<1>6. CASE SavedHistory' = SavedHistory
  <2>1. SavedPlaced' /\ Stores(SavedHistory, FALSE)' = Stores(SavedHistory, FALSE)
    BY <1>6, SavedStays, StepKeepsSaved DEF PlacesInv, Numbered
  <2>2. UNCHANGED KV!vars
    BY <1>4, <2>1 DEF KV!vars
  <2>3. QED
    BY <1>3, <2>1, <2>2 DEF PlacesInv
<1>7. CASE /\ SavedHistory' = history /\ stage \in {"db", "delete", "done"}
           /\ UNCHANGED <<nextBlock, next, blocks>>
  <2>1. ASSUME NEW n \in DOMAIN history, history[n].put
        PROVE  /\ history[n].loc.pos \in DOMAIN blocks[history[n].loc.block]
               /\ f[history[n].loc] = View(FALSE, nextBlock, next, blocks)[history[n].loc]
    <3> DEFINE loc == history[n].loc
    <3>1. loc \in Location /\ loc.block # nextBlock
      BY <1>7, <2>1, HistoryLocations DEF PlacesInv
    <3>2. loc.pos \in DOMAIN blocks[loc.block]
      BY <2>1, <3>1 DEF PlacesInv, HistoryPlaced, Placed
    <3> HIDE DEF loc
    <3>3. f[loc] = View(FALSE, nextBlock, next, blocks)[loc]
      BY <3>1 DEF View, ValueAt
    <3>4. QED
      BY <3>2, <3>3 DEF loc
  <2>2. SavedPlaced'
    BY <1>7, <2>1 DEF SavedPlaced
  <2>3. Stores(SavedHistory, FALSE)' = Past(history, View(FALSE, nextBlock, next, blocks))
    BY <1>1, <1>7, StoresIsPast
  <2>4. Stores(history, TRUE) = Past(history, f)
    BY <1>1, StoresIsPast
  <2>5. Past(history, f) = Past(history, View(FALSE, nextBlock, next, blocks))
    <3> DEFINE h == View(FALSE, nextBlock, next, blocks)
    <3>1. \A n \in DOMAIN history : history[n].put => f[history[n].loc] = h[history[n].loc]
      BY <2>1
    <3> HIDE DEF f, h
    <3>2. Past(history, f) = Past(history, h)
      BY <1>1, <3>1, SamePast
    <3>3. QED
      BY <3>2 DEF h
  <2>6. KV!Save
    BY <1>4, <1>5, <2>3, <2>4, <2>5 DEF KV!Save
  <2>7. QED
    BY <1>3, <2>2, <2>6 DEF PlacesInv, KV!Next
<1>8. QED
  BY <1>6, <1>7

\* An update by an operation is a step of KVStore.
LEMMA OperationStep ==
  ASSUME up, up', Len(Stores(history, TRUE)') = Len(Stores(history, TRUE)) + 1,
         Stores(history, TRUE) # << >>,
         \/ \E k \in Keys, v \in Values, m \in Metas : KV!Put(k, v, m)
         \/ \E dst, src \in Keys, m \in Metas : KV!Link(dst, src, m)
         \/ \E k \in Keys : KV!Delete(k)
  PROVE  [KV!Next]_(KV!vars)
<1>1. KV!Operation
  BY DEF KV!Operation
<1>2. QED
  BY <1>1 DEF KV!Next

\* The tail of Put, over f.next or over an empty block after writeNext.
LEMMA AddStep ==
  ASSUME PlacesInv, Numbered', [Next]_vars, up, UNCHANGED <<up, nextBlock, blocks, dbs>>,
         NEW k \in Keys, NEW v \in Values, NEW m \in Metas, NEW values \in Seq(Values),
         values = next \/ stage = "done", Add(k, v, m, values)
  PROVE  PlacesInv' /\ [KV!Next]_(KV!vars)
<1> DEFINE loc == [block |-> nextBlock, pos |-> Len(values) + 1, meta |-> m]
           r == PutRecord(k, loc)
           more == Append(values, v)
<1>1. nextBlock \in Nat
  BY DEF PlacesInv, Numbered, Typed
<1>2. loc \in Location /\ loc.block = nextBlock /\ loc.pos = Len(values) + 1 /\ loc.meta = m
  BY <1>1, LenProperties DEF Location
<1>3. r \in HistoryRecord /\ r.put /\ r.loc = loc /\ r.key = k
  BY <1>2 DEF PutRecord, HistoryRecord
<1>4. history' = Append(history, r) /\ next' = more
  BY DEF Add, Record
<1>5. loc.pos \in DOMAIN more /\ more[loc.pos] = v
  <2>1. /\ more \in Seq(Values) /\ Len(more) = Len(values) + 1 /\ Len(values) \in Nat
        /\ more[Len(values) + 1] = v
    BY AppendProperties, LenProperties
  <2> HIDE DEF more, loc
  <2>2. DOMAIN more = 1 .. Len(values) + 1
    BY <2>1, LenProperties
  <2>3. QED
    BY <1>2, <2>1, <2>2
<1> HIDE DEF loc, r, more
<1>6. View(TRUE, nextBlock', next', blocks')[loc] = [value |-> v, meta |-> m]
  BY <1>2, <1>4, <1>5 DEF View, ValueAt
<1>7. \/ UNCHANGED next
      \/ \E w \in Values : next' = Append(next, w)
      \/ stage \in {"db", "delete", "done"}
  BY <1>4 DEF more
<1>8. IF r.loc.block = nextBlock THEN r.loc.pos \in DOMAIN next'
      ELSE r.loc.pos \in DOMAIN blocks[r.loc.block]
  BY <1>2, <1>3, <1>4, <1>5
<1>9. /\ PlacesInv'
      /\ KV!Update(r.key, IF r.put THEN View(TRUE, nextBlock', next', blocks')[r.loc] ELSE NoEntry)
      /\ Len(Stores(history, TRUE)') = Len(Stores(history, TRUE)) + 1
  BY <1>3, <1>4, <1>7, <1>8, RecordStep
<1>10. KV!Update(k, [value |-> v, meta |-> m])
  BY <1>3, <1>6, <1>9
<1>11. KV!Put(k, v, m) /\ Stores(history, TRUE) # << >>
  BY <1>10 DEF KV!Put, KV!Update
<1>12. QED
  BY <1>9, <1>11, OperationStep

\* What f.files holds, as a store.
LEMMA LatestEntry ==
  ASSUME PlacesInv, up, NEW k \in DOMAIN files
  PROVE  /\ k \in Keys /\ files[k] = Found(history, k)
         /\ \E n \in DOMAIN history : history[n].put /\ files[k] = history[n].loc
         /\ LET entry == Entries(history, View(TRUE, nextBlock, next, blocks))[k]
            IN /\ entry = View(TRUE, nextBlock, next, blocks)[files[k]]
               /\ entry # NoEntry /\ entry.value \in Values
               /\ \A m \in Metas :
                    View(TRUE, nextBlock, next, blocks)[[files[k] EXCEPT !.meta = m]]
                      = [value |-> entry.value, meta |-> m]
<1>1. history \in Seq(HistoryRecord) /\ files = Replay(history) /\ Numbered /\ HistoryPlaced
  BY DEF PlacesInv, Numbered, Typed
<1>2. k \in Keys /\ HasFile(history, k) /\ files[k] = Found(history, k)
  BY <1>1 DEF Replay
<1>3. PICK n \in DOMAIN history : history[n].put /\ files[k] = history[n].loc
  BY <1>1, <1>2, FoundIsRecorded
<1> DEFINE view == View(TRUE, nextBlock, next, blocks)
           loc == files[k]
<1>4. /\ \A m \in Metas : view[[loc EXCEPT !.meta = m]] = [value |-> view[loc].value, meta |-> m]
      /\ view[loc] # NoEntry /\ view[loc].value \in Values
  BY <1>1, <1>3, EntryPresent
<1> HIDE DEF view
<1>5. Entries(history, view)[k] = view[loc]
  BY <1>2 DEF Entries
<1>6. QED
  BY <1>2, <1>3, <1>4, <1>5 DEF view

\* What a start finds after an index has been written: that index, or the same
\* as before.
LEMMA WrittenIndex ==
  ASSUME Typed, Typed', AllWhole, AllWhole', NamesOK, WriteDb
  PROVE  SavedHistory' = SavedHistory \/ SavedHistory' = history
<1>1. /\ DbsOK /\ DbsOK' /\ DOMAIN dbs \subseteq 0 .. MaxDbName
      /\ currDb \in -1 .. MaxDbName /\ NamesAt(DOMAIN dbs, currDb)
  BY DEF Typed, NamesOK, WriteDb, DbsOK
<1>2. /\ DOMAIN dbs' = DOMAIN dbs \cup {NextDb}
      /\ dbs'[NextDb] = Index(nextBlock, history)
      /\ \A i \in DOMAIN dbs : i # NextDb => dbs'[i] = dbs[i]
  BY DEF WriteDb, Assign
<1>4. /\ FindDb' \in DOMAIN dbs' /\ FindDb' # -1
      /\ \A i \in DOMAIN dbs' : FindDb' <= i
  <2>1. DOMAIN dbs' # {} /\ DOMAIN dbs' \subseteq 0 .. MaxDbName /\ MaxDbName \in Nat
    BY <1>1, <1>2, ZipKVAssumption DEF DbsOK
  <2>2. FindDb' = Min(DOMAIN dbs')
    BY <2>1 DEF FindDb
  <2>3. DOMAIN dbs' \subseteq Nat
    BY <2>1
  <2>4. Min(DOMAIN dbs') \in DOMAIN dbs' /\ \A i \in DOMAIN dbs' : Min(DOMAIN dbs') <= i
    BY <2>1, <2>3, MinOfNat
  <2>5. QED
    BY <2>2, <2>3, <2>4
<1>5. SavedHistory' = dbs'[FindDb'].history
  BY <1>4 DEF SavedHistory, AllWhole
<1>6. CASE FindDb' = NextDb
  BY <1>2, <1>5, <1>6 DEF Index
<1>7. CASE FindDb' # NextDb
  <2>1. FindDb' \in DOMAIN dbs /\ DOMAIN dbs # {}
    BY <1>2, <1>4, <1>7
  <2>2. FindDb \in DOMAIN dbs /\ FindDb <= FindDb'
    BY <1>1, <2>1, FindDbTyped
  <2>3. FindDb' <= FindDb
    BY <1>2, <1>4, <2>2
  <2>4. FindDb' = FindDb
    BY <1>1, <2>1, <2>2, <2>3
  <2>5. SavedHistory = dbs[FindDb].history
    BY <1>4, <2>2, <2>4 DEF SavedHistory, AllWhole
  <2>6. dbs'[FindDb'] = dbs[FindDb]
    BY <1>2, <1>7, <2>1, <2>4
  <2>7. QED
    BY <1>5, <2>5, <2>6
<1>8. QED
  BY <1>6, <1>7

\* A start finds the saved stores, up to the one it is rolled back to.
LEMMA OpenStep ==
  ASSUME PlacesInv, Numbered', [Next]_vars, NEW n \in 0 .. MaxOps, Open(n)
  PROVE  PlacesInv' /\ KV!Next
<1> DEFINE h == SavedHistory
           f == View(TRUE, nextBlock', next', blocks')
           g == View(FALSE, nextBlock, next, blocks)
<1>1. /\ ~up /\ up' /\ UNCHANGED <<next, blocks, dbs>>
      /\ h \in Seq(HistoryRecord) /\ Len(h) \in Nat
      /\ Typed /\ AllWhole /\ NumbersOK
  BY SavedTyped, LenProperties DEF Open, backend, PlacesInv, Numbered
<1>2. /\ n \in 0 .. Len(h) /\ history' = SubSeq(h, 1, n)
      /\ \A i \in DOMAIN h : h[i].put => h[i].loc.block # nextBlock'
  <2>1. CASE FindDb = -1
    <3>1. h = << >> /\ n = 0 /\ history' = << >>
      BY <1>1, <2>1, SavedTyped DEF Open, NumbersOK
    <3>2. SubSeq(<< >>, 1, 0) = << >>
      OBVIOUS
    <3> HIDE DEF h
    <3>3. QED
      BY <3>1, <3>2
  <2>2. CASE FindDb # -1
    <3> DEFINE db == dbs[FindDb]
    <3>1. /\ FindDb \in DOMAIN dbs /\ db \in IndexRecord /\ db.whole /\ h = db.history
          /\ n \in 1 .. Len(h) /\ history' = SubSeq(h, 1, n) /\ nextBlock' = db.nextBlock
      BY <1>1, <2>2, SavedTyped DEF Open
    <3>2. Below(h, nextBlock') /\ nextBlock' \in Nat
      BY <1>1, <3>1 DEF NumbersOK, IndexesOK, IndexRecord
    <3> HIDE DEF h, db
    <3>3. \A i \in DOMAIN h : h[i].put => h[i].loc.block \in Nat
      <4>1. \A i \in DOMAIN h : h[i] \in HistoryRecord
        BY <1>1, ElementOfSeq, LenProperties
      <4>2. QED
        BY <4>1 DEF HistoryRecord, Location
    <3>4. QED
      BY <1>1, <3>1, <3>2, <3>3 DEF Below
  <2>3. QED
    BY <2>1, <2>2
<1>3. ASSUME NEW i \in DOMAIN history', history'[i].put
      PROVE  /\ history'[i].loc.block # nextBlock'
             /\ history'[i].loc.pos \in DOMAIN blocks'[history'[i].loc.block]
             /\ f[history'[i].loc] = g[history'[i].loc]
  <2>1. i \in DOMAIN h /\ history'[i] = h[i]
    BY <1>1, <1>2, PrefixOfHistory
  <2>2. h[i].loc \in Location
    <3>1. h[i] \in HistoryRecord
      BY <1>1, <2>1, ElementOfSeq, LenProperties
    <3>2. QED
      BY <1>3, <2>1, <3>1 DEF HistoryRecord
  <2>3. h[i].loc.block # nextBlock'
    BY <1>2, <1>3, <2>1
  <2>4. h[i].loc.pos \in DOMAIN blocks[h[i].loc.block]
    BY <1>3, <2>1 DEF PlacesInv, SavedPlaced
  <2> HIDE DEF h
  <2>5. f[h[i].loc] = g[h[i].loc]
    BY <1>1, <2>2, <2>3 DEF View, ValueAt
  <2> HIDE DEF f, g
  <2>6. QED
    BY <1>1, <2>1, <2>3, <2>4, <2>5
<1>4. HistoryPlaced'
  BY <1>3 DEF HistoryPlaced, Placed
<1>5. SavedHistory' = SavedHistory
  BY <1>1 DEF SavedHistory, FindDb
<1>6. SavedPlaced' /\ Stores(SavedHistory, FALSE)' = Stores(SavedHistory, FALSE)
  BY <1>5, SavedStays, StepKeepsSaved DEF PlacesInv, Numbered
<1>7. PlacesInv'
  BY <1>1, <1>4, <1>6 DEF PlacesInv, AllWhole
<1>8. history' \in Seq(HistoryRecord)
  BY DEF Numbered, Typed
<1>9. /\ Stores(history, TRUE)' = Past(history', f)
      /\ Stores(h, FALSE) = Past(h, g)
  BY <1>1, <1>8, StoresIsPast
<1> HIDE DEF f, g, h
<1>10. Past(history', f) = Past(history', g)
  BY <1>3, <1>8, SamePast
<1>11. Past(history', g) = SubSeq(Past(h, g), 1, n + 1)
  BY <1>1, <1>2, PastOfPrefix
<1>12. n \in 0 .. Len(Past(h, g)) - 1
  <2>1. Len(Past(h, g)) = Len(h) + 1
    BY <1>1, PastIsSeq
  <2>2. QED
    BY <1>1, <1>2, <2>1
<1>13. KV!Open(n) /\ n \in 0 .. Len(Stores(SavedHistory, FALSE)) - 1
  <2>1. Stores(history, TRUE)' = SubSeq(Stores(SavedHistory, FALSE), 1, n + 1)
    BY <1>9, <1>10, <1>11 DEF h
  <2>2. n \in 0 .. Len(Stores(SavedHistory, FALSE)) - 1
    BY <1>9, <1>12 DEF h
  <2>3. QED
    BY <1>1, <1>6, <2>1, <2>2 DEF KV!Open
<1>14. QED
  BY <1>7, <1>13 DEF KV!Next

LEMMA CrashStep ==
  ASSUME PlacesInv, Numbered', [Next]_vars, Crash
  PROVE  PlacesInv' /\ KV!Next
<1>1. up /\ ~up' /\ history' = << >> /\ UNCHANGED <<blocks, dbs>>
  BY DEF Crash, backend
<1>2. SavedHistory' = SavedHistory
  BY <1>1 DEF SavedHistory, FindDb
<1>3. SavedPlaced' /\ Stores(SavedHistory, FALSE)' = Stores(SavedHistory, FALSE)
  BY <1>2, SavedStays, StepKeepsSaved DEF PlacesInv, Numbered
<1>4. PlacesInv'
  BY <1>1, <1>3 DEF PlacesInv, AllWhole, HistoryPlaced
<1>5. Stores(history, TRUE) # << >>
  <2>1. history \in Seq(HistoryRecord)
    BY DEF PlacesInv, Numbered, Typed
  <2>2. QED
    BY <2>1, StoresIsPast, PastIsSeq
<1>6. KV!Close
  BY <1>1, <1>3, <1>5 DEF KV!Close
<1>7. QED
  BY <1>4, <1>6 DEF KV!Next

LEMMA LinkStep ==
  ASSUME PlacesInv, Numbered', [Next]_vars,
         NEW dst \in Keys, NEW src \in Keys, NEW m \in Metas, Link(dst, src, m)
  PROVE  PlacesInv' /\ [KV!Next]_(KV!vars)
<1> DEFINE loc == [files[src] EXCEPT !.meta = m]
           r == PutRecord(dst, loc)
           f == View(TRUE, nextBlock, next, blocks)
           entry == Entries(history, f)[src]
<1>1. /\ up /\ UNCHANGED <<up, nextBlock, next, blocks, dbs>> /\ src \in DOMAIN files
      /\ history' = Append(history, r)
  BY DEF Link, Idle, Record, backend
<1>2. /\ \E n \in DOMAIN history : history[n].put /\ files[src] = history[n].loc
      /\ entry # NoEntry /\ f[loc] = [value |-> entry.value, meta |-> m]
  BY <1>1, LatestEntry
<1>3. PICK n \in DOMAIN history : history[n].put /\ files[src] = history[n].loc
  BY <1>2
<1>4. files[src] \in Location
  BY <1>1, <1>3, HistoryLocations DEF PlacesInv
<1>5. loc \in Location /\ loc.block = files[src].block /\ loc.pos = files[src].pos
  BY <1>4 DEF Location
<1>6. IF loc.block = nextBlock THEN loc.pos \in DOMAIN next ELSE loc.pos \in DOMAIN blocks[loc.block]
  BY <1>3, <1>5 DEF PlacesInv, HistoryPlaced, Placed
<1> HIDE DEF loc, f
<1>7. r \in HistoryRecord /\ r.put /\ r.loc = loc /\ r.key = dst
  BY <1>5 DEF PutRecord, HistoryRecord
<1> HIDE DEF r, entry
<1>8. /\ PlacesInv'
      /\ KV!Update(r.key, IF r.put THEN View(TRUE, nextBlock', next', blocks')[r.loc] ELSE NoEntry)
      /\ KV!Latest = Entries(history, View(TRUE, nextBlock, next, blocks))
      /\ Len(Stores(history, TRUE)') = Len(Stores(history, TRUE)) + 1
  BY <1>1, <1>6, <1>7, RecordStep
<1>9. KV!Update(dst, [value |-> entry.value, meta |-> m])
  BY <1>1, <1>2, <1>7, <1>8 DEF f
<1>10. KV!Latest[src] = entry
  BY <1>8 DEF entry, f
<1>11. KV!Link(dst, src, m) /\ Stores(history, TRUE) # << >>
  BY <1>1, <1>2, <1>9, <1>10 DEF KV!Link, KV!Update
<1>12. QED
  BY <1>1, <1>8, <1>11, OperationStep

LEMMA DeleteStep ==
  ASSUME PlacesInv, Numbered', [Next]_vars, NEW k \in Keys, Delete(k)
  PROVE  PlacesInv' /\ [KV!Next]_(KV!vars)
<1> DEFINE r == DeleteRecord(k)
           f == View(TRUE, nextBlock, next, blocks)
<1>1. /\ up /\ UNCHANGED <<up, nextBlock, next, blocks, dbs>> /\ k \in DOMAIN files
      /\ history' = Append(history, r)
  BY DEF Delete, Idle, Record, backend
<1>2. Entries(history, f)[k] # NoEntry
  BY <1>1, LatestEntry
<1>3. r \in HistoryRecord /\ ~r.put /\ r.key = k
  BY DEF DeleteRecord, HistoryRecord
<1> HIDE DEF r
<1>4. /\ PlacesInv'
      /\ KV!Update(r.key, IF r.put THEN View(TRUE, nextBlock', next', blocks')[r.loc] ELSE NoEntry)
      /\ KV!Latest = Entries(history, View(TRUE, nextBlock, next, blocks))
      /\ Len(Stores(history, TRUE)') = Len(Stores(history, TRUE)) + 1
  BY <1>1, <1>3, RecordStep
<1>5. KV!Update(k, NoEntry) /\ KV!Latest[k] # NoEntry
  BY <1>2, <1>3, <1>4
<1>6. KV!Delete(k) /\ Stores(history, TRUE) # << >>
  BY <1>1, <1>5 DEF KV!Delete, KV!Update
<1>7. QED
  BY <1>1, <1>4, <1>6, OperationStep

-----------------------------------------------------------------------------
(* The store is a map that remembers its past                              *)

LEMMA WholeStays == Typed /\ AllWhole /\ [WholeNext]_vars => AllWhole'
<1> SUFFICES ASSUME Typed, AllWhole, [WholeNext]_vars PROVE AllWhole'
  OBVIOUS
<1>1. ASSUME UNCHANGED dbs PROVE AllWhole'
  BY <1>1 DEF AllWhole
<1>2. CASE WriteDb
  BY <1>2 DEF WriteDb, Assign, Index, AllWhole
<1>3. CASE DeleteDb
  BY <1>3 DEF DeleteDb, Restrict, AllWhole
<1>4. ASSUME UNCHANGED vars PROVE UNCHANGED dbs
  BY <1>4 DEF vars, backend
<1>5. ASSUME NEW k \in Keys, NEW v \in Values, NEW m \in Metas,
             Put(k, v, m) \/ PutToNewBlock(k, v, m)
      PROVE  UNCHANGED dbs
  BY <1>5 DEF Put, PutToNewBlock, backend
<1>6. ASSUME NEW dst \in Keys, NEW src \in Keys, NEW m \in Metas, Link(dst, src, m)
      PROVE  UNCHANGED dbs
  BY <1>6 DEF Link, backend
<1>7. ASSUME NEW k \in Keys, Delete(k) PROVE UNCHANGED dbs
  BY <1>7 DEF Delete, backend
<1>8. ASSUME Sync \/ WriteBlock \/ Finish \/ Fail \/ Crash PROVE UNCHANGED dbs
  BY <1>8 DEF Sync, WriteBlock, Finish, Fail, Crash, backend
<1>9. ASSUME NEW n \in 0 .. MaxOps, Open(n) PROVE UNCHANGED dbs
  BY <1>9 DEF Open, backend
<1>10. QED
  BY <1>1, <1>2, <1>3, <1>4, <1>5, <1>6, <1>7, <1>8, <1>9 DEF WholeNext

LEMMA DurableNext == Typed' /\ NamesOK' => WriteNextIsDurable'
BY DoneIsDurable, PTL

LEMMA InitPlaces == Init => PlacesInv /\ KV!Init
<1> SUFFICES ASSUME Init PROVE PlacesInv /\ KV!Init
  OBVIOUS
<1>1. Numbered
  BY InitTyped, InitNames, InitNumbers DEF Numbered
<1>2. AllWhole /\ FindDb = -1 /\ SavedHistory = << >>
  BY DEF Init, AllWhole, FindDb, SavedHistory
<1>3. HistoryPlaced /\ SavedPlaced
  BY <1>2 DEF Init, HistoryPlaced, SavedPlaced
<1>4. ASSUME NEW m \in BOOLEAN PROVE Stores(<< >>, m) = <<KV!EmptyStore>>
  <2>1. SubSeq(<< >>, 1, 0) = << >> /\ \A k \in Keys : ~HasFile(<< >>, k)
    BY DEF HasFile, Records
  <2>2. [k \in Keys |-> IF HasFile(<< >>, k) THEN Stored(Found(<< >>, k), m) ELSE NoEntry]
          = [k \in Keys |-> NoEntry]
    BY <2>1
  <2>3. \A n \in 1 .. 1 : SubSeq(<< >>, 1, n - 1) = << >>
    BY <2>1
  <2>4. Stores(<< >>, m) = [n \in 1 .. 1 |-> [k \in Keys |-> NoEntry]]
    <3>1. Len(<< >>) + 1 = 1
      OBVIOUS
    <3>2. QED
      BY <2>2, <2>3, <3>1, Zenon DEF Stores
  <2>5. [n \in 1 .. 1 |-> KV!EmptyStore] = <<KV!EmptyStore>>
    OBVIOUS
  <2>6. QED
    BY <2>4, <2>5 DEF KV!EmptyStore
<1>5. KV!Init
  BY <1>2, <1>4 DEF Init, KV!Init
<1>6. QED
  BY <1>1, <1>2, <1>3, <1>5 DEF PlacesInv

\* Every step is one of KVStore, or changes nothing there.
LEMMA StepImplements == PlacesInv /\ [WholeNext]_vars => PlacesInv' /\ [KV!Next]_(KV!vars)
<1> SUFFICES ASSUME PlacesInv, [WholeNext]_vars PROVE PlacesInv' /\ [KV!Next]_(KV!vars)
  OBVIOUS
<1>1. [Next]_vars /\ Typed /\ NamesOK /\ AllWhole
  BY DEF Next, PlacesInv, Numbered
<1>2. Numbered' /\ AllWhole' /\ Typed'
  BY <1>1, NextNumbered, WholeStays DEF PlacesInv, Numbered
<1>3. ASSUME up, UNCHANGED <<up, history, nextBlock, next, blocks, dbs>>
      PROVE  PlacesInv' /\ [KV!Next]_(KV!vars)
  <2>1. SavedHistory' = SavedHistory
    BY <1>3 DEF SavedHistory, FindDb
  <2>2. QED
    BY <1>1, <1>2, <1>3, <2>1, HistoryStep
<1>4. CASE UNCHANGED vars
  <2>1. UNCHANGED <<up, history, nextBlock, next, blocks, dbs>>
    BY <1>4 DEF vars, memory, backend
  <2>2. SavedHistory' = SavedHistory
    BY <2>1 DEF SavedHistory, FindDb
  <2>3. HistoryPlaced' /\ SavedPlaced'
    BY <2>1, <2>2 DEF PlacesInv, HistoryPlaced, SavedPlaced, Placed
  <2>4. Stores(SavedHistory, FALSE)' = Stores(SavedHistory, FALSE)
    BY <1>1, <2>2, SavedStays, StepKeepsSaved DEF PlacesInv, Numbered
  <2>5. Stores(history, TRUE)' = Stores(history, TRUE)
    BY <2>1 DEF Stores, Stored
  <2>6. UNCHANGED KV!vars
    BY <2>1, <2>4, <2>5 DEF KV!vars
  <2>7. QED
    BY <1>2, <2>3, <2>6 DEF PlacesInv
<1>5. ASSUME NEW k \in Keys, NEW v \in Values, NEW m \in Metas, Put(k, v, m)
      PROVE  PlacesInv' /\ [KV!Next]_(KV!vars)
  <2>1. up /\ UNCHANGED <<up, nextBlock, blocks, dbs>> /\ Add(k, v, m, next)
    BY <1>5 DEF Put, Idle, backend
  <2>2. next \in Seq(Values)
    BY <1>1 DEF Typed
  <2>3. QED
    BY <1>1, <1>2, <2>1, <2>2, AddStep
<1>6. ASSUME NEW k \in Keys, NEW v \in Values, NEW m \in Metas, PutToNewBlock(k, v, m)
      PROVE  PlacesInv' /\ [KV!Next]_(KV!vars)
  BY <1>3, <1>6 DEF PutToNewBlock, Idle, backend
<1>7. ASSUME NEW dst \in Keys, NEW src \in Keys, NEW m \in Metas, Link(dst, src, m)
      PROVE  PlacesInv' /\ [KV!Next]_(KV!vars)
  BY <1>1, <1>2, <1>7, LinkStep
<1>8. ASSUME NEW k \in Keys, Delete(k) PROVE PlacesInv' /\ [KV!Next]_(KV!vars)
  BY <1>1, <1>2, <1>8, DeleteStep
<1>9. CASE Sync \/ Fail
  BY <1>3, <1>9 DEF Sync, Idle, Fail, backend
<1>10. CASE WriteBlock
  <2>1. /\ up /\ UNCHANGED <<up, history, next, dbs>>
        /\ blocks' = Assign(blocks, nextBlock, next) /\ nextBlock' = nextBlock + 1
    BY <1>10 DEF WriteBlock, NumberAfterBlock
  <2>2. SavedHistory' = SavedHistory
    BY <2>1 DEF SavedHistory, FindDb
  <2>3. QED
    BY <1>1, <1>2, <2>1, <2>2, HistoryStep
<1>11. CASE WriteDb
  <2>1. up /\ UNCHANGED <<up, history, nextBlock, next, blocks>> /\ stage = "db"
    BY <1>11 DEF WriteDb
  <2>2. SavedHistory' = SavedHistory \/ SavedHistory' = history
    BY <1>1, <1>2, <1>11, WrittenIndex
  <2>3. QED
    BY <1>1, <1>2, <2>1, <2>2, HistoryStep
<1>12. CASE DeleteDb
  <2>1. up /\ UNCHANGED <<up, history, nextBlock, next, blocks>> /\ stage = "delete" /\ stage' = "done"
    BY <1>12 DEF DeleteDb
  <2>2. WriteNextIsDurable'
    BY <1>2, DurableNext DEF Numbered
  <2>3. SavedHistory' = history
    BY <2>1, <2>2 DEF WriteNextIsDurable
  <2>4. QED
    BY <1>1, <1>2, <2>1, <2>3, HistoryStep
<1>13. CASE Finish
  <2>1. up /\ UNCHANGED <<up, nextBlock, blocks, dbs>> /\ stage = "done"
    BY <1>13 DEF Finish, backend
  <2>2. CASE call.op = "put"
    <3>1. call.key \in Keys /\ call.value \in Values /\ call.meta \in Metas
      BY <1>1, <2>2 DEF Typed, CallOK, NoCall
    <3>2. Add(call.key, call.value, call.meta, << >>) /\ << >> \in Seq(Values)
      BY <1>13, <2>2, EmptySeq DEF Finish
    <3>3. QED
      BY <1>1, <1>2, <2>1, <3>1, <3>2, AddStep
  <2>3. CASE call.op # "put"
    <3>1. UNCHANGED history
      BY <1>13, <2>3 DEF Finish
    <3>2. SavedHistory' = SavedHistory
      BY <2>1 DEF SavedHistory, FindDb
    <3>3. QED
      BY <1>1, <1>2, <2>1, <3>1, <3>2, HistoryStep
  <2>4. QED
    BY <2>2, <2>3
<1>14. CASE Crash
  BY <1>1, <1>2, <1>14, CrashStep
<1>15. ASSUME NEW n \in 0 .. MaxOps, Open(n) PROVE PlacesInv' /\ [KV!Next]_(KV!vars)
  BY <1>1, <1>2, <1>15, OpenStep
<1>16. QED
  BY <1>4, <1>5, <1>6, <1>7, <1>8, <1>9, <1>10, <1>11, <1>12, <1>13, <1>14, <1>15 DEF WholeNext

\* Over a backend whose files are whole, blocks, locations and rotating indexes
\* implement the map that remembers its past, through failed calls of the backend,
\* crashes and starts (zipkv.go, against what kv.KV promises).
THEOREM StoreIsMap == WholeSpec => Implements
<1>1. PlacesInv /\ [WholeNext]_vars => PlacesInv'
  BY StepImplements
<1>2. Init => PlacesInv /\ KV!Init
  BY InitPlaces
<1>3. PlacesInv /\ [WholeNext]_vars => [KV!Next]_(KV!vars)
  BY StepImplements
<1>4. QED
  BY <1>1, <1>2, <1>3, PTL DEF WholeSpec, KV!Spec, Implements

-----------------------------------------------------------------------------
(* The length of f.next, a fold of the community modules                   *)

\* The function on sets of places that the fold is defined by.
SumStep(f, q, s) == IF s = {} THEN 0 ELSE f[s \ {Max(s)}] + Size[q[Max(s)]]
Sums(f, q, D) == f = [s \in SUBSET D |-> SumStep(f, q, s)]
Sum(q) == CHOOSE f : Sums(f, q, DOMAIN q)

LEMMA LengthIsSum ==
  ASSUME NEW q
  PROVE  Length(q) = Sum(q)[DOMAIN q]
BY DEF Length, FoldLeft, MapThenFoldSet, Sum, Sums, SumStep

LEMMA SumUnfolds ==
  ASSUME NEW f, NEW q, NEW D, Sums(f, q, D), NEW s \in SUBSET D
  PROVE  f[s] = SumStep(f, q, s)
<1>1. f = [t \in SUBSET D |-> SumStep(f, q, t)]
  BY DEF Sums
<1>2. QED
  BY <1>1

\* A function for n places gives one for n + 1.
LEMMA SumOneMore ==
  ASSUME NEW q, NEW n \in Nat, NEW f, Sums(f, q, 1 .. n)
  PROVE  \E g : Sums(g, q, 1 .. n + 1)
<1> DEFINE g == [s \in SUBSET (1 .. n + 1) |->
                   IF n + 1 \in s THEN f[s \ {n + 1}] + Size[q[n + 1]] ELSE f[s]]
           body(s) == SumStep(g, q, s)
<1>0. n + 1 \in Nat
  OBVIOUS
<1>1. ASSUME NEW s \in SUBSET (1 .. n + 1) PROVE g[s] = body(s)
  <2>1. s # {} => Max(s) \in s /\ \A y \in s : y <= Max(s)
    <3> HIDE DEF g
    <3>1. s \subseteq 1 .. n + 1
      OBVIOUS
    <3>2. QED
      BY <1>0, <3>1, MaxOfBounded
  <2>2. \A t \in SUBSET (1 .. n + 1) :
          g[t] = IF n + 1 \in t THEN f[t \ {n + 1}] + Size[q[n + 1]] ELSE f[t]
    OBVIOUS
  <2> HIDE DEF g
  <2>3. CASE n + 1 \in s
    <3>1. Max(s) = n + 1
      <4>1. Max(s) \in 1 .. n + 1 /\ n + 1 <= Max(s)
        BY <2>1, <2>3
      <4>2. QED
        BY ONLY <4>1, n \in Nat
    <3>2. s \ {n + 1} \in SUBSET (1 .. n + 1) /\ n + 1 \notin s \ {n + 1}
      OBVIOUS
    <3>3. g[s \ {n + 1}] = f[s \ {n + 1}]
      BY <2>2, <3>2
    <3>4. g[s] = f[s \ {n + 1}] + Size[q[n + 1]]
      BY <2>2, <2>3
    <3>5. QED
      BY <2>3, <3>1, <3>3, <3>4 DEF SumStep
  <2>4. CASE n + 1 \notin s
    <3>1. s \in SUBSET (1 .. n)
      <4>1. \A y \in s : y \in 1 .. n + 1 /\ y # n + 1
        BY <2>4
      <4>2. QED
        BY <4>1
    <3>2. f[s] = SumStep(f, q, s)
      <4> DEFINE D == 1 .. n
      <4>1. Sums(f, q, D) /\ s \in SUBSET D
        BY <3>1
      <4> HIDE DEF D
      <4>2. QED
        BY <4>1, SumUnfolds
    <3>3. g[s] = f[s] /\ g[s \ {Max(s)}] = f[s \ {Max(s)}]
      <4>1. s \ {Max(s)} \in SUBSET (1 .. n + 1) /\ n + 1 \notin s \ {Max(s)}
        BY <2>4
      <4>2. QED
        BY <2>2, <2>4, <4>1
    <3>4. QED
      BY <3>2, <3>3 DEF SumStep
  <2>5. QED
    BY <2>3, <2>4
<1>2. g = [s \in SUBSET (1 .. n + 1) |-> g[s]]
  OBVIOUS
<1> HIDE DEF g
<1>3. g = [s \in SUBSET (1 .. n + 1) |-> body(s)]
  BY <1>1, <1>2, Zenon
<1>4. QED
  BY <1>3 DEF Sums

LEMMA SumExists ==
  ASSUME NEW q \in Seq(Values)
  PROVE  Sums(Sum(q), q, DOMAIN q)
<1> DEFINE Bad == {n \in Nat : ~ \E f : Sums(f, q, 1 .. n)}
<1>1. Bad = {}
  <2> SUFFICES ASSUME Bad # {} PROVE FALSE
    OBVIOUS
  <2>1. Min(Bad) \in Bad /\ \A y \in Bad : Min(Bad) <= y
    BY MinOfNat
  <2>2. PICK n \in Nat : n \in Bad /\ \A y \in Bad : n <= y
    BY <2>1
  <2>3. n # 0
    <3>1. ASSUME n = 0 PROVE FALSE
      <4> DEFINE f == [s \in SUBSET {} |-> 0]
                 body(s) == SumStep(f, q, s)
      <4>1. \A s \in SUBSET {} : body(s) = 0
        BY DEF SumStep
      <4> HIDE DEF body
      <4>2. f = [s \in SUBSET {} |-> body(s)]
        BY <4>1
      <4> HIDE DEF f
      <4>3. Sums(f, q, {})
        BY <4>2 DEF Sums, body
      <4>4. 1 .. n = {}
        BY <3>1
      <4>5. QED
        BY <2>2, <4>3, <4>4
    <3>2. QED
      BY <3>1
  <2>4. n - 1 \in Nat /\ (n - 1) + 1 = n /\ ~(n <= n - 1)
    BY <2>3
  <2>5. n - 1 \notin Bad
    BY <2>2, <2>4
  <2>6. PICK f : Sums(f, q, 1 .. n - 1)
    BY <2>4, <2>5
  <2>7. \E g : Sums(g, q, 1 .. (n - 1) + 1)
    BY <2>4, <2>6, SumOneMore
  <2>8. QED
    BY <2>2, <2>4, <2>7
<1>2. DOMAIN q = 1 .. Len(q) /\ Len(q) \in Nat
  BY LenProperties
<1>3. \E f : Sums(f, q, DOMAIN q)
  BY <1>1, <1>2
<1>4. QED
  BY <1>3 DEF Sum

\* The sums of the first places, from the community modules' Max.
LEMMA SumUpTo ==
  ASSUME NEW q \in Seq(Values)
  PROVE  /\ Sum(q)[1 .. 0] = 0
         /\ \A m \in 1 .. Len(q) : Sum(q)[1 .. m] = Sum(q)[1 .. m - 1] + Size[q[m]]
<1>1. DOMAIN q = 1 .. Len(q) /\ Len(q) \in Nat
  BY LenProperties
<1>2. \A s \in SUBSET DOMAIN q : Sum(q)[s] = SumStep(Sum(q), q, s)
  <2> DEFINE f == Sum(q)
  <2>1. Sums(f, q, DOMAIN q)
    BY SumExists
  <2> HIDE DEF f
  <2>2. \A s \in SUBSET DOMAIN q : f[s] = SumStep(f, q, s)
    BY <2>1, SumUnfolds
  <2>3. QED
    BY <2>2 DEF f
<1>3. Sum(q)[1 .. 0] = 0
  <2>1. 1 .. 0 = {}
    OBVIOUS
  <2>2. Sum(q)[{}] = SumStep(Sum(q), q, {})
    BY <1>2
  <2>3. QED
    BY <2>1, <2>2 DEF SumStep
<1>4. ASSUME NEW m \in 1 .. Len(q)
      PROVE  Sum(q)[1 .. m] = Sum(q)[1 .. m - 1] + Size[q[m]]
  <2> DEFINE s == 1 .. m
  <2>1. m \in Nat /\ m \in s /\ s \subseteq 1 .. m
    BY <1>1
  <2>2. Max(s) \in s /\ \A y \in s : y <= Max(s)
    <3> HIDE DEF s
    <3>1. s # {}
      BY <2>1
    <3>2. QED
      BY <2>1, <3>1, MaxOfBounded
  <2>3. Max(s) = m
    <3>1. PICK x \in 1 .. m : x = Max(s) /\ m <= x
      BY <2>1, <2>2
    <3>2. x = m
      BY <2>1, <3>1
    <3>3. QED
      BY <3>1, <3>2
  <2>4. s \in SUBSET DOMAIN q /\ s # {} /\ s \ {m} = 1 .. m - 1
    <3>1. s \ {m} = 1 .. m - 1
      BY <2>1
    <3>2. Len(q) \in Nat /\ m <= Len(q)
      BY <1>1
    <3>3. \A y \in s : y \in 1 .. Len(q)
      BY <2>1, <3>2
    <3> HIDE DEF s
    <3>4. QED
      BY <1>1, <2>1, <3>1, <3>3
  <2> HIDE DEF s
  <2>5. Sum(q)[s] = Sum(q)[s \ {m}] + Size[q[m]]
    BY <1>2, <2>3, <2>4 DEF SumStep
  <2>6. QED
    BY <2>4, <2>5 DEF s
<1>5. QED
  BY <1>3, <1>4

\* Sums of the first places are natural numbers, and not more than the length.
LEMMA SumIsNat ==
  ASSUME NEW q \in Seq(Values), NEW m \in 0 .. Len(q)
  PROVE  Sum(q)[1 .. m] \in Nat
<1> DEFINE f(k) == Sum(q)[1 .. k]
           Bad == {k \in Nat : k <= Len(q) /\ f(k) \notin Nat}
<1>0. DOMAIN q = 1 .. Len(q) /\ Len(q) \in Nat
  BY LenProperties
<1>1. f(0) = 0 /\ \A k \in 1 .. Len(q) : f(k) = f(k - 1) + Size[q[k]]
  BY SumUpTo
<1>2. \A k \in 1 .. Len(q) : Size[q[k]] \in Nat
  BY <1>0, ElementOfSeq, ZipKVAssumption
<1> HIDE DEF f
<1>3. ASSUME Bad # {} PROVE FALSE
  <2>1. Min(Bad) \in Bad /\ \A y \in Bad : Min(Bad) <= y
    BY <1>3, MinOfNat
  <2>2. PICK k \in Nat : k \in Bad /\ \A y \in Bad : k <= y
    BY <2>1
  <2>3. k # 0 /\ k <= Len(q) /\ f(k) \notin Nat
    BY <1>1, <2>2
  <2>4. k \in 1 .. Len(q) /\ k - 1 \in Nat /\ k - 1 <= Len(q) /\ ~(k <= k - 1)
    BY <1>0, <2>3
  <2>5. f(k - 1) \in Nat
    BY <2>2, <2>4
  <2>6. f(k) \in Nat
    BY <1>1, <1>2, <2>4, <2>5
  <2>7. QED
    BY <2>3, <2>6
<1>4. m \in Nat /\ m <= Len(q)
  BY <1>0
<1>5. QED
  BY <1>3, <1>4 DEF f

\* Sequences that begin alike have the same sums there.
LEMMA SumsAgree ==
  ASSUME NEW p \in Seq(Values), NEW q \in Seq(Values), NEW n \in Nat,
         n <= Len(p), n <= Len(q), \A i \in 1 .. n : p[i] = q[i]
  PROVE  Sum(p)[1 .. n] = Sum(q)[1 .. n]
<1> DEFINE f(k) == Sum(p)[1 .. k]
           g(k) == Sum(q)[1 .. k]
           Bad == {k \in Nat : k <= n /\ f(k) # g(k)}
<1>0. Len(p) \in Nat /\ Len(q) \in Nat
  BY LenProperties
<1>1. /\ f(0) = 0 /\ \A k \in 1 .. Len(p) : f(k) = f(k - 1) + Size[p[k]]
      /\ g(0) = 0 /\ \A k \in 1 .. Len(q) : g(k) = g(k - 1) + Size[q[k]]
  BY SumUpTo
<1> HIDE DEF f, g
<1>2. ASSUME Bad # {} PROVE FALSE
  <2>1. Min(Bad) \in Bad /\ \A y \in Bad : Min(Bad) <= y
    BY <1>2, MinOfNat
  <2>2. PICK k \in Nat : k \in Bad /\ \A y \in Bad : k <= y
    BY <2>1
  <2>3. k # 0 /\ k <= n /\ f(k) # g(k)
    BY <1>1, <2>2
  <2>4. /\ k \in 1 .. n /\ k \in 1 .. Len(p) /\ k \in 1 .. Len(q)
        /\ k - 1 \in Nat /\ k - 1 <= n /\ ~(k <= k - 1)
    BY <1>0, <2>3
  <2>5. f(k - 1) = g(k - 1) /\ p[k] = q[k]
    BY <2>2, <2>4
  <2>6. f(k) = g(k)
    BY <1>1, <2>4, <2>5
  <2>7. QED
    BY <2>3, <2>6
<1>3. n <= n
  OBVIOUS
<1>4. QED
  BY <1>2, <1>3 DEF f, g

\* The length of a block is the sum of the lengths of its values.
LEMMA LengthIsNat ==
  ASSUME NEW q \in Seq(Values)
  PROVE  Length(q) \in Nat /\ Length(q) = Sum(q)[1 .. Len(q)]
<1>1. DOMAIN q = 1 .. Len(q) /\ Len(q) \in Nat
  BY LenProperties
<1>2. Length(q) = Sum(q)[1 .. Len(q)]
  BY <1>1, LengthIsSum
<1>3. Len(q) \in 0 .. Len(q)
  BY <1>1
<1>4. QED
  BY <1>2, <1>3, SumIsNat

LEMMA LengthEmpty == Length(<< >>) = 0
<1>1. << >> \in Seq(Values) /\ Len(<< >>) = 0
  BY EmptySeq
<1>2. QED
  BY <1>1, LengthIsNat, SumUpTo

LEMMA LengthAppend ==
  ASSUME NEW q \in Seq(Values), NEW v \in Values
  PROVE  Length(Append(q, v)) = Length(q) + Size[v]
<1> DEFINE p == Append(q, v)
           n == Len(q)
<1>1. /\ p \in Seq(Values) /\ Len(p) = n + 1 /\ p[n + 1] = v
      /\ \A i \in 1 .. n : p[i] = q[i]
  BY AppendProperties
<1>2. n \in Nat /\ n <= n + 1 /\ n + 1 \in 1 .. n + 1 /\ (n + 1) - 1 = n
  BY LenProperties
<1> HIDE DEF p
<1>3. Sum(p)[1 .. n] = Sum(q)[1 .. n]
  BY <1>1, <1>2, SumsAgree
<1>4. Sum(p)[1 .. n + 1] = Sum(p)[1 .. (n + 1) - 1] + Size[p[n + 1]]
  BY <1>1, <1>2, SumUpTo
<1>5. Length(p) = Sum(p)[1 .. n + 1] /\ Length(q) = Sum(q)[1 .. n]
  BY <1>1, LengthIsNat
<1>6. QED
  BY <1>1, <1>2, <1>3, <1>4, <1>5 DEF p

\* A value of a block lies inside it.
LEMMA BytesInside ==
  ASSUME NEW q \in Seq(Values), NEW pos \in DOMAIN q
  PROVE  Bytes(SubSeq(q, 1, pos - 1), q[pos]) \subseteq 0 .. Length(q) - 1
<1> DEFINE p == SubSeq(q, 1, pos - 1)
           f(k) == Sum(q)[1 .. k]
           n == Len(q)
           Bad == {k \in Nat : k <= n /\ ~(f(n - k) <= f(n))}
<1>1. DOMAIN q = 1 .. n /\ n \in Nat
  BY LenProperties
<1>2. pos \in 1 .. n /\ pos - 1 \in 0 .. n /\ pos - 1 \in Nat /\ pos - 1 <= n
  BY <1>1
<1>3. p \in Seq(Values) /\ Len(p) = pos - 1 /\ \A i \in 1 .. pos - 1 : p[i] = q[i]
  BY <1>2, SubSeqProperties
<1> HIDE DEF p
<1>4. Length(p) = f(pos - 1)
  <2>1. Length(p) = Sum(p)[1 .. pos - 1] /\ pos - 1 <= Len(p)
    BY <1>2, <1>3, LengthIsNat
  <2>2. Sum(p)[1 .. pos - 1] = Sum(q)[1 .. pos - 1]
    BY <1>2, <1>3, <2>1, SumsAgree
  <2>3. QED
    BY <2>1, <2>2
<1>5. /\ \A k \in 1 .. n : f(k) = f(k - 1) + Size[q[k]]
      /\ \A k \in 0 .. n : f(k) \in Nat
      /\ Length(q) = f(n)
  BY SumUpTo, SumIsNat, LengthIsNat
<1>6. \A k \in 1 .. n : Size[q[k]] \in Nat
  BY <1>1, ElementOfSeq, ZipKVAssumption
<1> HIDE DEF f
<1>7. ASSUME Bad # {} PROVE FALSE
  <2>1. Min(Bad) \in Bad /\ \A y \in Bad : Min(Bad) <= y
    BY <1>7, MinOfNat
  <2>2. PICK k \in Nat : k \in Bad /\ \A y \in Bad : k <= y
    BY <2>1
  <2>3. k <= n /\ ~(f(n - k) <= f(n))
    BY <2>2
  <2>4. k # 0
    <3>1. n - 0 = n /\ n \in 0 .. n
      BY <1>1
    <3>2. f(n) \in Nat
      BY <1>5, <3>1
    <3>3. QED
      BY <2>3, <3>1, <3>2
  <2>5. k - 1 \in Nat /\ k - 1 <= n /\ ~(k <= k - 1)
    BY <1>1, <2>3, <2>4
  <2>6. f(n - (k - 1)) <= f(n)
    BY <2>2, <2>5
  <2> DEFINE a == n - (k - 1)
  <2>7. a \in 1 .. n /\ a \in 0 .. n /\ a - 1 = n - k /\ n - k \in 0 .. n /\ n \in 0 .. n
    BY <1>1, <2>3, <2>4
  <2>8. f(a) <= f(n)
    BY <2>6
  <2> HIDE DEF a
  <2>9. f(a) = f(n - k) + Size[q[a]] /\ Size[q[a]] \in Nat
    BY <1>5, <1>6, <2>7
  <2>10. f(n - k) \in Nat /\ f(a) \in Nat /\ f(n) \in Nat
    BY <1>5, <2>7
  <2>11. QED
    BY <2>3, <2>8, <2>9, <2>10
<1>8. f(pos) <= f(n)
  <2>1. n - pos \in Nat /\ n - pos <= n /\ n - (n - pos) = pos
    BY <1>1, <1>2
  <2>2. QED
    BY <1>7, <2>1
<1>9. f(pos) = f(pos - 1) + Size[q[pos]] /\ f(pos - 1) \in Nat /\ Size[q[pos]] \in Nat
  BY <1>2, <1>5, <1>6
<1>10. Bytes(p, q[pos]) = f(pos - 1) .. f(pos) - 1
  BY <1>4, <1>9 DEF Bytes
<1>11. f(n) \in Nat /\ f(pos) \in Nat
  <2>1. n \in 0 .. n /\ pos \in 0 .. n
    BY <1>1, <1>2
  <2>2. QED
    BY <1>5, <2>1
<1>12. f(pos - 1) .. f(pos) - 1 \subseteq 0 .. f(n) - 1
  BY <1>8, <1>9, <1>11
<1>13. QED
  BY <1>5, <1>10, <1>12 DEF p

-----------------------------------------------------------------------------
(* The requests                                                            *)

Held == [op : {"get"}, stage : {"file", "digest", "body"}, key : Keys,
         block : Nat, pos : Nat \ {0}, bytes : SUBSET Nat,
         value : Values \cup {NoEntry}, etag : Values \cup {NoEntry},
         seen : [value : Values, meta : Metas], at : Nat]

PutRequest == [op : {"put"}, stage : {"call"}, key : Keys, value : Values, meta : Metas]
CopyRequest == [op : {"copy"}, stage : {"has"}, key : Keys, src : Keys, meta : Metas,
                replace : BOOLEAN]
LinkRequest == [op : {"copy"}, stage : {"link"}, key : Keys, src : Keys, meta : Metas]
DeleteRequest == [op : {"delete"}, stage : {"call"}, key : Keys]
GetRequest == [op : {"get"}, stage : {"call"}, key : Keys]
Replied == [op : {"none"}, stage : {"replied"}, status : Nat]

Request == Replied \cup PutRequest \cup CopyRequest \cup LinkRequest
           \cup DeleteRequest \cup GetRequest \cup Held

RequestsOK == req \in [Requests -> Request]

\* What a request is by its operation and stage.
LEMMA RequestKinds ==
  ASSUME NEW q \in Request
  PROVE  /\ q.op = "put" => q \in PutRequest
         /\ q.op = "copy" /\ q.stage = "has" => q \in CopyRequest
         /\ q.op = "copy" /\ q.stage = "link" => q \in LinkRequest
         /\ q.op = "delete" => q \in DeleteRequest
         /\ q.op = "get" /\ q.stage = "call" => q \in GetRequest
         /\ q.op = "get" /\ q.stage # "call" => q \in Held
BY DEF Request, Replied, PutRequest, CopyRequest, LinkRequest, DeleteRequest, GetRequest, Held

\* Each step of the server is one of the store, or none, and the process runs.
LEMMA StoreSteps ==
  ASSUME RequestsOK, HttpNext
  PROVE  [Next]_vars /\ up
<1> DEFINE Same == UNCHANGED vars /\ up
           Step == Next /\ up
<1>1. ASSUME NEW r \in Requests, NEW request, Receive(r, request) PROVE Same
  BY <1>1 DEF Receive
<1>2. ASSUME NEW r \in Requests,
             Get(r) \/ GetAt(r) \/ FailGetAt(r) \/ Digest(r) \/ Body(r) \/ HandleHas(r) \/ Missing(r)
      PROVE  Same
  BY <1>2 DEF Get, GetAt, FailGetAt, Digest, Body, HandleHas, Missing, Idle
<1>3. ASSUME NEW r \in Requests, HandlePut(r) \/ HandlePutToNewBlock(r) PROVE Step
  <2>1. /\ req[r].key \in Keys /\ req[r].value \in Values /\ req[r].meta \in Metas
        /\ \/ Put(req[r].key, req[r].value, req[r].meta)
           \/ PutToNewBlock(req[r].key, req[r].value, req[r].meta)
    <3>1. req[r].op = "put" /\ req[r] \in Request
      BY <1>3 DEF HandlePut, HandlePutToNewBlock, At, RequestsOK
    <3>2. req[r] \in PutRequest
      BY <3>1, RequestKinds
    <3>3. QED
      BY <1>3, <3>2 DEF HandlePut, HandlePutToNewBlock, PutRequest
  <2>2. QED
    BY <2>1 DEF Next, WholeNext, Put, PutToNewBlock, Idle
<1>4. ASSUME NEW r \in Requests, HandleLink(r) PROVE Step
  <2>1. req[r].op = "copy" /\ req[r].stage = "link" /\ req[r] \in Request
    BY <1>4 DEF HandleLink, At, RequestsOK
  <2>2. req[r] \in LinkRequest
    BY <2>1, RequestKinds
  <2>3. QED
    BY <1>4, <2>2 DEF HandleLink, LinkRequest, Next, WholeNext, Link, Idle
<1>5. ASSUME NEW r \in Requests, HandleDelete(r) PROVE Step
  <2>1. req[r].op = "delete" /\ req[r] \in Request
    BY <1>5 DEF HandleDelete, At, RequestsOK
  <2>2. req[r] \in DeleteRequest
    BY <2>1, RequestKinds
  <2>3. QED
    BY <1>5, <2>2 DEF HandleDelete, DeleteRequest, Next, WholeNext, Delete, Idle
<1>6. CASE FinishPut \/ FinishSync \/ FailPut \/ FailSync
  BY <1>6 DEF FinishPut, FinishSync, FailPut, FailSync, Finish, Fail, Next, WholeNext
<1>7. CASE StoreStep
  BY <1>7 DEF StoreStep, Next, WholeNext, TearFile, WriteBlock, WriteDb, DeleteDb
<1>8. CASE Signal \/ CloseListener
  BY <1>8 DEF Signal, CloseListener
<1>9. CASE HandleSync
  BY <1>9 DEF HandleSync, Sync, Idle, Next, WholeNext
<1>10. CASE Exit
  BY <1>10 DEF Exit, Crash, Next, WholeNext
<1>11. CASE \E r \in Requests :
              \/ \E k \in Keys, v \in Values, m \in Metas : ReceivePut(r, k, v, m)
              \/ \E k, src \in Keys, m \in Metas, replace \in BOOLEAN :
                   ReceiveCopy(r, k, src, m, replace)
              \/ \E k \in Keys : ReceiveDelete(r, k) \/ ReceiveGet(r, k)
  BY <1>1, <1>11 DEF ReceivePut, ReceiveCopy, ReceiveDelete, ReceiveGet
<1>12. QED
  BY <1>2, <1>3, <1>4, <1>5, <1>6, <1>7, <1>8, <1>9, <1>10, <1>11 DEF HttpNext

-----------------------------------------------------------------------------
(* Where the values are                                                    *)

\* The files are in f.next or in a block file, written or torn only under the
\* number of the block that is filled.
FilesPlaced == \A k \in DOMAIN files : Placed(files[k])

\* What is known of the location of a file.
LEMMA FileLocation ==
  ASSUME Numbered, up, NEW k \in DOMAIN files
  PROVE  /\ files[k] \in Location /\ files[k].block <= nextBlock
         /\ files[k].block # nextBlock => files[k].block \in DOMAIN blocks
         /\ stage \in {"db", "delete", "done"} => files[k].block # nextBlock
<1>1. history \in Seq(HistoryRecord) /\ files = Replay(history) /\ nextBlock \in Nat
  BY DEF Numbered, Typed
<1>2. files[k] \in Location
  BY <1>1, ReplayTyped DEF Range
<1>3. files[k].block \in Nat
  BY <1>2 DEF Location
<1>4. /\ files[k].block < nextBlock + 1
      /\ stage \in {"db", "delete", "done"} => files[k].block < nextBlock
  BY <1>1, FileBelow DEF Numbered, NumbersOK
<1>5. files[k].block # nextBlock => files[k].block \in 0 .. nextBlock - 1
  BY <1>1, <1>3, <1>4
<1>6. files[k].block # nextBlock => files[k].block \in DOMAIN blocks
  BY <1>5 DEF Numbered, NumbersOK, Written
<1>7. QED
  BY <1>1, <1>2, <1>3, <1>4, <1>6

\* A location that is in place stays so.
LEMMA LocationStays ==
  ASSUME Numbered, up, NEW loc \in Location, Placed(loc),
         loc.block # nextBlock => loc.block \in DOMAIN blocks /\ loc.block < nextBlock,
         \/ /\ UNCHANGED <<nextBlock, blocks>>
            /\ \/ UNCHANGED next
               \/ \E v \in Values : next' = Append(next, v)
               \/ loc.block # nextBlock
         \/ \E values : blocks' = Assign(blocks, nextBlock, values) /\ UNCHANGED <<nextBlock, next>>
         \/ /\ blocks' = Assign(blocks, nextBlock, next)
            /\ nextBlock' = nextBlock + 1 /\ UNCHANGED next
  PROVE  Placed(loc)'
<1>1. next \in Seq(Values) /\ nextBlock \in Nat /\ loc.block \in Nat /\ DOMAIN next = 1 .. Len(next)
      /\ Len(next) \in Nat
  BY LenProperties DEF Numbered, Typed, Location
<1>2. CASE UNCHANGED <<nextBlock, blocks>> /\ UNCHANGED next
  BY <1>2 DEF Placed
<1>3. CASE UNCHANGED <<nextBlock, blocks>> /\ \E v \in Values : next' = Append(next, v)
  <2>1. DOMAIN next \subseteq DOMAIN next'
    <3>1. PICK v \in Values : next' = Append(next, v)
      BY <1>3
    <3>2. DOMAIN next' = 1 .. Len(next) + 1
      BY <1>1, <3>1, AppendProperties, LenProperties
    <3>3. QED
      BY <1>1, <3>2
  <2>2. QED
    BY <1>3, <2>1 DEF Placed
<1>4. CASE UNCHANGED <<nextBlock, blocks>> /\ loc.block # nextBlock
  BY <1>4 DEF Placed
<1>5. CASE \E values : blocks' = Assign(blocks, nextBlock, values) /\ UNCHANGED <<nextBlock, next>>
  BY <1>5 DEF Placed, Assign
<1>6. CASE /\ blocks' = Assign(blocks, nextBlock, next)
           /\ nextBlock' = nextBlock + 1 /\ UNCHANGED next
  <2>1. loc.block # nextBlock'
    BY <1>1, <1>6
  <2>2. loc.block = nextBlock => blocks'[loc.block] = next
    BY <1>6 DEF Assign
  <2>3. loc.block # nextBlock => blocks'[loc.block] = blocks[loc.block]
    BY <1>6 DEF Assign
  <2>4. QED
    BY <2>1, <2>2, <2>3 DEF Placed
<1>7. QED
  BY <1>2, <1>3, <1>4, <1>5, <1>6

LEMMA FilesStay ==
  ASSUME Numbered, FilesPlaced, [Next]_vars, up
  PROVE  FilesPlaced'
<1>0. /\ next \in Seq(Values) /\ nextBlock \in Nat /\ Len(next) \in Nat
      /\ \A k \in DOMAIN files : /\ files[k] \in Location /\ files[k].block <= nextBlock
                                 /\ files[k].block # nextBlock =>
                                      files[k].block \in DOMAIN blocks /\ files[k].block < nextBlock
                                 /\ Placed(files[k])
  <2>1. next \in Seq(Values) /\ nextBlock \in Nat /\ Len(next) \in Nat
    BY LenProperties DEF Numbered, Typed
  <2>2. ASSUME NEW k \in DOMAIN files
        PROVE  /\ files[k] \in Location /\ files[k].block <= nextBlock
               /\ files[k].block # nextBlock =>
                    files[k].block \in DOMAIN blocks /\ files[k].block < nextBlock
    <3>1. files[k].block \in Nat
      BY FileLocation DEF Location
    <3>2. QED
      BY <2>1, <3>1, FileLocation
  <2>3. QED
    BY <2>1, <2>2 DEF FilesPlaced
\* Files that were there are in place as long as one of these happens.
<1> DEFINE Kind(loc) ==
      \/ /\ UNCHANGED <<nextBlock, blocks>>
         /\ \/ UNCHANGED next
            \/ \E v \in Values : next' = Append(next, v)
            \/ loc.block # nextBlock
      \/ \E values : blocks' = Assign(blocks, nextBlock, values) /\ UNCHANGED <<nextBlock, next>>
      \/ /\ blocks' = Assign(blocks, nextBlock, next)
         /\ nextBlock' = nextBlock + 1 /\ UNCHANGED next
<1>1. ASSUME NEW k \in DOMAIN files, Kind(files[k])
      PROVE  IF files[k].block = nextBlock' THEN files[k].pos \in DOMAIN next'
             ELSE files[k].pos \in DOMAIN blocks'[files[k].block]
  <2>1. PICK loc \in Location : loc = files[k]
    BY <1>0
  <2>2. /\ Placed(loc) /\ Kind(loc)
        /\ loc.block # nextBlock => loc.block \in DOMAIN blocks /\ loc.block < nextBlock
    BY <1>0, <1>1, <2>1
  <2>3. Placed(loc)'
    BY <2>2, LocationStays
  <2>4. QED
    BY <2>1, <2>3 DEF Placed
<1> DEFINE Stays(loc) == IF loc.block = nextBlock' THEN loc.pos \in DOMAIN next'
                         ELSE loc.pos \in DOMAIN blocks'[loc.block]
<1>2. FilesPlaced' <=> \A k \in DOMAIN files' : Stays(files'[k])
  BY DEF FilesPlaced, Placed
<1>3. ASSUME files' = files, \A k \in DOMAIN files : Kind(files[k]) PROVE FilesPlaced'
  BY <1>1, <1>2, <1>3
<1> HIDE DEF Kind
\* The tail of Put.
<1>4. ASSUME NEW k \in Keys, NEW v \in Values, NEW m \in Metas, NEW values \in Seq(Values),
             Add(k, v, m, values), UNCHANGED <<nextBlock, blocks>>,
             values = next \/ stage = "done"
      PROVE  FilesPlaced'
  <2> DEFINE loc == [block |-> nextBlock, pos |-> Len(values) + 1, meta |-> m]
  <2>1. files' = Assign(files, k, loc) /\ next' = Append(values, v)
    BY <1>4 DEF Add, Record
  <2>2. loc.block = nextBlock' /\ loc.pos \in DOMAIN next'
    <3>1. DOMAIN next' = 1 .. Len(values) + 1 /\ Len(values) \in Nat
      BY <2>1, AppendProperties, LenProperties
    <3>2. QED
      BY <1>4, <3>1
  <2>3. ASSUME NEW j \in DOMAIN files PROVE Kind(files[j])
    <3>1. CASE values = next
      BY <1>4, <2>1, <3>1 DEF Kind
    <3>2. CASE stage = "done"
      <4>1. files[j].block # nextBlock
        BY <3>2, FileLocation
      <4>2. QED
        BY <1>4, <4>1 DEF Kind
    <3>3. QED
      BY <1>4, <3>1, <3>2
  <2> HIDE DEF loc
  <2>4. ASSUME NEW j \in DOMAIN files' PROVE Stays(files'[j])
    <3>1. CASE j = k
      BY <2>1, <2>2, <3>1 DEF Assign
    <3>2. CASE j # k
      <4>1. j \in DOMAIN files /\ files'[j] = files[j]
        BY <2>1, <3>2 DEF Assign
      <4>2. QED
        BY <1>1, <2>3, <4>1
    <3>3. QED
      BY <3>1, <3>2
  <2>5. QED
    BY <1>2, <2>4
<1>5. ASSUME NEW k \in Keys, NEW v \in Values, NEW m \in Metas, Put(k, v, m) PROVE FilesPlaced'
  BY <1>0, <1>4, <1>5 DEF Put, backend
<1>6. ASSUME NEW dst \in Keys, NEW src \in Keys, NEW m \in Metas, Link(dst, src, m)
      PROVE  FilesPlaced'
  <2> DEFINE loc == [files[src] EXCEPT !.meta = m]
  <2>1. src \in DOMAIN files /\ files' = Assign(files, dst, loc) /\ UNCHANGED <<nextBlock, next, blocks>>
    BY <1>6 DEF Link, Record, backend
  <2>2. loc.block = files[src].block /\ loc.pos = files[src].pos
    BY <1>0, <2>1 DEF Location
  <2>3. \A j \in DOMAIN files : Stays(files[j])
    BY <1>1, <2>1 DEF Kind
  <2> HIDE DEF loc
  <2>4. \A j \in DOMAIN files' : Stays(files'[j])
    BY <2>1, <2>2, <2>3 DEF Assign
  <2>5. QED
    BY <1>2, <2>4
<1>7. ASSUME NEW k \in Keys, Delete(k) PROVE FilesPlaced'
  <2>1. files' = Restrict(files, DOMAIN files \ {k}) /\ UNCHANGED <<nextBlock, next, blocks>>
    BY <1>7 DEF Delete, Record, backend
  <2>2. \A j \in DOMAIN files : Stays(files[j])
    BY <1>1, <2>1 DEF Kind
  <2>3. \A j \in DOMAIN files' : Stays(files'[j])
    BY <2>1, <2>2 DEF Restrict
  <2>4. QED
    BY <1>2, <2>3
<1>8. CASE TearFile
  <2>1. files' = files /\ \A k \in DOMAIN files : Kind(files[k])
    BY <1>8 DEF TearFile, memory, Kind
  <2>2. QED
    BY <1>3, <2>1
<1>9. CASE WriteBlock
  <2>1. files' = files /\ \A k \in DOMAIN files : Kind(files[k])
    BY <1>9 DEF WriteBlock, NumberAfterBlock, Kind
  <2>2. QED
    BY <1>3, <2>1
<1>10. CASE Finish
  <2>1. CASE call.op = "put"
    <3>1. call.key \in Keys /\ call.value \in Values /\ call.meta \in Metas
      BY <2>1 DEF Numbered, Typed, CallOK, NoCall
    <3>2. QED
      BY <1>4, <1>10, <2>1, <3>1, EmptySeq DEF Finish, backend
  <2>2. CASE call.op # "put"
    <3>1. files' = files /\ UNCHANGED <<nextBlock, blocks>> /\ stage = "done"
      BY <1>10, <2>2 DEF Finish, backend
    <3>2. \A k \in DOMAIN files : Kind(files[k])
      BY <3>1, FileLocation DEF Kind
    <3>3. QED
      BY <1>3, <3>1, <3>2
  <2>3. QED
    BY <2>1, <2>2
<1>11. CASE \/ UNCHANGED vars
            \/ \E k \in Keys, v \in Values, m \in Metas : PutToNewBlock(k, v, m)
            \/ Sync \/ WriteDb \/ DeleteDb \/ Fail
  <2>1. files' = files /\ UNCHANGED <<nextBlock, blocks, next>>
    BY <1>11 DEF vars, memory, backend, PutToNewBlock, Sync, WriteDb, DeleteDb, Fail
  <2>2. \A k \in DOMAIN files : Kind(files[k])
    BY <2>1 DEF Kind
  <2>3. QED
    BY <1>3, <2>1, <2>2
<1>12. CASE Crash
  BY <1>12 DEF Crash, FilesPlaced
<1>13. ASSUME NEW n \in 0 .. MaxOps, Open(n) PROVE FALSE
  BY <1>13 DEF Open
<1>14. QED
  BY <1>5, <1>6, <1>7, <1>8, <1>9, <1>10, <1>11, <1>12, <1>13 DEF Next, WholeNext

-----------------------------------------------------------------------------
(* What the handlers of GETs hold                                          *)

Late == {"db", "delete", "done"}

\* A held request while n is the number of the block that is filled with
\* values, writeNext is at st, and bs are the block files.  One that is to read
\* a file finds there what it has seen, as the file is below the filled block.
\* One with a slice of f.next found it before the block was closed, at a place
\* that append does not touch until then.
HeldOK(q, n, st, values, bs) ==
  /\ q.at <= n /\ (st \in Late => q.at < n)
  /\ q.stage = "file" =>
       /\ q.block < q.at /\ q.bytes = {}
       /\ q.pos \in DOMAIN bs[q.block] /\ bs[q.block][q.pos] = q.seen.value
  /\ q.bytes # {} => q.block = q.at
  /\ q.at = n => q.bytes \subseteq 0 .. Length(values) - 1
  /\ q.stage # "file" /\ (q.at = n \/ q.block # q.at) =>
       q.value = q.seen.value /\ (q.stage = "body" => q.etag = q.seen.value)

GetsOK ==
  \A r \in Requests : req[r] \in Held => HeldOK(req[r], nextBlock, stage, next, blocks)

LEMMA GetsAreStored == RequestsOK /\ GetsOK => HeldIsStored
<1> SUFFICES ASSUME RequestsOK, GetsOK, NEW r \in Requests,
                    req[r].op = "get", req[r].stage \in {"digest", "body"},
                    req[r].at = nextBlock \/ req[r].block # req[r].at
             PROVE  /\ req[r].value = req[r].seen.value
                    /\ req[r].stage = "body" => req[r].etag = req[r].seen.value
  BY DEF HeldIsStored
<1>1. req[r] \in Held
  BY RequestKinds DEF RequestsOK
<1>2. HeldOK(req[r], nextBlock, stage, next, blocks)
  BY <1>1 DEF GetsOK
<1>3. QED
  BY <1>2 DEF HeldOK

\* What a step of the store does to the blocks: it fills the one that is filled,
\* or closes it.
LEMMA StoreEffects ==
  ASSUME Numbered, [Next]_vars, up, up'
  PROVE  \/ /\ nextBlock' = nextBlock /\ (stage' \in Late => stage \in Late)
            /\ blocks' = blocks \/ \E values : blocks' = Assign(blocks, nextBlock, values)
            /\ \/ next' = next \/ stage = "done"
               \/ \E v \in Values : next' = Append(next, v)
         \/ /\ nextBlock' = nextBlock + 1 /\ next' = next
            /\ blocks' = Assign(blocks, nextBlock, next)
<1>1. CASE UNCHANGED vars
  BY <1>1 DEF vars, memory, backend
<1>2. ASSUME NEW k \in Keys, NEW v \in Values, NEW m \in Metas, Put(k, v, m)
      PROVE  /\ UNCHANGED <<nextBlock, stage, blocks>> /\ next' = Append(next, v)
  BY <1>2 DEF Put, Add, Record, backend
<1>3. CASE \/ \E k \in Keys, v \in Values, m \in Metas : PutToNewBlock(k, v, m)
           \/ \E dst, src \in Keys, m \in Metas : Link(dst, src, m)
           \/ \E k \in Keys : Delete(k)
           \/ Sync \/ Fail
  BY <1>3 DEF PutToNewBlock, Link, Delete, Sync, Fail, Record, backend, Late
<1>4. CASE WriteDb \/ DeleteDb
  BY <1>4 DEF WriteDb, DeleteDb, Late
<1>5. CASE TearFile
  BY <1>5 DEF TearFile, memory
<1>6. CASE WriteBlock
  BY <1>6 DEF WriteBlock, NumberAfterBlock
<1>7. CASE Finish
  BY <1>7 DEF Finish, backend, Late
<1>8. ~Crash /\ \A n : ~Open(n)
  BY DEF Crash, Open
<1>9. QED
  BY <1>1, <1>2, <1>3, <1>4, <1>5, <1>6, <1>7, <1>8 DEF Next, WholeNext

\* A held request stays so while the process runs.
LEMMA HeldStays ==
  ASSUME Numbered, [Next]_vars, up, up',
         NEW q \in Held, HeldOK(q, nextBlock, stage, next, blocks)
  PROVE  HeldOK(q, nextBlock', stage', next', blocks')
<1>1. /\ q.at \in Nat /\ q.block \in Nat /\ q.pos \in Nat
      /\ nextBlock \in Nat /\ next \in Seq(Values)
  BY DEF Held, Numbered, Typed
<1>2. q.stage = "file" => /\ q.block < nextBlock /\ q.block \in DOMAIN blocks
  <2>1. q.stage = "file" => q.block < nextBlock
    BY <1>1 DEF HeldOK
  <2>2. q.stage = "file" => q.block \in 0 .. nextBlock - 1
    BY <1>1, <2>1
  <2>3. QED
    BY <2>1, <2>2 DEF Numbered, NumbersOK, Written
<1>3. \A v \in Values : 0 .. Length(next) - 1 \subseteq 0 .. Length(Append(next, v)) - 1
  <2>1. ASSUME NEW v \in Values
        PROVE  0 .. Length(next) - 1 \subseteq 0 .. Length(Append(next, v)) - 1
    <3>1. /\ Length(next) \in Nat /\ Size[v] \in Nat
          /\ Length(Append(next, v)) = Length(next) + Size[v]
      BY <1>1, LengthIsNat, LengthAppend, ZipKVAssumption
    <3>2. QED
      BY <3>1
  <2>2. QED
    BY <2>1
<1>4. CASE /\ nextBlock' = nextBlock /\ (stage' \in Late => stage \in Late)
           /\ blocks' = blocks \/ \E values : blocks' = Assign(blocks, nextBlock, values)
           /\ \/ next' = next \/ stage = "done"
              \/ \E v \in Values : next' = Append(next, v)
  <2>1. q.stage = "file" => blocks'[q.block] = blocks[q.block]
    BY <1>1, <1>2, <1>4 DEF Assign
  <2>2. q.at = nextBlock => q.bytes \subseteq 0 .. Length(next') - 1
    <3>1. CASE next' = next
      BY <3>1 DEF HeldOK
    <3>2. CASE stage = "done"
      BY <1>1, <3>2 DEF HeldOK, Late
    <3>3. CASE \E v \in Values : next' = Append(next, v)
      BY <1>3, <3>3 DEF HeldOK
    <3>4. QED
      BY <1>4, <3>1, <3>2, <3>3
  <2>3. QED
    BY <1>1, <1>4, <2>1, <2>2 DEF HeldOK
<1>5. CASE /\ nextBlock' = nextBlock + 1 /\ next' = next
           /\ blocks' = Assign(blocks, nextBlock, next)
  <2>1. q.stage = "file" => blocks'[q.block] = blocks[q.block]
    BY <1>1, <1>2, <1>5 DEF Assign
  <2>2. q.at < nextBlock'
    BY <1>1, <1>5 DEF HeldOK
  <2>3. QED
    BY <1>1, <1>5, <2>1, <2>2 DEF HeldOK
<1>6. QED
  BY <1>4, <1>5, StoreEffects

\* Who waits for writeNext, and for which call of the store.
CallerOK ==
  /\ stage = "no" => caller = "nobody"
  /\ stage # "no" => \/ caller \in Requests /\ call.op = "put"
                     \/ caller = "main" /\ call.op = "sync" /\ shutdown = "waits"

\* Append touches no value that a handler holds and that is to stay.
LEMMA AppendedHeld ==
  ASSUME Numbered, RequestsOK, GetsOK, NEW v \in Values, NEW values \in Seq(Values),
         values = next \/ stage = "done", NEW r \in Requests
  PROVE  /\ Appended(values, v)[r] \in Request
         /\ Appended(values, v)[r] \in Held =>
              HeldOK(Appended(values, v)[r], nextBlock, stage, next, blocks)
<1>1. CASE ~Holds(req[r])
  BY <1>1 DEF Appended, RequestsOK, GetsOK
<1>2. CASE Holds(req[r])
  <2> DEFINE q == req[r]
             w == IF q.bytes = Bytes(values, v) THEN v ELSE NoEntry
  <2>1. q \in Held /\ q.stage \in {"digest", "body"}
    <3>1. q \in Request /\ q.op = "get" /\ q.stage \in {"digest", "body"}
      BY <1>2 DEF Holds, RequestsOK
    <3>2. q \in Held
      BY <3>1, RequestKinds
    <3>3. QED
      BY <3>1, <3>2
  <2>2. HeldOK(q, nextBlock, stage, next, blocks)
    BY <2>1 DEF GetsOK
  <2>3. \/ Appended(values, v)[r] = [q EXCEPT !.bytes = {}]
        \/ /\ q.bytes \cap Bytes(values, v) # {}
           /\ Appended(values, v)[r] = [q EXCEPT !.value = w]
        \/ Appended(values, v)[r] = q
    BY <1>2 DEF Appended
  <2>4. w \in Values \cup {NoEntry}
    OBVIOUS
  <2> HIDE DEF q, w
  <2>5. CASE Appended(values, v)[r] = q
    BY <2>1, <2>2, <2>5 DEF Request
  <2>6. CASE Appended(values, v)[r] = [q EXCEPT !.bytes = {}]
    <3> DEFINE p == [q EXCEPT !.bytes = {}]
    <3>1. /\ p.stage = q.stage /\ p.block = q.block /\ p.pos = q.pos /\ p.value = q.value
          /\ p.etag = q.etag /\ p.seen = q.seen /\ p.at = q.at /\ p.bytes = {}
      BY <2>1 DEF Held
    <3>2. p \in Held
      BY <2>1 DEF Held
    <3> HIDE DEF p
    <3>3. HeldOK(p, nextBlock, stage, next, blocks)
      BY <2>2, <3>1 DEF HeldOK
    <3>4. QED
      BY <2>6, <3>2, <3>3 DEF p, Request
  <2>7. CASE /\ q.bytes \cap Bytes(values, v) # {}
             /\ Appended(values, v)[r] = [q EXCEPT !.value = w]
    <3> DEFINE p == [q EXCEPT !.value = w]
    <3>1. /\ p.stage = q.stage /\ p.block = q.block /\ p.pos = q.pos /\ p.bytes = q.bytes
          /\ p.etag = q.etag /\ p.seen = q.seen /\ p.at = q.at
      BY <2>1 DEF Held
    <3>2. p \in Held
      BY <2>1, <2>4 DEF Held
    <3>3. q.block = q.at /\ q.at # nextBlock
      <4>1. q.block = q.at /\ q.at \in Nat /\ nextBlock \in Nat
        BY <2>1, <2>2, <2>7 DEF HeldOK, Held, Numbered, Typed
      <4>2. CASE stage = "done"
        BY <2>2, <4>1, <4>2 DEF HeldOK, Late
      <4>3. CASE values = next
        <5>1. Length(values) \in Nat /\ Size[v] \in Nat
          BY LengthIsNat, ZipKVAssumption
        <5>2. (0 .. Length(values) - 1) \cap Bytes(values, v) = {}
          BY <5>1 DEF Bytes
        <5>3. q.at = nextBlock => q.bytes \subseteq 0 .. Length(values) - 1
          BY <2>2, <4>3 DEF HeldOK
        <5>4. QED
          BY <2>7, <4>1, <5>2, <5>3
      <4>4. QED
        BY <4>2, <4>3
    <3> HIDE DEF p
    <3>4. HeldOK(p, nextBlock, stage, next, blocks)
      BY <2>1, <2>2, <3>1, <3>3 DEF HeldOK
    <3>5. QED
      BY <2>7, <3>2, <3>4 DEF p, Request
  <2>8. QED
    BY <2>3, <2>5, <2>6, <2>7
<1>3. QED
  BY <1>1, <1>2

\* A request that is not of a GET under way holds nothing.
LEMMA PlainRequests ==
  /\ \A n \in Nat : Reply(n) \in Request \ Held
  /\ PutRequest \cup CopyRequest \cup LinkRequest \cup DeleteRequest \cup GetRequest
       \subseteq Request \ Held
<1>1. ASSUME NEW q \in PutRequest \cup CopyRequest \cup LinkRequest \cup DeleteRequest
             PROVE q.op # "get"
  BY DEF PutRequest, CopyRequest, LinkRequest, DeleteRequest
<1>2. \A q \in GetRequest : q.stage = "call"
  BY DEF GetRequest
<1>3. \A q \in Held : q.op = "get" /\ q.stage # "call"
  BY DEF Held
<1>4. \A n \in Nat : Reply(n) \in Replied /\ Reply(n).op = "none"
  BY DEF Reply, Replied
<1>5. QED
  BY <1>1, <1>2, <1>3, <1>4 DEF Request

\* What Get finds is what it will hold, of f.next or of a block file.
LEMMA GetHolds ==
  ASSUME Numbered, FilesPlaced, RequestsOK, up, stage = "no",
         NEW r \in Requests, req[r] \in GetRequest, req[r].key \in DOMAIN files
  PROVE  LET q == Holding(r, files[req[r].key])
         IN q \in Held /\ HeldOK(q, nextBlock, stage, next, blocks)
<1> DEFINE k == req[r].key
           loc == files[k]
           q == Holding(r, loc)
           block == IF loc.block = nextBlock THEN next ELSE blocks[loc.block]
           value == block[loc.pos]
           bytes == IF loc.block = nextBlock THEN Bytes(SubSeq(next, 1, loc.pos - 1), next[loc.pos]) ELSE {}
<1>1. /\ loc \in Location /\ loc.block <= nextBlock
      /\ loc.block # nextBlock => loc.block \in DOMAIN blocks
  BY FileLocation
<1>2. loc.block \in Nat /\ loc.pos \in Nat \ {0} /\ loc.meta \in Metas /\ nextBlock \in Nat
      /\ k \in Keys
  BY <1>1 DEF Location, Numbered, Typed, GetRequest
<1>3. loc.pos \in DOMAIN block
  BY DEF FilesPlaced, Placed
<1>4. block \in Seq(Values)
  BY <1>1 DEF Numbered, Typed, BlocksOK, Range
<1> HIDE DEF loc, k
<1>5. value \in Values
  BY <1>3, <1>4, ElementOfSeq, LenProperties
<1>6. Entry(k) = [value |-> value, meta |-> loc.meta]
  BY <1>1, <1>3 DEF Entry, Stored, loc, k
<1>7. /\ loc.block = nextBlock => value = next[loc.pos]
      /\ loc.block # nextBlock => value = blocks[loc.block][loc.pos]
  OBVIOUS
<1>8. q = [op |-> "get", stage |-> IF loc.block = nextBlock THEN "digest" ELSE "file", key |-> k,
           block |-> loc.block, pos |-> loc.pos, bytes |-> bytes,
           value |-> IF loc.block = nextBlock THEN value ELSE NoEntry,
           etag |-> NoEntry, seen |-> [value |-> value, meta |-> loc.meta], at |-> nextBlock]
  BY <1>6, <1>7 DEF Holding, InNext, k
<1>9. /\ loc.block = nextBlock => loc.pos \in DOMAIN next
      /\ loc.block # nextBlock => loc.pos \in DOMAIN blocks[loc.block]
  BY <1>3
<1>10. /\ loc.block # nextBlock => bytes = {}
       /\ loc.block = nextBlock => bytes \subseteq 0 .. Length(next) - 1
  <2>1. next \in Seq(Values)
    BY DEF Numbered, Typed
  <2>2. QED
    BY <1>9, <2>1, BytesInside
<1> HIDE DEF bytes
<1>11. bytes \in SUBSET Nat
  <2>1. Length(next) \in Nat
    BY LengthIsNat DEF Numbered, Typed
  <2>2. QED
    BY <1>10, <2>1
<1> HIDE DEF q, value, block
<1>12. q \in Held
  BY <1>2, <1>5, <1>8, <1>11 DEF Held
<1>13. /\ q.at = nextBlock /\ q.block = loc.block /\ q.pos = loc.pos
       /\ q.bytes = bytes
       /\ q.stage = (IF loc.block = nextBlock THEN "digest" ELSE "file")
       /\ q.seen.value = value
       /\ loc.block = nextBlock => q.value = value
  BY <1>8
<1>14. HeldOK(q, nextBlock, stage, next, blocks)
  <2>1. CASE loc.block = nextBlock
    <3>1. /\ q.at = nextBlock /\ q.block = nextBlock /\ q.stage = "digest"
          /\ q.value = q.seen.value /\ q.bytes \subseteq 0 .. Length(next) - 1
      BY <1>13, <1>10, <2>1
    <3>2. nextBlock <= nextBlock /\ stage \notin Late
      BY <1>2 DEF Late
    <3>3. QED
      BY ONLY <3>1, <3>2 DEF HeldOK
  <2>2. CASE loc.block # nextBlock
    <3>1. /\ q.at = nextBlock /\ q.block < nextBlock /\ q.block # q.at
          /\ q.stage = "file" /\ q.bytes = {}
          /\ q.pos \in DOMAIN blocks[q.block] /\ blocks[q.block][q.pos] = q.seen.value
      <4>1. q.at = nextBlock /\ q.block < nextBlock /\ q.block # q.at
        BY <1>1, <1>2, <1>13, <2>2
      <4>2. q.stage = "file" /\ q.pos \in DOMAIN blocks[q.block]
        BY <1>9, <1>13, <2>2
      <4>3. blocks[q.block][q.pos] = q.seen.value
        BY <1>7, <1>13, <2>2
      <4>4. q.bytes = {}
        BY <1>13, <1>10, <2>2
      <4>5. QED
        BY <4>1, <4>2, <4>3, <4>4
    <3>2. nextBlock <= nextBlock /\ stage \notin Late
      BY <1>2 DEF Late
    <3>3. QED
      BY ONLY <3>1, <3>2 DEF HeldOK
  <2>3. QED
    BY <2>1, <2>2
<1>15. QED
  BY <1>12, <1>14 DEF q, loc, k

\* The steps of a request keep its type and what is known of what it holds.
LEMMA RequestsStay ==
  ASSUME Numbered, FilesPlaced, RequestsOK, GetsOK, CallerOK, HttpNext
  PROVE  RequestsOK' /\ GetsOK'
<1> DEFINE Good(q) == /\ q \in Request
                      /\ q \in Held => HeldOK(q, nextBlock', stage', next', blocks')
<1>0. [Next]_vars /\ up
  BY StoreSteps
<1>1. ASSUME DOMAIN req' = Requests, req' = [r \in Requests |-> req'[r]],
             \A r \in Requests : Good(req'[r])
      PROVE  RequestsOK' /\ GetsOK'
  BY <1>1 DEF RequestsOK, GetsOK
<1>2. ASSUME up', NEW q \in Request, q \in Held => HeldOK(q, nextBlock, stage, next, blocks)
      PROVE  Good(q)
  BY <1>0, <1>2, HeldStays
<1>3. ASSUME up' PROVE \A r \in Requests : Good(req[r])
  BY <1>2, <1>3 DEF RequestsOK, GetsOK
<1>4. \A q \in Request \ Held : Good(q)
  OBVIOUS
<1>5. \A n \in Nat : Good(Reply(n))
  BY <1>4, PlainRequests
<1> HIDE DEF Good
<1>6. ASSUME up', NEW r \in Requests, NEW q, Good(q), req' = [req EXCEPT ![r] = q]
      PROVE  RequestsOK' /\ GetsOK'
  <2>1. DOMAIN req = Requests
    BY DEF RequestsOK
  <2>2. \A s \in Requests : Good(req'[s])
    BY <1>3, <1>6, <2>1
  <2>3. QED
    BY <1>1, <1>6, <2>1, <2>2
<1>7. ASSUME up', UNCHANGED req PROVE RequestsOK' /\ GetsOK'
  <2>1. DOMAIN req = Requests /\ req = [r \in Requests |-> req[r]]
    BY DEF RequestsOK
  <2>2. QED
    BY <1>1, <1>3, <1>7, <2>1
\* The requests that come.
<1>8. ASSUME NEW r \in Requests,
             \/ \E k \in Keys, v \in Values, m \in Metas : ReceivePut(r, k, v, m)
             \/ \E k, src \in Keys, m \in Metas, replace \in BOOLEAN : ReceiveCopy(r, k, src, m, replace)
             \/ \E k \in Keys : ReceiveDelete(r, k) \/ ReceiveGet(r, k)
      PROVE  RequestsOK' /\ GetsOK'
  <2>1. \E q \in PutRequest \cup CopyRequest \cup DeleteRequest \cup GetRequest : Receive(r, q)
    BY <1>8 DEF ReceivePut, ReceiveCopy, ReceiveDelete, ReceiveGet,
                PutRequest, CopyRequest, DeleteRequest, GetRequest
  <2>2. PICK q \in PutRequest \cup CopyRequest \cup DeleteRequest \cup GetRequest : Receive(r, q)
    BY <2>1
  <2>3. Good(q)
    BY <1>4, PlainRequests
  <2>4. up' /\ req' = [req EXCEPT ![r] = q]
    BY <2>2 DEF Receive, vars
  <2>5. QED
    BY <1>6, <2>3, <2>4
\* GET.
<1>9. ASSUME NEW r \in Requests, Get(r) PROVE RequestsOK' /\ GetsOK'
  <2>1. /\ req[r] \in Request /\ req[r].op = "get" /\ req[r].stage = "call"
        /\ up' /\ up /\ stage = "no" /\ UNCHANGED vars
    BY <1>9 DEF Get, At, Idle, vars, RequestsOK
  <2>2. req[r] \in GetRequest
    BY <2>1, RequestKinds
  <2>3. CASE req[r].key \in DOMAIN files
    <3> DEFINE q == Holding(r, files[req[r].key])
    <3>1. q \in Held /\ HeldOK(q, nextBlock, stage, next, blocks)
      BY <2>1, <2>2, <2>3, GetHolds
    <3>2. req' = [req EXCEPT ![r] = q]
      BY <1>9, <2>3 DEF Get
    <3> HIDE DEF q
    <3>3. Good(q)
      BY <1>2, <2>1, <3>1 DEF Request
    <3>4. QED
      BY <1>6, <2>1, <3>2, <3>3
  <2>4. CASE req[r].key \notin DOMAIN files
    BY <1>5, <1>6, <1>9, <2>1, <2>4 DEF Get, Answer
  <2>5. QED
    BY <2>3, <2>4
<1>10. ASSUME NEW r \in Requests, GetAt(r) PROVE RequestsOK' /\ GetsOK'
  <2> DEFINE q == req[r]
             p == [q EXCEPT !.stage = "digest", !.value = blocks[q.block][q.pos]]
  <2>1. /\ q \in Request /\ q.op = "get" /\ q.stage = "file"
        /\ up' /\ UNCHANGED vars /\ req' = [req EXCEPT ![r] = p]
    BY <1>10 DEF GetAt, At, vars, RequestsOK
  <2>2. q \in Held
    BY <2>1, RequestKinds
  <2>3. HeldOK(q, nextBlock, stage, next, blocks)
    BY <2>2 DEF GetsOK
  <2> HIDE DEF q
  <2>4. blocks[q.block][q.pos] = q.seen.value /\ q.seen.value \in Values /\ q.block < q.at
        /\ q.bytes = {} /\ q.block \in Nat /\ q.at \in Nat
    BY <2>1, <2>2, <2>3 DEF HeldOK, Held
  <2>5. p \in Held
    BY <2>2, <2>4 DEF Held
  <2>6. /\ p.stage = "digest" /\ p.block = q.block /\ p.at = q.at /\ p.bytes = q.bytes
        /\ p.value = q.seen.value /\ p.seen = q.seen
    BY <2>2, <2>4 DEF Held
  <2> HIDE DEF p
  <2>7. HeldOK(p, nextBlock, stage, next, blocks)
    BY <2>3, <2>4, <2>6 DEF HeldOK
  <2>8. Good(p)
    BY <1>2, <2>1, <2>5, <2>7 DEF Request
  <2>9. QED
    BY <1>6, <2>1, <2>8
<1>11. ASSUME NEW r \in Requests, Digest(r) PROVE RequestsOK' /\ GetsOK'
  <2> DEFINE q == req[r]
             p == [q EXCEPT !.stage = "body", !.etag = q.value]
  <2>1. /\ q \in Request /\ q.op = "get" /\ q.stage = "digest"
        /\ up' /\ UNCHANGED vars /\ req' = [req EXCEPT ![r] = p]
    BY <1>11 DEF Digest, At, vars, RequestsOK
  <2>2. q \in Held
    BY <2>1, RequestKinds
  <2>3. HeldOK(q, nextBlock, stage, next, blocks)
    BY <2>2 DEF GetsOK
  <2> HIDE DEF q
  <2>4. p \in Held
    BY <2>2 DEF Held
  <2>5. /\ p.stage = "body" /\ p.block = q.block /\ p.at = q.at /\ p.bytes = q.bytes /\ p.pos = q.pos
        /\ p.value = q.value /\ p.etag = q.value /\ p.seen = q.seen
    BY <2>2 DEF Held
  <2> HIDE DEF p
  <2>6. HeldOK(p, nextBlock, stage, next, blocks)
    BY <2>1, <2>3, <2>5 DEF HeldOK
  <2>7. Good(p)
    BY <1>2, <2>1, <2>4, <2>6 DEF Request
  <2>8. QED
    BY <1>6, <2>1, <2>7
\* The other replies.
<1>12. ASSUME NEW r \in Requests, NEW n \in Nat, Answer(r, n), up' PROVE RequestsOK' /\ GetsOK'
  BY <1>5, <1>6, <1>12 DEF Answer
<1>13. ASSUME NEW r \in Requests, FailGetAt(r) \/ Body(r) \/ Missing(r) PROVE RequestsOK' /\ GetsOK'
  <2>1. up' /\ \E n \in Nat : Answer(r, n)
    BY <1>13 DEF FailGetAt, Body, Missing, Idle, vars
  <2>2. QED
    BY <1>12, <2>1
<1>14. ASSUME NEW r \in Requests, HandleLink(r) \/ HandleDelete(r) PROVE RequestsOK' /\ GetsOK'
  <2>1. up' /\ Answer(r, 200)
    BY <1>14 DEF HandleLink, HandleDelete, Link, Delete, Idle
  <2>2. QED
    BY <1>12, <2>1
\* The rest.
<1>15. ASSUME NEW r \in Requests, HandleHas(r) PROVE RequestsOK' /\ GetsOK'
  <2>1. /\ req[r] \in Request /\ req[r].op = "copy" /\ req[r].stage = "has"
        /\ up' /\ up /\ files' = files
    BY <1>15 DEF HandleHas, At, Idle, vars, memory, RequestsOK
  <2>2. req[r] \in CopyRequest
    BY <2>1, RequestKinds
  <2>3. CASE req[r].src \notin DOMAIN files
    BY <1>12, <1>15, <2>1, <2>3 DEF HandleHas
  <2>4. CASE req[r].src \in DOMAIN files
    <3> DEFINE q == [op |-> "copy", stage |-> "link", key |-> req[r].key, src |-> req[r].src,
                     meta |-> IF req[r].replace THEN req[r].meta ELSE files[req[r].src].meta]
    <3>1. files[req[r].src].meta \in Metas
      BY <2>1, <2>4, FileLocation DEF Location
    <3>2. q \in LinkRequest
      BY <2>2, <3>1 DEF LinkRequest, CopyRequest
    <3>3. req' = [req EXCEPT ![r] = q]
      BY <1>15, <2>4 DEF HandleHas
    <3> HIDE DEF q
    <3>4. Good(q)
      BY <1>4, <3>2, PlainRequests
    <3>5. QED
      BY <1>6, <2>1, <3>3, <3>4
  <2>5. QED
    BY <2>3, <2>4
\* A value is appended to f.next.
<1>16. ASSUME NEW r \in Requests, NEW v \in Values, NEW values \in Seq(Values),
              values = next \/ stage = "done", up',
              req' = [Appended(values, v) EXCEPT ![r] = Reply(200)]
       PROVE  RequestsOK' /\ GetsOK'
  <2>1. Good(Reply(200))
    BY <1>5
  <2>2. \A s \in Requests : Good(Appended(values, v)[s])
    BY <1>2, <1>16, AppendedHeld
  <2>3. Appended(values, v) = [s \in Requests |-> Appended(values, v)[s]]
    BY DEF Appended
  <2> DEFINE a == Appended(values, v)
  <2> HIDE DEF a
  <2>4. /\ req' = [a EXCEPT ![r] = Reply(200)] /\ a = [s \in Requests |-> a[s]]
        /\ \A s \in Requests : Good(a[s])
    BY <1>16, <2>2, <2>3 DEF a
  <2>5. DOMAIN req' = Requests /\ req' = [s \in Requests |-> req'[s]]
    BY <2>4
  <2>6. \A s \in Requests : Good(req'[s])
    BY <2>1, <2>4
  <2>7. QED
    BY <1>1, <2>5, <2>6
<1>17. ASSUME NEW r \in Requests, HandlePut(r) PROVE RequestsOK' /\ GetsOK'
  <2>1. req[r].op = "put" /\ req[r] \in Request
    BY <1>17 DEF HandlePut, At, RequestsOK
  <2>2. req[r].value \in Values
    BY <2>1, RequestKinds DEF PutRequest
  <2>3. up' /\ req' = [Appended(next, req[r].value) EXCEPT ![r] = Reply(200)]
    BY <1>17 DEF HandlePut, Put, Idle
  <2>4. next \in Seq(Values)
    BY DEF Numbered, Typed
  <2>5. QED
    BY <1>16, <2>2, <2>3, <2>4
<1>18. CASE FinishPut
  <2>1. caller \in Requests /\ stage = "done" /\ up'
    BY <1>18 DEF FinishPut, Finish
  <2>2. call.op = "put"
    BY <2>1, KVHttpAssumption DEF CallerOK
  <2>3. call.value \in Values
    BY <2>2 DEF Numbered, Typed, CallOK, NoCall
  <2>4. req' = [Appended(<< >>, call.value) EXCEPT ![caller] = Reply(200)]
    BY <1>18 DEF FinishPut
  <2>5. << >> \in Seq(Values)
    BY EmptySeq
  <2>6. QED
    BY <1>16, <2>1, <2>3, <2>4, <2>5
<1>19. CASE FailPut
  BY <1>12, <1>19 DEF FailPut, Fail
\* Requests are unchanged, or gone.
<1>20. CASE \/ \E r \in Requests : HandlePutToNewBlock(r)
            \/ StoreStep \/ Signal \/ HandleSync \/ FinishSync \/ FailSync \/ CloseListener
  <2>1. up' /\ UNCHANGED req
    BY <1>20, <1>0 DEF HandlePutToNewBlock, PutToNewBlock, StoreStep, httpVars, TearFile, WriteBlock,
      WriteDb, DeleteDb, Signal, HandleSync, Sync, FinishSync, Finish, FailSync, Fail,
      CloseListener, vars, Idle
  <2>2. QED
    BY <1>7, <2>1
<1>21. CASE Exit
  <2>1. req' = [r \in Requests |-> Reply(0)]
    BY <1>21 DEF Exit, Free
  <2>2. QED
    BY <1>1, <1>5, <2>1
<1>22. QED
  BY <1>8, <1>9, <1>10, <1>11, <1>13, <1>14, <1>15, <1>17, <1>18, <1>19, <1>20, <1>21 DEF HttpNext

LEMMA CallerStays ==
  ASSUME RequestsOK, CallerOK, HttpNext
  PROVE  CallerOK'
<1>1. ASSUME NEW r \in Requests, NEW request, Receive(r, request) PROVE CallerOK'
  BY <1>1 DEF Receive, CallerOK, vars, memory
<1>2. ASSUME NEW r \in Requests,
             Get(r) \/ GetAt(r) \/ FailGetAt(r) \/ Digest(r) \/ Body(r) \/ HandleHas(r) \/ Missing(r)
      PROVE  CallerOK'
  BY <1>2 DEF Get, GetAt, FailGetAt, Digest, Body, HandleHas, Missing, CallerOK, vars, memory
<1>3. ASSUME NEW r \in Requests, HandlePut(r) \/ HandleLink(r) \/ HandleDelete(r) PROVE CallerOK'
  BY <1>3 DEF HandlePut, HandleLink, HandleDelete, Put, Link, Delete, Idle, CallerOK
<1>4. ASSUME NEW r \in Requests, HandlePutToNewBlock(r) PROVE CallerOK'
  BY <1>4 DEF HandlePutToNewBlock, PutToNewBlock, CallerOK
<1>5. CASE FinishPut \/ FinishSync \/ FailPut \/ FailSync
  BY <1>5 DEF FinishPut, FinishSync, FailPut, FailSync, Finish, Fail, CallerOK
<1>6. CASE StoreStep
  BY <1>6 DEF StoreStep, httpVars, TearFile, WriteBlock, WriteDb, DeleteDb, memory, CallerOK
<1>7. CASE Signal \/ CloseListener
  BY <1>7 DEF Signal, CloseListener, vars, memory, CallerOK
<1>8. CASE HandleSync
  BY <1>8 DEF HandleSync, Sync, Idle, CallerOK
<1>9. CASE Exit
  BY <1>9 DEF Exit, Crash, CallerOK
<1>10. CASE \E r \in Requests :
              \/ \E k \in Keys, v \in Values, m \in Metas : ReceivePut(r, k, v, m)
              \/ \E k, src \in Keys, m \in Metas, replace \in BOOLEAN :
                   ReceiveCopy(r, k, src, m, replace)
              \/ \E k \in Keys : ReceiveDelete(r, k) \/ ReceiveGet(r, k)
  BY <1>1, <1>10 DEF ReceivePut, ReceiveCopy, ReceiveDelete, ReceiveGet
<1>11. QED
  BY <1>2, <1>3, <1>4, <1>5, <1>6, <1>7, <1>8, <1>9, <1>10 DEF HttpNext

-----------------------------------------------------------------------------
(* The invariant of the handlers                                           *)

HandlersInv == Numbered /\ FilesPlaced /\ RequestsOK /\ GetsOK /\ CallerOK

LEMMA InitHandlers == HttpInit => HandlersInv
<1> SUFFICES ASSUME HttpInit PROVE HandlersInv
  OBVIOUS
<1>1. Init
  BY DEF HttpInit
<1>2. Numbered
  BY <1>1, InitTyped, InitNames, InitNumbers DEF Numbered
<1>3. FilesPlaced
  BY <1>1 DEF Init, FilesPlaced
<1>4. req = [r \in Requests |-> Reply(0)] /\ Reply(0) \in Request \ Held
  BY PlainRequests DEF HttpInit, Free
<1>5. RequestsOK /\ GetsOK
  BY <1>4 DEF RequestsOK, GetsOK
<1>6. CallerOK
  BY <1>1 DEF HttpInit, Init, CallerOK
<1>7. QED
  BY <1>2, <1>3, <1>5, <1>6 DEF HandlersInv

LEMMA HandlersStay == HandlersInv /\ [HttpNext]_allVars => HandlersInv'
<1> SUFFICES ASSUME HandlersInv, [HttpNext]_allVars PROVE HandlersInv'
  OBVIOUS
<1> USE DEF HandlersInv
<1>1. CASE HttpNext
  <2>1. [Next]_vars /\ up
    BY <1>1, StoreSteps
  <2>2. QED
    BY <1>1, <2>1, NextNumbered, FilesStay, RequestsStay, CallerStays
<1>2. CASE UNCHANGED allVars
  <2>1. UNCHANGED vars /\ UNCHANGED <<req, caller, shutdown>>
    BY <1>2 DEF allVars, httpVars
  <2>2. Numbered'
    BY <2>1, NextNumbered
  <2>3. FilesPlaced' /\ RequestsOK' /\ GetsOK' /\ CallerOK'
    BY <2>1 DEF vars, memory, backend, FilesPlaced, Placed, RequestsOK, GetsOK, CallerOK
  <2>4. QED
    BY <2>2, <2>3
<1>3. QED
  BY <1>1, <1>2

THEOREM HandlersInvariant == HttpSpec => []HandlersInv
BY InitHandlers, HandlersStay, PTL DEF HttpSpec

\* The server with its handlers and its shutdown takes steps of the store only,
\* so that what is proved of the store holds in it.
THEOREM ServesStore == HttpSpec => Spec
<1>1. HttpInit => Init
  BY DEF HttpInit
<1>2. HandlersInv /\ [HttpNext]_allVars => [Next]_vars
  BY StoreSteps DEF HandlersInv, allVars
<1>3. QED
  BY <1>1, <1>2, HandlersInvariant, PTL DEF HttpSpec, Spec

\* Whatever handlers, failures and the shutdown do, a whole index that a start
\* finds is covered by a torn one only where the names wrap around.
THEOREM ServerTearsAtWrapOnly == HttpSpec => TornOnlyAtWrap
BY ServesStore, TornAtWrapOnly

\* What the handler of a GET holds is what it found until the block is closed.
THEOREM GetsHoldStored == HttpSpec => []HeldIsStored
BY HandlersInvariant, GetsAreStored, PTL DEF HandlersInv

-----------------------------------------------------------------------------
(* The indexes while the server runs                                       *)

\* As no store is opened again there are only the index in force and the next
\* one, each with the history up to some record, the next one with no less.
IndexesFollow ==
  /\ DOMAIN dbs \subseteq {currDb, NextDb}
  /\ \A i \in DOMAIN dbs : dbs[i].whole => IsPrefix(dbs[i].history, history)
  /\ currDb # -1 /\ NextDb \in DOMAIN dbs /\ dbs[NextDb].whole =>
       Len(dbs[currDb].history) <= Len(dbs[NextDb].history)

\* The index in force has the first n records.
Covers(n) == n > 0 => currDb # -1 /\ Len(dbs[currDb].history) >= n

LEMMA PrefixMeans ==
  ASSUME NEW s \in Seq(HistoryRecord), NEW t \in Seq(HistoryRecord)
  PROVE  IsPrefix(s, t) <=> Len(s) <= Len(t) /\ \A i \in 1 .. Len(s) : s[i] = t[i]
<1> DEFINE n == Len(s)
           u == SubSeq(t, 1, n)
<1>1. Len(s) \in Nat /\ Len(t) \in Nat
  BY LenProperties
<1>2. SubSeq(s, 1, n) = s
  BY <1>1, PrefixOfHistory
<1>3. CASE n <= Len(t)
  <2>1. n \in 0 .. Len(t)
    BY <1>1, <1>3
  <2>2. u \in Seq(HistoryRecord) /\ Len(u) = n /\ \A i \in 1 .. n : u[i] = t[i]
    BY <2>1, PrefixOfHistory
  <2> HIDE DEF u
  <2>3. s = u <=> \A i \in 1 .. n : s[i] = u[i]
    BY <2>2, SeqEqual
  <2>4. IsPrefix(s, t) <=> n <= Len(t) /\ s = u
    BY <1>2 DEF IsPrefix, u
  <2>5. QED
    BY <1>3, <2>2, <2>3, <2>4
<1>4. CASE ~(n <= Len(t))
  BY <1>4 DEF IsPrefix
<1>5. QED
  BY <1>3, <1>4

LEMMA AppendKeeps ==
  ASSUME NEW h \in Seq(HistoryRecord), NEW x
  PROVE  /\ Len(Append(h, x)) = Len(h) + 1
         /\ \A i \in 1 .. Len(h) : Append(h, x)[i] = h[i]
<1>1. h \in Seq(HistoryRecord \cup {x})
  BY SeqMonotonic
<1>2. QED
  BY <1>1, AppendProperties

\* The names rotate, and there are at least two.
LEMMA NamesRotate ==
  ASSUME NEW c \in -1 .. MaxDbName
  PROVE  LET n == (c + 1) % (MaxDbName + 1)
         IN /\ n \in 0 .. MaxDbName /\ n # c
            /\ c = MaxDbName => n = 0
            /\ c # MaxDbName => n = c + 1
<1> DEFINE b == MaxDbName + 1
           a == c + 1
<1>1. a \in 0 .. b /\ b \in Nat \ {0} /\ MaxDbName \in Nat \ {0}
  BY ZipKVAssumption
<1>2. a < b => a % b = a
  BY <1>1
<1>3. b % b = 0
  BY <1>1
<1>4. QED
  BY <1>1, <1>2, <1>3

\* What is known of the index in force and of the next name.
LEMMA IndexInForce ==
  ASSUME Numbered, up
  PROVE  /\ history \in Seq(HistoryRecord) /\ Len(history) \in Nat
         /\ NextDb \in 0 .. MaxDbName /\ NextDb # currDb
         /\ currDb # -1 => currDb \in DOMAIN dbs /\ dbs[currDb].whole
         /\ \A i \in DOMAIN dbs : dbs[i].whole =>
              dbs[i].history \in Seq(HistoryRecord) /\ Len(dbs[i].history) \in Nat
<1>1. history \in Seq(HistoryRecord) /\ currDb \in -1 .. MaxDbName /\ DbsOK
  BY DEF Numbered, Typed
<1>2. NextDb \in 0 .. MaxDbName /\ NextDb # currDb
  BY <1>1, NamesRotate DEF NextDb
<1>3. currDb # -1 => currDb \in DOMAIN dbs /\ dbs[currDb].whole
  BY DEF Numbered, NamesOK, NamesAt, NumbersOK, ForceOK
<1>4. ASSUME NEW i \in DOMAIN dbs, dbs[i].whole
      PROVE  dbs[i].history \in Seq(HistoryRecord) /\ Len(dbs[i].history) \in Nat
  <2>1. dbs[i] # Torn
    BY <1>4 DEF Torn
  <2>2. dbs[i] \in IndexRecord
    BY <1>1, <1>4, <2>1 DEF DbsOK
  <2>3. dbs[i].history \in Seq(HistoryRecord)
    BY <2>2 DEF IndexRecord
  <2>4. QED
    BY <2>3, LenProperties
<1>5. Len(history) \in Nat
  BY <1>1, LenProperties
<1>6. QED
  BY <1>1, <1>2, <1>3, <1>4, <1>5

\* A step changes the history or the indexes.
LEMMA IndexEffects ==
  ASSUME [Next]_vars, up, up'
  PROVE  \/ /\ UNCHANGED <<dbs, currDb>>
            /\ history' = history \/ \E x : history' = Append(history, x)
         \/ /\ UNCHANGED history
            /\ WriteDb \/ DeleteDb \/ (dbs' = Assign(dbs, NextDb, Torn) /\ UNCHANGED currDb)
<1>1. CASE UNCHANGED vars
  BY <1>1 DEF vars, memory, backend
<1>2. CASE \/ \E k \in Keys, v \in Values, m \in Metas : Put(k, v, m)
           \/ \E dst, src \in Keys, m \in Metas : Link(dst, src, m)
           \/ \E k \in Keys : Delete(k)
           \/ Finish
  BY <1>2 DEF Put, Add, Link, Delete, Finish, Record, backend
<1>3. CASE \/ \E k \in Keys, v \in Values, m \in Metas : PutToNewBlock(k, v, m)
           \/ Sync \/ Fail \/ WriteBlock
  BY <1>3 DEF PutToNewBlock, Sync, Fail, WriteBlock, backend
<1>4. CASE TearFile
  BY <1>4 DEF TearFile, memory
<1>5. CASE WriteDb \/ DeleteDb
  BY <1>5 DEF WriteDb, DeleteDb
<1>6. ~Crash /\ \A n : ~Open(n)
  BY DEF Crash, Open
<1>7. QED
  BY <1>1, <1>2, <1>3, <1>4, <1>5, <1>6 DEF Next, WholeNext

\* A step leaves the index in force, or puts one with all records in its place.
LEMMA IndexesStay ==
  ASSUME Numbered, IndexesFollow, [Next]_vars, up, up'
  PROVE  /\ IndexesFollow'
         /\ \A n \in Nat : Covers(n) => Covers(n)'
<1>1. /\ history \in Seq(HistoryRecord) /\ Len(history) \in Nat
      /\ NextDb \in 0 .. MaxDbName /\ NextDb # currDb
      /\ currDb # -1 => currDb \in DOMAIN dbs /\ dbs[currDb].whole
      /\ \A i \in DOMAIN dbs : dbs[i].whole =>
           dbs[i].history \in Seq(HistoryRecord) /\ Len(dbs[i].history) \in Nat
  BY IndexInForce
<1>2. Numbered'
  BY NextNumbered
<1>3. /\ history' \in Seq(HistoryRecord) /\ currDb' \in -1 .. MaxDbName
      /\ DOMAIN dbs' \subseteq 0 .. MaxDbName
  BY <1>2 DEF Numbered, Typed, DbsOK
<1>4. NextDb' # currDb'
  BY <1>3, NamesRotate DEF NextDb
<1>5. \A h \in Seq(HistoryRecord) : IsPrefix(h, history) <=>
        Len(h) <= Len(history) /\ \A i \in 1 .. Len(h) : h[i] = history[i]
  BY <1>1, PrefixMeans
<1>6. \A h \in Seq(HistoryRecord) : IsPrefix(h, history') <=>
        Len(h) <= Len(history') /\ \A i \in 1 .. Len(h) : h[i] = history'[i]
  BY <1>3, PrefixMeans
<1>7. IsPrefix(history, history)
  BY <1>1, <1>5
<1>8. currDb # -1 => Len(dbs[currDb].history) <= Len(history)
  BY <1>1, <1>5 DEF IndexesFollow
<1>9. CASE UNCHANGED <<dbs, currDb>> /\ (history' = history \/ \E x : history' = Append(history, x))
  <2>1. NextDb' = NextDb
    BY <1>9 DEF NextDb
  <2>2. Len(history) <= Len(history') /\ \A i \in 1 .. Len(history) : history'[i] = history[i]
    BY <1>1, <1>9, AppendKeeps
  <2>3. ASSUME NEW i \in DOMAIN dbs, dbs[i].whole PROVE IsPrefix(dbs[i].history, history')
    <3> DEFINE h == dbs[i].history
    <3>1. /\ h \in Seq(HistoryRecord) /\ Len(h) \in Nat /\ Len(h) <= Len(history)
          /\ \A j \in 1 .. Len(h) : h[j] = history[j]
      BY <1>1, <1>5, <2>3 DEF IndexesFollow
    <3> HIDE DEF h
    <3>2. Len(history') \in Nat
      BY <1>3, LenProperties
    <3>3. \A j \in 1 .. Len(h) : j \in 1 .. Len(history)
      BY <1>1, <3>1
    <3>4. Len(h) <= Len(history') /\ \A j \in 1 .. Len(h) : h[j] = history'[j]
      BY <1>1, <2>2, <3>1, <3>2, <3>3
    <3>5. QED
      BY <1>6, <3>1, <3>4 DEF h
  <2>4. QED
    BY <1>9, <2>1, <2>3 DEF IndexesFollow, Covers
<1>10. CASE UNCHANGED <<history, currDb>> /\ dbs' = Assign(dbs, NextDb, Torn)
  <2>1. NextDb' = NextDb /\ ~Torn.whole
    BY <1>10 DEF NextDb, Torn
  <2>2. /\ DOMAIN dbs' = DOMAIN dbs \cup {NextDb} /\ dbs'[NextDb] = Torn
        /\ \A i \in DOMAIN dbs : i # NextDb => dbs'[i] = dbs[i]
    BY <1>10 DEF Assign
  <2>3. currDb # -1 => dbs'[currDb] = dbs[currDb]
    BY <1>1, <2>2
  <2>4. IndexesFollow'
    BY <1>10, <2>1, <2>2 DEF IndexesFollow
  <2>5. QED
    BY <1>10, <2>3, <2>4 DEF Covers
<1>11. CASE WriteDb
  <2> DEFINE index == Index(nextBlock, history)
  <2>1. /\ dbs' = Assign(dbs, NextDb, index) /\ history' = history
        /\ index.whole /\ index.history = history
    BY <1>11 DEF WriteDb, Index
  <2> HIDE DEF index
  <2>2. /\ DOMAIN dbs' = DOMAIN dbs \cup {NextDb} /\ dbs'[NextDb] = index
        /\ \A i \in DOMAIN dbs : i # NextDb => dbs'[i] = dbs[i]
    BY <2>1 DEF Assign
  <2>3. \A i \in DOMAIN dbs' : dbs'[i].whole => IsPrefix(dbs'[i].history, history')
    BY <1>7, <2>1, <2>2 DEF IndexesFollow
  <2>4. CASE currDb = -1
    <3>1. currDb' = NextDb
      BY <1>11, <2>4 DEF WriteDb
    <3>2. DOMAIN dbs' \subseteq {currDb'} /\ NextDb' \notin DOMAIN dbs'
      BY <1>3, <1>4, <2>2, <2>4, <3>1 DEF IndexesFollow
    <3>3. \A n \in Nat : Covers(n) => n = 0
      BY <2>4 DEF Covers
    <3>4. QED
      BY <2>3, <3>2, <3>3 DEF IndexesFollow, Covers
  <2>5. CASE currDb # -1
    <3>1. currDb' = currDb /\ NextDb' = NextDb
      BY <1>11, <2>5 DEF WriteDb, NextDb
    <3>2. dbs'[currDb] = dbs[currDb]
      BY <1>1, <2>2, <2>5
    <3>3. DOMAIN dbs' \subseteq {currDb', NextDb'}
      BY <2>2, <3>1 DEF IndexesFollow
    <3>4. Len(dbs'[currDb'].history) <= Len(dbs'[NextDb'].history)
      BY <1>8, <2>1, <2>2, <2>5, <3>1, <3>2
    <3>5. QED
      BY <2>3, <3>1, <3>2, <3>3, <3>4 DEF IndexesFollow, Covers
  <2>6. QED
    BY <2>4, <2>5
<1>12. CASE DeleteDb
  <2> DEFINE index == Index(nextBlock, history)
  <2>1. currDb # -1 /\ NextDb \in DOMAIN dbs /\ dbs[NextDb] = index
    BY <1>12 DEF DeleteDb, Numbered, NamesOK
  <2>2. index.whole /\ index.history = history
    BY DEF Index
  <2> HIDE DEF index
  <2>3. /\ DOMAIN dbs' = DOMAIN dbs \ {currDb} /\ currDb' = NextDb /\ history' = history
        /\ \A i \in DOMAIN dbs' : dbs'[i] = dbs[i]
    BY <1>12 DEF DeleteDb, Restrict
  <2>4. DOMAIN dbs' = {currDb'} /\ dbs'[currDb'] = index
    BY <1>1, <2>1, <2>3 DEF IndexesFollow
  <2>5. IndexesFollow'
    BY <1>4, <1>7, <2>2, <2>3, <2>4 DEF IndexesFollow
  <2>6. ASSUME NEW n \in Nat, Covers(n) PROVE Covers(n)'
    <3>1. n > 0 => Len(dbs[currDb].history) >= n /\ Len(dbs[currDb].history) \in Nat
      BY <1>1, <2>1, <2>6 DEF Covers
    <3>2. n > 0 => Len(dbs'[currDb'].history) >= n
      BY <1>1, <1>8, <2>1, <2>2, <2>4, <3>1
    <3>3. currDb' # -1
      BY <1>1, <2>3
    <3>4. QED
      BY <3>2, <3>3 DEF Covers
  <2>7. QED
    BY <2>5, <2>6
<1>13. QED
  BY <1>9, <1>10, <1>11, <1>12, IndexEffects

\* Once writeNext has succeeded the index in force has the whole history.
LEMMA DoneCovers ==
  ASSUME Numbered, up, stage = "done", NEW n \in Nat, n <= Len(history)
  PROVE  Covers(n)
<1>1. /\ currDb \in DOMAIN dbs /\ dbs[currDb] = Index(nextBlock, history)
      /\ DOMAIN dbs \subseteq 0 .. MaxDbName
  BY DEF Numbered, NamesOK, Typed, DbsOK
<1>2. currDb # -1 /\ dbs[currDb].history = history
  BY <1>1, ZipKVAssumption DEF Index
<1>3. QED
  BY <1>2 DEF Covers

-----------------------------------------------------------------------------
(* The shutdown                                                            *)

\* All puts are in the index in force when f.next has no bytes, and those before
\* the signal once the sync has succeeded, whatever handlers do after that.
ShutdownInv ==
  /\ lastPut \in Nat /\ promised \in Nat
  /\ up => /\ IndexesFollow
           /\ promised <= lastPut /\ lastPut <= Len(history)
           /\ Length(next) = 0 => Covers(lastPut)
           /\ shutdown \in {"close", "closed"} => Covers(promised)
  /\ ~up => ExitSavesPuts

\* While the process runs the index in force is the one that a start finds, or
\* name 0 is before it where the names wrap around.
LEMMA InForceIsFound ==
  ASSUME HandlersInv, ShutdownInv
  PROVE  ExitSavesPuts
<1> USE DEF HandlersInv
<1> SUFFICES ASSUME up, shutdown = "closed", promised > 0
             PROVE  \E i \in DOMAIN dbs :
                      /\ dbs[i].whole /\ Len(dbs[i].history) >= promised
                      /\ IsPrefix(dbs[i].history, history)
                      /\ FindDb = i \/ (i = MaxDbName /\ FindDb = 0 /\ ~dbs[0].whole)
  BY DEF ShutdownInv, ExitSavesPuts
<1>1. IndexesFollow /\ promised \in Nat /\ currDb # -1 /\ Len(dbs[currDb].history) >= promised
  BY DEF ShutdownInv, Covers
<1>2. /\ currDb \in DOMAIN dbs /\ dbs[currDb].whole /\ IsPrefix(dbs[currDb].history, history)
      /\ \A i \in DOMAIN dbs : dbs[i].whole => Len(dbs[i].history) \in Nat
  BY <1>1, IndexInForce DEF IndexesFollow
<1>3. CASE FindDb = currDb
  BY <1>1, <1>2, <1>3
<1>4. CASE FindDb # currDb
  <2>1. DbsOK /\ currDb \in -1 .. MaxDbName /\ DOMAIN dbs \subseteq 0 .. MaxDbName
    BY DEF Numbered, Typed, DbsOK
  <2>2. FindDb \in DOMAIN dbs /\ FindDb <= currDb
    BY <1>2, <2>1, FindDbTyped
  <2>3. FindDb = NextDb
    BY <1>1, <1>4, <2>2 DEF IndexesFollow
  <2>4. currDb = MaxDbName /\ FindDb = 0
    <3>1. /\ currDb = MaxDbName => NextDb = 0
          /\ currDb # MaxDbName => NextDb = currDb + 1
      BY <2>1, NamesRotate DEF NextDb
    <3>2. currDb \in Nat /\ FindDb \in Nat
      BY <1>2, <2>1, <2>2
    <3>3. QED
      BY <2>2, <2>3, <3>1, <3>2
  <2>5. CASE dbs[FindDb].whole
    <3>1. Len(dbs[currDb].history) <= Len(dbs[FindDb].history)
      BY <1>1, <2>2, <2>3, <2>5 DEF IndexesFollow
    <3>2. Len(dbs[FindDb].history) >= promised
      BY <1>1, <1>2, <2>2, <2>5, <3>1
    <3>3. IsPrefix(dbs[FindDb].history, history)
      BY <1>1, <2>2, <2>5 DEF IndexesFollow
    <3>4. QED
      BY <2>2, <2>5, <3>2, <3>3
  <2>6. CASE ~dbs[FindDb].whole
    BY <1>1, <1>2, <2>4, <2>6
  <2>7. QED
    BY <2>5, <2>6
<1>5. QED
  BY <1>3, <1>4

\* What a step does to the shutdown and to the puts that it is about.
LEMMA ShutdownEffects ==
  ASSUME HandlersInv, HttpNext
  PROVE  /\ ~up' => UNCHANGED <<dbs, lastPut, promised, shutdown>>
         /\ up' => /\ \/ lastPut' = lastPut
                      \/ lastPut' = Len(history') /\ Length(next') # 0
                   /\ \/ promised' = promised
                      \/ promised' = lastPut /\ lastPut' = lastPut /\ shutdown' = "sync"
                   /\ shutdown' \in {"close", "closed"} =>
                        /\ promised' = promised
                        /\ shutdown \in {"close", "closed"} \/ stage = "done" \/ Length(next) = 0
<1> USE DEF HandlersInv
<1> DEFINE Kept == UNCHANGED <<lastPut, promised, shutdown>>
           Put1 == /\ UNCHANGED <<promised, shutdown>>
                   /\ lastPut' = lastPut \/ (lastPut' = Len(history') /\ Length(next') # 0)
<1>0. /\ next \in Seq(Values)
      /\ \A q \in Seq(Values), v \in Values : Size[v] > 0 => Length(Append(q, v)) # 0
  <2>1. ASSUME NEW q \in Seq(Values), NEW v \in Values, Size[v] > 0
        PROVE  Length(Append(q, v)) # 0
    <3>1. /\ Length(q) \in Nat /\ Size[v] \in Nat
          /\ Length(Append(q, v)) = Length(q) + Size[v]
      BY LengthIsNat, LengthAppend, ZipKVAssumption
    <3>2. QED
      BY <2>1, <3>1
  <2>2. QED
    BY <2>1 DEF Numbered, Typed
<1>1. ASSUME NEW r \in Requests, NEW request, Receive(r, request) PROVE up' /\ Kept
  BY <1>1 DEF Receive, vars
<1>2. ASSUME NEW r \in Requests,
             \/ Get(r) \/ GetAt(r) \/ FailGetAt(r) \/ Digest(r) \/ Body(r) \/ HandleHas(r)
             \/ Missing(r) \/ HandlePutToNewBlock(r) \/ HandleLink(r) \/ HandleDelete(r)
      PROVE  up' /\ Kept
  BY <1>2 DEF Get, GetAt, FailGetAt, Digest, Body, HandleHas, Missing, Idle, vars,
    HandlePutToNewBlock, PutToNewBlock, HandleLink, Link, HandleDelete, Delete
<1>3. ASSUME NEW r \in Requests, HandlePut(r) PROVE up' /\ Put1
  <2>1. req[r].op = "put" /\ req[r] \in Request
    BY <1>3 DEF HandlePut, At, RequestsOK
  <2>2. req[r].value \in Values
    BY <2>1, RequestKinds DEF PutRequest
  <2>3. next' = Append(next, req[r].value)
    BY <1>3 DEF HandlePut, Put, Add
  <2>4. QED
    BY <1>0, <1>3, <2>2, <2>3 DEF HandlePut, LastPut, Put, Idle
<1>4. CASE FinishPut
  <2>1. caller \in Requests /\ stage = "done"
    BY <1>4 DEF FinishPut, Finish
  <2>2. call.op = "put"
    BY <2>1, KVHttpAssumption DEF CallerOK
  <2>3. call.value \in Values
    BY <2>2 DEF Numbered, Typed, CallOK, NoCall
  <2>4. next' = Append(<< >>, call.value)
    BY <1>4, <2>2 DEF FinishPut, Finish, Add
  <2>5. Size[call.value] > 0 => Length(next') # 0
    BY <1>0, <2>3, <2>4, EmptySeq
  <2>6. up' /\ Put1
    BY <1>4, <2>5 DEF FinishPut, LastPut, Finish
  <2>7. QED
    BY <2>6
<1>5. CASE FailPut \/ StoreStep
  <2>1. up' /\ Kept
    BY <1>5 DEF FailPut, Fail, StoreStep, httpVars, TearFile, WriteBlock, WriteDb, DeleteDb
  <2>2. QED
    BY <2>1
<1>6. CASE Signal
  BY <1>6 DEF Signal, vars
<1>7. CASE HandleSync
  <2>1. up /\ up' /\ stage = "no" /\ UNCHANGED <<lastPut, promised>>
    BY <1>7 DEF HandleSync, Sync, Idle
  <2>2. shutdown' \in {"close", "closed"} => ~(Length(next) > 0)
    BY <1>7 DEF HandleSync, Sync
  <2>3. QED
    BY <1>0, <2>1, <2>2, LengthIsNat
<1>8. CASE FinishSync
  BY <1>8 DEF FinishSync, Finish
<1>9. CASE FailSync
  BY <1>9 DEF FailSync, Fail, AfterFailedSync
<1>10. CASE CloseListener
  BY <1>10 DEF CloseListener, vars
<1>11. CASE Exit
  BY <1>11 DEF Exit, Crash, backend
<1>12. CASE \E r \in Requests :
              \/ \E k \in Keys, v \in Values, m \in Metas : ReceivePut(r, k, v, m)
              \/ \E k, src \in Keys, m \in Metas, replace \in BOOLEAN :
                   ReceiveCopy(r, k, src, m, replace)
              \/ \E k \in Keys : ReceiveDelete(r, k) \/ ReceiveGet(r, k)
  <2>1. up' /\ Kept
    BY <1>1, <1>12 DEF ReceivePut, ReceiveCopy, ReceiveDelete, ReceiveGet
  <2>2. QED
    BY <2>1
<1>13. QED
  BY <1>2, <1>3, <1>4, <1>5, <1>6, <1>7, <1>8, <1>9, <1>10, <1>11, <1>12 DEF HttpNext

LEMMA ShutdownStays ==
  ASSUME HandlersInv, ShutdownInv, HttpNext
  PROVE  ShutdownInv'
<1>1. [Next]_vars /\ up /\ Numbered
  BY StoreSteps DEF HandlersInv
<1>2. CASE ~up'
  <2>1. UNCHANGED <<dbs, lastPut, promised, shutdown>>
    BY <1>2, ShutdownEffects
  <2>2. ExitSavesPuts
    BY InForceIsFound
  <2>3. FindDb' = FindDb
    BY <2>1 DEF FindDb
  <2>4. ExitSavesPuts'
    BY <1>2, <2>1, <2>2, <2>3 DEF ExitSavesPuts
  <2>5. QED
    BY <1>2, <2>1, <2>4 DEF ShutdownInv
<1>3. CASE up'
  <2>1. IndexesFollow' /\ \A n \in Nat : Covers(n) => Covers(n)'
    BY <1>1, <1>3, IndexesStay DEF ShutdownInv
  <2>2. /\ lastPut \in Nat /\ promised \in Nat /\ promised <= lastPut /\ lastPut <= Len(history)
        /\ Length(next) = 0 => Covers(lastPut)
        /\ shutdown \in {"close", "closed"} => Covers(promised)
    BY <1>1 DEF ShutdownInv
  <2>3. history \in Seq(HistoryRecord) /\ history' \in Seq(HistoryRecord) /\ next \in Seq(Values)
    BY <1>1, NextNumbered DEF Numbered, Typed
  <2>4. Len(history) \in Nat /\ Len(history') \in Nat
    BY <2>3, LenProperties
  <2>5. Len(history) <= Len(history')
    BY <1>1, <1>3, <2>3, <2>4, IndexEffects, AppendKeeps
  <2>6. /\ lastPut' = lastPut \/ (lastPut' = Len(history') /\ Length(next') # 0)
        /\ promised' = promised \/ (promised' = lastPut /\ lastPut' = lastPut /\ shutdown' = "sync")
        /\ shutdown' \in {"close", "closed"} =>
             /\ promised' = promised
             /\ shutdown \in {"close", "closed"} \/ stage = "done" \/ Length(next) = 0
    BY <1>3, ShutdownEffects
  <2>7. lastPut' \in Nat /\ promised' \in Nat /\ promised' <= lastPut' /\ lastPut' <= Len(history')
    BY <2>2, <2>4, <2>5, <2>6
  <2>8. \A n \in Nat : n <= Len(history) /\ stage = "done" => Covers(n)
    BY <1>1, DoneCovers
  <2>9. Covers(lastPut) => Covers(promised)
    BY <2>2, IndexInForce, <1>1 DEF Covers
  <2>10. ASSUME Length(next') = 0 PROVE Covers(lastPut)'
    <3>1. lastPut' = lastPut
      BY <2>6, <2>10
    <3>2. Length(next) = 0 \/ stage = "done"
      <4>1. \A v \in Values : Length(Append(next, v)) = 0 => Length(next) = 0
        <5>1. ASSUME NEW v \in Values PROVE Length(Append(next, v)) = 0 => Length(next) = 0
          <6>1. /\ Length(next) \in Nat /\ Size[v] \in Nat
                /\ Length(Append(next, v)) = Length(next) + Size[v]
            BY <2>3, LengthIsNat, LengthAppend, ZipKVAssumption
          <6>2. QED
            BY <6>1
        <5>2. QED
          BY <5>1
      <4>2. QED
        BY <1>1, <1>3, <2>10, <4>1, StoreEffects
    <3>3. Covers(lastPut)
      BY <2>2, <2>8, <3>2
    <3>4. PICK n \in Nat : n = lastPut
      BY <2>2
    <3>5. Covers(n)'
      BY <2>1, <3>3, <3>4 DEF Covers
    <3>6. QED
      BY <3>1, <3>4, <3>5 DEF Covers
  <2>11. ASSUME shutdown' \in {"close", "closed"} PROVE Covers(promised)'
    <3>1. promised' = promised /\ Covers(promised)
      BY <2>2, <2>6, <2>8, <2>9, <2>11
    <3>2. PICK n \in Nat : n = promised
      BY <2>2
    <3>3. Covers(n)'
      BY <2>1, <3>1, <3>2 DEF Covers
    <3>4. QED
      BY <3>1, <3>2, <3>3 DEF Covers
  <2>12. QED
    BY <1>3, <2>1, <2>7, <2>10, <2>11 DEF ShutdownInv
<1>4. QED
  BY <1>2, <1>3

LEMMA InitShutdown == HttpInit => ShutdownInv
<1> SUFFICES ASSUME HttpInit PROVE ShutdownInv
  OBVIOUS
<1>1. Len(history) = 0 /\ DOMAIN dbs = {} /\ up
  BY EmptySeq DEF HttpInit, Init
<1>2. QED
  BY <1>1 DEF HttpInit, Init, ShutdownInv, IndexesFollow, Covers

LEMMA UnchangedShutdown ==
  ASSUME ShutdownInv, UNCHANGED allVars
  PROVE  ShutdownInv'
<1>1. UNCHANGED <<up, history, next, currDb, dbs, lastPut, promised, shutdown>>
  BY DEF allVars, vars, memory, backend, httpVars
<1>2. NextDb' = NextDb /\ FindDb' = FindDb
  BY <1>1 DEF NextDb, FindDb
<1>3. QED
  BY <1>1, <1>2 DEF ShutdownInv, IndexesFollow, Covers, ExitSavesPuts

THEOREM ShutdownInvariant == HttpSpec => [](HandlersInv /\ ShutdownInv)
<1>1. HandlersInv /\ ShutdownInv /\ [HttpNext]_allVars => HandlersInv' /\ ShutdownInv'
  BY HandlersStay, ShutdownStays, UnchangedShutdown
<1>2. QED
  BY <1>1, InitHandlers, InitShutdown, PTL DEF HttpSpec

\* When the listener is closed, and after the exit, the last value of at least
\* one byte that was put before the signal, and all that came before it, is in a
\* whole index; a start finds it, unless a handler has torn the next one in front
\* of it where the names wrap around.
THEOREM PutsAreSaved == HttpSpec => []ExitSavesPuts
BY ShutdownInvariant, InForceIsFound, PTL

=============================================================================
