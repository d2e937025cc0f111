--------------------------- MODULE SectorReadProofs ---------------------------
(***************************************************************************)
(* Proof that a read of a sector which was written fails only if more of   *)
(* its set is gone, or not given by a living host when it was asked, than  *)
(* there is parity, for any group, parity and number of readers, whatever  *)
(* is uploaded or lost while the sector is loaded.                         *)
(***************************************************************************)
EXTENDS SectorRead, TLAPS, FiniteSetTheorems, SequenceTheorems

Stages == {"idle", "load", "recover", "events", "read", "error"}

Call == [stage : Stages, sector : 0 .. GroupSize, seen : SUBSET Group,
         loading : SUBSET Group, events : Seq([sector : Group, ok : BOOLEAN]),
         known : SUBSET Group, taken : Nat, missed : SUBSET Group]

\* Every data sector is in memory or on a host, and nothing is uploaded before
\* the parity of the set is there.
SetOK ==
  /\ memory \in SUBSET Group /\ uploaded \in SUBSET Group /\ lost \in SUBSET uploaded
  /\ 1 .. GroupSize \subseteq memory \cup uploaded
  /\ uploaded # {} => memory \cup uploaded = Group
  /\ stopped \in BOOLEAN

\* Until it recovers it has started nothing, and wants a sector that was uploaded,
\* or the one that was never written.
LoadsUploaded(q) ==
  q.stage \in {"idle", "load", "recover"} =>
    /\ q.loading = {} /\ q.events = << >> /\ q.taken = 0
    /\ q.sector = 0 \/ q.sector \in uploaded

\* One event comes for each sector of the set: it is taken, or in the channel,
\* or its goroutine still loads.
EventsAddUp(q) == q.taken + Len(q.events) + Cardinality(q.loading) = GroupSize + Nparity

\* At any time, also when the reader has left, the events that are in the channel
\* and those to come are no more than it has room for.
EventsFit(q) == Len(q.events) + Cardinality(q.loading) <= EventCap

\* Of each sector there is its data, an event yet to be sent, or one which brings
\* it, unless its host is lost or has not given it.
Accounted(q, k) ==
  \/ k \in q.known \cup q.loading \cup lost \cup q.missed
  \/ \E n \in DOMAIN q.events : q.events[n] = Event(k, TRUE)

Recovers(q) ==
  q.stage = "events" =>
    /\ q.sector # 0
    /\ EventsAddUp(q)
    /\ \A k \in Group : Accounted(q, k)

FailsForLoss(q) ==
  q.stage = "error" /\ q.sector # 0 /\ ~stopped /\ Nparity > 0
    => Cardinality(lost \cup q.missed) > Nparity

ReaderOK(q) ==
  q \in Call /\ LoadsUploaded(q) /\ Recovers(q) /\ EventsFit(q) /\ FailsForLoss(q)

Inv ==
  /\ SetOK
  /\ reading \in [Readers -> Call]
  /\ \A r \in Readers : ReaderOK(reading[r])

-----------------------------------------------------------------------------
(* Finite sets of sectors                                                  *)

LEMMA GroupIsFinite ==
  /\ GroupSize \in Nat \ {0} /\ Nparity \in Nat
  /\ IsFiniteSet(Group) /\ Cardinality(Group) = GroupSize + Nparity
  /\ \A S \in SUBSET Group : IsFiniteSet(S) /\ Cardinality(S) \in Nat
<1>1. GroupSize \in Nat \ {0} /\ Nparity \in Nat /\ 1 \in Int /\ GroupSize + Nparity \in Int
  BY SectorReadAssumption
<1>2. IsFiniteSet(Group) /\ Cardinality(Group) = GroupSize + Nparity
  BY <1>1, FS_Interval DEF Group
<1>3. QED
  BY <1>1, <1>2, FS_Subset, FS_CardinalityType

\* More that is gone is still more than there is parity.
LEMMA MoreGone ==
  ASSUME NEW S \in SUBSET Group, NEW T \in SUBSET Group, S \subseteq T,
         Cardinality(S) > Nparity
  PROVE  Cardinality(T) > Nparity
<1>1. IsFiniteSet(T) /\ Cardinality(S) \in Nat /\ Cardinality(T) \in Nat /\ Nparity \in Nat
  BY GroupIsFinite
<1>2. Cardinality(S) <= Cardinality(T)
  BY <1>1, FS_Subset
<1>3. QED
  BY <1>1, <1>2

\* A set of sectors that covers the group with fewer than GroupSize of them
\* known has more than Nparity others.
LEMMA TooManyLost ==
  ASSUME NEW known \in SUBSET Group, NEW gone \in SUBSET Group,
         Group \subseteq known \cup gone, Cardinality(known) < GroupSize
  PROVE  Cardinality(gone) > Nparity
<1>1. Group = known \cup gone
  OBVIOUS
<1>2. Cardinality(Group) = Cardinality(known) + Cardinality(gone) - Cardinality(known \cap gone)
  BY <1>1, GroupIsFinite, FS_Union
<1>3. /\ Cardinality(known) \in Nat /\ Cardinality(gone) \in Nat
      /\ Cardinality(known \cap gone) \in Nat
      /\ Cardinality(Group) = GroupSize + Nparity /\ GroupSize \in Nat /\ Nparity \in Nat
  BY GroupIsFinite
<1>4. QED
  BY <1>2, <1>3

LEMMA NothingFits ==
  ASSUME NEW q, q.events = << >>, q.loading = {}
  PROVE  EventsFit(q)
<1>1. Len(<< >>) = 0 /\ Cardinality({}) = 0
  BY FS_EmptySet
<1>2. QED
  BY <1>1, GroupIsFinite DEF EventsFit, EventCap

-----------------------------------------------------------------------------
(* The steps                                                               *)

\* What holds of a reader goes on to hold when more is uploaded or lost.
LEMMA ReaderKept ==
  ASSUME NEW q, ReaderOK(q), SetOK, SetOK',
         uploaded \subseteq uploaded', lost \subseteq lost', stopped => stopped'
  PROVE  ReaderOK(q)'
<1>1. LoadsUploaded(q)'
  BY DEF ReaderOK, LoadsUploaded
<1>2. Recovers(q)'
  BY DEF ReaderOK, Recovers, EventsAddUp, Accounted
<1>3. FailsForLoss(q)'
  <2>1. q.missed \in SUBSET Group
    BY DEF ReaderOK, Call
  <2>2. /\ lost \cup q.missed \in SUBSET Group /\ lost' \cup q.missed \in SUBSET Group
        /\ lost \cup q.missed \subseteq lost' \cup q.missed
    BY <2>1 DEF SetOK
  <2>3. stopped \in BOOLEAN /\ stopped' \in BOOLEAN
    BY DEF SetOK
  <2>4. Cardinality(lost \cup q.missed) > Nparity => Cardinality(lost' \cup q.missed) > Nparity
    BY <2>2, MoreGone
  <2>5. QED
    BY <2>3, <2>4 DEF ReaderOK, FailsForLoss
<1>4. QED
  BY <1>1, <1>2, <1>3 DEF ReaderOK, EventsFit

\* A step of the rest of the manager.
LEMMA SetStep ==
  ASSUME Inv, SetOK', UNCHANGED reading,
         uploaded \subseteq uploaded', lost \subseteq lost', stopped => stopped'
  PROVE  Inv'
<1>1. ASSUME NEW r \in Readers PROVE ReaderOK(reading[r])'
  <2> DEFINE q == reading[r]
  <2>1. ReaderOK(q) /\ reading'[r] = q
    BY DEF Inv
  <2> HIDE DEF q
  <2>2. ASSUME NEW p, p = q PROVE ReaderOK(p)'
    BY <2>1, <2>2, ReaderKept DEF Inv
  <2>3. QED
    BY <2>1, <2>2 DEF ReaderOK, LoadsUploaded, Recovers, EventsAddUp, EventsFit, Accounted, FailsForLoss, q
<1>2. QED
  BY <1>1 DEF Inv

\* A step of one reader.
LEMMA CallStep ==
  ASSUME Inv, NEW r \in Readers, NEW q, ReaderOK(q),
         reading' = [reading EXCEPT ![r] = q],
         UNCHANGED <<memory, uploaded, lost, stopped>>
  PROVE  Inv'
<1>1. SetOK'
  BY DEF Inv, SetOK
<1>2. reading' \in [Readers -> Call] /\ reading'[r] = q
      /\ \A s \in Readers \ {r} : reading'[s] = reading[s]
  BY DEF Inv, ReaderOK
<1>3. ASSUME NEW s \in Readers PROVE ReaderOK(reading[s])'
  <2>1. ReaderOK(reading'[s])
    BY <1>2 DEF Inv
  <2>2. ASSUME NEW p, p = reading'[s] PROVE ReaderOK(p)'
    BY <2>1, <2>2 DEF ReaderOK, LoadsUploaded, Recovers, EventsAddUp, EventsFit, Accounted, FailsForLoss
  <2>3. QED
    BY <2>2 DEF ReaderOK, LoadsUploaded, Recovers, EventsAddUp, EventsFit, Accounted, FailsForLoss
<1>4. QED
  BY <1>1, <1>2, <1>3 DEF Inv

\* The stage of a reader that is not recovering changes.
LEMMA BecomesStep ==
  ASSUME Inv, NEW r \in Readers, NEW stage \in {"read", "recover", "error"},
         Becomes(r, stage), UNCHANGED <<memory, uploaded, lost, stopped>>,
         stage = "recover" => Stage(r) = "load",
         stage = "error" => \/ reading[r].sector = 0 \/ stopped
                            \/ Cardinality(lost \cup reading[r].missed) > Nparity
                            \/ ~(Nparity > 0)
  PROVE  Inv'
<1> DEFINE q == [reading[r] EXCEPT !.stage = stage]
<1>1. reading[r] \in Call /\ ReaderOK(reading[r])
  BY DEF Inv
<1>2. q \in Call
  BY <1>1 DEF Call, Stages
<1>3. /\ q.stage = stage /\ q.sector = reading[r].sector
      /\ q.loading = reading[r].loading /\ q.events = reading[r].events
      /\ q.missed = reading[r].missed /\ q.taken = reading[r].taken
      /\ reading' = [reading EXCEPT ![r] = q]
  BY <1>1 DEF Becomes, Call
<1> HIDE DEF q
<1>4. LoadsUploaded(q)
  BY <1>1, <1>3 DEF LoadsUploaded, ReaderOK, Stage
<1>5. Recovers(q) /\ FailsForLoss(q) /\ EventsFit(q)
  BY <1>1, <1>3 DEF Recovers, FailsForLoss, EventsFit, ReaderOK
<1>6. QED
  BY <1>2, <1>3, <1>4, <1>5, CallStep DEF ReaderOK

LEMMA ReadSectorStep ==
  ASSUME Inv, NEW r \in Readers, NEW i \in 0 .. GroupSize, ReadSector(r, i)
  PROVE  Inv'
<1> DEFINE q == [reading[r] EXCEPT !.sector = i,
                                   !.stage = IF i \in memory THEN "read" ELSE "load"]
<1>1. reading[r] \in Call
  BY DEF Inv
<1>2. q \in Call
  BY <1>1 DEF Call, Stages
<1>3. /\ q.stage = IF i \in memory THEN "read" ELSE "load"
      /\ q.loading = {} /\ q.events = << >> /\ q.taken = 0
      /\ q.sector = i /\ reading' = [reading EXCEPT ![r] = q]
  BY <1>1 DEF ReadSector, Call, Inv, ReaderOK, LoadsUploaded, Stage
<1> HIDE DEF q
<1>4. i = 0 \/ i \in memory \/ i \in uploaded
  <2>1. i = 0 \/ i \in 1 .. GroupSize
    BY GroupIsFinite
  <2>2. QED
    BY <2>1 DEF Inv, SetOK
<1>5. LoadsUploaded(q) /\ Recovers(q) /\ FailsForLoss(q) /\ EventsFit(q)
  BY <1>3, <1>4, NothingFits DEF LoadsUploaded, Recovers, FailsForLoss
<1>6. UNCHANGED <<memory, uploaded, lost, stopped>>
  BY DEF ReadSector
<1>7. QED
  BY <1>2, <1>3, <1>5, <1>6, CallStep DEF ReaderOK

LEMMA RecoverDataStep ==
  ASSUME Inv, NEW r \in Readers, RecoverData(r)
  PROVE  Inv'
<1>1. /\ reading[r] \in Call /\ ReaderOK(reading[r]) /\ Stage(r) = "recover"
      /\ UNCHANGED <<memory, uploaded, lost, stopped>>
  BY DEF Inv, RecoverData
<1>2. CASE reading[r].sector \notin Group
  <2>1. reading[r].sector \in 0 .. GroupSize
    BY <1>1 DEF Call
  <2>2. reading[r].sector = 0
    BY <1>2, <2>1, GroupIsFinite DEF Group
  <2>3. Becomes(r, "error")
    BY <1>2 DEF RecoverData
  <2>4. QED
    BY <1>1, <2>2, <2>3, BecomesStep
<1>3. CASE reading[r].sector \in Group
  <2>1. reading[r].sector # 0 /\ reading[r].sector \in uploaded
    BY <1>1, <1>3, GroupIsFinite DEF Group, ReaderOK, LoadsUploaded, Stage
  <2> DEFINE q == [reading[r] EXCEPT !.stage = "events", !.seen = memory, !.loading = Group]
  <2>2. memory \in SUBSET Group
    BY DEF Inv, SetOK
  <2>3. q \in Call
    BY <1>1, <2>2 DEF Call, Stages
  <2>4. reading' = [reading EXCEPT ![r] = q]
    BY <1>1, <1>3 DEF RecoverData, Call
  <2>5. /\ q.stage = "events" /\ q.sector # 0 /\ q.loading = Group /\ q.events = << >>
        /\ q.taken = reading[r].taken
    BY <1>1, <2>1 DEF Call, ReaderOK, LoadsUploaded, Stage
  <2>6. q.taken = 0
    BY <1>1, <2>5 DEF ReaderOK, LoadsUploaded, Stage
  <2> HIDE DEF q
  <2>7. LoadsUploaded(q) /\ FailsForLoss(q)
    BY <2>5 DEF LoadsUploaded, FailsForLoss
  <2>8. EventsAddUp(q) /\ EventsFit(q)
    BY <2>5, <2>6, GroupIsFinite DEF EventsAddUp, EventsFit, EventCap
  <2>9. Recovers(q)
    BY <2>5, <2>8 DEF Recovers, Accounted
  <2>10. QED
    BY <1>1, <2>3, <2>4, <2>7, <2>8, <2>9, CallStep DEF ReaderOK
<1>4. QED
  BY <1>2, <1>3

\* An event is sent, by the reader itself or by a goroutine.
LEMMA SendEventStep ==
  ASSUME Inv, NEW r \in Readers, NEW k \in reading[r].loading, NEW ok \in BOOLEAN,
         SendEvent(r, k, ok)
  PROVE  Inv'
<1> DEFINE old == reading[r]
           e == Event(k, ok)
           missed == IF ok \/ k \in lost THEN old.missed ELSE old.missed \cup {k}
           q == [reading[r] EXCEPT !.loading = @ \ {k}, !.events = Append(@, e),
                                   !.missed = missed]
<1>0. old \in Call /\ k \in Group
  BY DEF Inv, Call
<1>1. /\ old \in Call /\ ReaderOK(old) /\ k \in old.loading
      /\ UNCHANGED <<memory, uploaded, lost, stopped>>
      /\ reading' = [reading EXCEPT ![r] = q]
  BY <1>0 DEF Inv, SendEvent, Call
<1>2. e \in [sector : Group, ok : BOOLEAN] /\ old.events \in Seq([sector : Group, ok : BOOLEAN])
  BY <1>0, <1>1 DEF Event, Call
<1>3. /\ q.events \in Seq([sector : Group, ok : BOOLEAN])
      /\ Len(q.events) = Len(old.events) + 1 /\ q.events[Len(old.events) + 1] = e
      /\ \A n \in 1 .. Len(old.events) : q.events[n] = old.events[n]
  BY <1>1, <1>2, AppendProperties DEF Call
<1>4. /\ q.stage = old.stage /\ q.sector = old.sector /\ q.loading = old.loading \ {k}
      /\ q.known = old.known /\ q.taken = old.taken /\ q.missed = missed
      /\ missed \in SUBSET Group /\ q \in Call
  BY <1>0, <1>1, <1>3 DEF Call
<1> HIDE DEF q, old
<1>5. LoadsUploaded(q) /\ FailsForLoss(q)
  <2>1. LoadsUploaded(q)
    BY <1>1, <1>4 DEF ReaderOK, LoadsUploaded
  <2>2. /\ lost \cup old.missed \in SUBSET Group /\ lost \cup q.missed \in SUBSET Group
        /\ lost \cup old.missed \subseteq lost \cup q.missed
    BY <1>1, <1>4 DEF Call, Inv, SetOK
  <2>3. Cardinality(lost \cup old.missed) > Nparity => Cardinality(lost \cup q.missed) > Nparity
    BY <2>2, MoreGone
  <2>4. FailsForLoss(q)
    BY <1>1, <1>4, <2>3 DEF ReaderOK, FailsForLoss
  <2>5. QED
    BY <2>1, <2>4
<1>6. EventsFit(q)
  <2>1. old.loading \in SUBSET Group /\ Len(old.events) \in Nat
    BY <1>1, LenProperties DEF Call
  <2>2. IsFiniteSet(old.loading) /\ Cardinality(old.loading) \in Nat
    BY <2>1, GroupIsFinite
  <2>3. Cardinality(old.loading \ {k}) = Cardinality(old.loading) - 1
    BY <1>1, <2>2, FS_RemoveElement
  <2> DEFINE a == Len(old.events)
             b == Cardinality(old.loading)
             n == GroupSize + Nparity
             x == Len(q.events)
             y == Cardinality(q.loading)
  <2>4. /\ a \in Nat /\ b \in Nat /\ n \in Nat /\ x = a + 1 /\ y = b - 1
    BY <1>3, <1>4, <2>1, <2>2, <2>3, GroupIsFinite
  <2>5. a + b <= n
    BY <1>1 DEF EventsFit, EventCap, ReaderOK
  <2> HIDE DEF a, b, n, x, y
  <2>6. x + y <= n
    BY <2>4, <2>5
  <2>7. QED
    BY <2>6 DEF EventsFit, EventCap, n, x, y
<1>7. CASE old.stage = "events"
  <2>1. EventsAddUp(old) /\ old.sector # 0 /\ \A j \in Group : Accounted(old, j)
    BY <1>1, <1>7 DEF ReaderOK, Recovers
  <2>2. EventsAddUp(q)
    <3>1. old.loading \in SUBSET Group /\ old.taken \in Nat /\ Len(old.events) \in Nat
      BY <1>1, LenProperties DEF Call
    <3>2. IsFiniteSet(old.loading) /\ Cardinality(old.loading) \in Nat
      BY <3>1, GroupIsFinite
    <3>3. Cardinality(old.loading \ {k}) = Cardinality(old.loading) - 1
      BY <1>1, <3>2, FS_RemoveElement
    <3> DEFINE a == Len(old.events)
               b == Cardinality(old.loading)
               n == GroupSize + Nparity
               x == Len(q.events)
               y == Cardinality(q.loading)
               t == old.taken
    <3>4. /\ a \in Nat /\ b \in Nat /\ t \in Nat /\ x = a + 1 /\ y = b - 1 /\ q.taken = t
      BY <1>3, <1>4, <3>1, <3>2, <3>3
    <3>5. t + a + b = n
      BY <2>1 DEF EventsAddUp
    <3> HIDE DEF a, b, n, x, y, t
    <3>6. t + x + y = n
      BY <3>4, <3>5
    <3>7. QED
      BY <3>4, <3>6 DEF EventsAddUp, n, x, y
  <2>3. ASSUME NEW j \in Group PROVE Accounted(q, j)
    <3>1. Len(old.events) \in Nat /\ DOMAIN old.events = 1 .. Len(old.events)
          /\ DOMAIN q.events = 1 .. Len(old.events) + 1
      BY <1>2, <1>3, LenProperties
    <3>2. CASE j = k
      <4>1. CASE ~ok
        BY <1>4, <3>2, <4>1 DEF Accounted
      <4>2. CASE ok
        <5>1. e = Event(k, TRUE)
          BY <4>2, Zenon
        <5>2. Len(old.events) + 1 \in DOMAIN q.events
          BY <3>1
        <5>3. QED
          BY <1>3, <3>2, <5>1, <5>2 DEF Accounted
      <4>3. QED
        BY <4>1, <4>2
    <3>3. CASE j # k
      <4>1. CASE j \in old.known \cup old.loading \cup lost \cup old.missed
        BY <1>4, <3>3, <4>1 DEF Accounted
      <4>2. CASE \E n \in DOMAIN old.events : old.events[n] = Event(j, TRUE)
        <5>1. PICK n \in 1 .. Len(old.events) : old.events[n] = Event(j, TRUE)
          BY <3>1, <4>2
        <5>2. n \in DOMAIN q.events
          BY <3>1
        <5>3. q.events[n] = Event(j, TRUE)
          BY <1>3, <5>1
        <5>4. QED
          BY <5>2, <5>3 DEF Accounted
      <4>3. QED
        BY <2>1, <4>1, <4>2 DEF Accounted
    <3>4. QED
      BY <3>2, <3>3
  <2>4. QED
    BY <1>1, <1>4, <1>5, <1>6, <2>1, <2>2, <2>3, CallStep DEF ReaderOK, Recovers
<1>8. CASE old.stage # "events"
  BY <1>1, <1>4, <1>5, <1>6, <1>8, CallStep DEF ReaderOK, Recovers
<1>9. QED
  BY <1>7, <1>8

LEMMA LoadOtherStep ==
  ASSUME Inv, NEW r \in Readers, NEW k \in Group, LoadOther(r, k) \/ SendSeen(r, k)
  PROVE  Inv'
<1>1. CASE SendSeen(r, k)
  BY <1>1, SendEventStep DEF SendSeen
<1>2. ASSUME NEW glitch \in BOOLEAN, k \in reading[r].loading,
             SendEvent(r, k, k \in uploaded \ lost /\ ~glitch)
      PROVE  Inv'
  <2>1. PICK ok \in BOOLEAN : ok = (k \in uploaded \ lost /\ ~glitch)
    BY Zenon
  <2>2. QED
    BY <1>2, <2>1, SendEventStep
<1>3. QED
  BY <1>1, <1>2 DEF LoadOther

LEMMA ReceiveEventStep ==
  ASSUME Inv, NEW r \in Readers, ReceiveEvent(r)
  PROVE  Inv'
<1> DEFINE old == reading[r]
           e == Head(old.events)
           q == [reading[r] EXCEPT !.events = Tail(@), !.taken = @ + 1,
                                   !.known = IF e.ok THEN @ \cup {e.sector} ELSE @]
<1>1. /\ old \in Call /\ ReaderOK(old) /\ old.stage = "events" /\ old.events # << >>
      /\ UNCHANGED <<memory, uploaded, lost, stopped>>
      /\ reading' = [reading EXCEPT ![r] = q]
  BY DEF Inv, ReceiveEvent, Receiving, Call, Stage
<1>2. old.events \in Seq([sector : Group, ok : BOOLEAN]) /\ old.taken \in Nat
  BY <1>1 DEF Call
<1>3. /\ e \in [sector : Group, ok : BOOLEAN] /\ e = old.events[1]
      /\ Tail(old.events) \in Seq([sector : Group, ok : BOOLEAN])
      /\ Len(Tail(old.events)) = Len(old.events) - 1
      /\ \A n \in 1 .. Len(Tail(old.events)) : Tail(old.events)[n] = old.events[n + 1]
  <2> DEFINE T == [sector : Group, ok : BOOLEAN]
             s == old.events
  <2>1. s \in Seq(T) /\ s # << >>
    BY <1>1, <1>2
  <2> HIDE DEF s, T
  <2>2. /\ Head(s) \in T /\ Tail(s) \in Seq(T) /\ Len(Tail(s)) = Len(s) - 1
        /\ \A n \in 1 .. Len(Tail(s)) : Tail(s)[n] = s[n + 1]
    BY <2>1, HeadTailProperties
  <2>3. Head(s) = s[1]
    BY <2>1
  <2>4. QED
    BY <2>2, <2>3 DEF s, T
<1>4. /\ q.stage = old.stage /\ q.sector = old.sector /\ q.loading = old.loading
      /\ q.known = IF e.ok THEN old.known \cup {e.sector} ELSE old.known
      /\ q.taken = old.taken + 1 /\ q.events = Tail(old.events)
      /\ q.missed = old.missed /\ q \in Call
  <2> DEFINE known == IF e.ok THEN old.known \cup {e.sector} ELSE old.known
             events == Tail(old.events)
             taken == old.taken + 1
             p == [old EXCEPT !.events = events, !.taken = taken, !.known = known]
  <2>1. known \in SUBSET Group /\ taken \in Nat /\ events \in Seq([sector : Group, ok : BOOLEAN])
    BY <1>1, <1>2, <1>3 DEF Call
  <2>2. q = p
    OBVIOUS
  <2> HIDE DEF old, q, known, events, taken, e
  <2>3. /\ p.stage = old.stage /\ p.sector = old.sector /\ p.loading = old.loading
        /\ p.known = known /\ p.taken = taken /\ p.events = events
        /\ p.missed = old.missed /\ p \in Call
    BY <1>1, <2>1 DEF Call
  <2>4. QED
    BY <2>2, <2>3 DEF known, events, taken
<1> HIDE DEF q, old
<1>5. LoadsUploaded(q) /\ FailsForLoss(q)
  BY <1>1, <1>4 DEF LoadsUploaded, FailsForLoss
<1>6. EventsAddUp(old) /\ old.sector # 0 /\ \A j \in Group : Accounted(old, j)
  BY <1>1 DEF ReaderOK, Recovers
<1>7. EventsAddUp(q) /\ EventsFit(q)
  <2>1. Cardinality(old.loading) \in Nat /\ Len(old.events) \in Nat
    BY <1>1, <1>2, GroupIsFinite, LenProperties DEF Call
  <2>2. QED
    <3> DEFINE a == Len(old.events)
               b == Cardinality(old.loading)
    <3>1. /\ a \in Nat /\ b \in Nat /\ old.taken \in Nat
          /\ old.taken + a + b = GroupSize + Nparity /\ a + b <= GroupSize + Nparity
          /\ Len(q.events) = a - 1 /\ Cardinality(q.loading) = b /\ q.taken = old.taken + 1
      <4>1. /\ a \in Nat /\ b \in Nat /\ old.taken \in Nat
            /\ Len(q.events) = a - 1 /\ Cardinality(q.loading) = b /\ q.taken = old.taken + 1
        BY <1>2, <1>3, <1>4, <2>1
      <4>2. old.taken + a + b = GroupSize + Nparity
        BY <1>6 DEF EventsAddUp
      <4>3. a + b <= GroupSize + Nparity
        BY <1>1 DEF EventsFit, EventCap, ReaderOK
      <4>4. QED
        BY <4>1, <4>2, <4>3
    <3> HIDE DEF a, b
    <3>2. /\ Len(q.events) + Cardinality(q.loading) <= GroupSize + Nparity
          /\ q.taken + Len(q.events) + Cardinality(q.loading) = GroupSize + Nparity
      <4> DEFINE x == Len(q.events)
                 y == Cardinality(q.loading)
                 n == GroupSize + Nparity
      <4>1. /\ a \in Nat /\ b \in Nat /\ old.taken \in Nat /\ n \in Nat
            /\ old.taken + a + b = n /\ x = a - 1 /\ y = b /\ q.taken = old.taken + 1
        BY <3>1, GroupIsFinite
      <4> HIDE DEF x, y, n
      <4>2. x + y <= n /\ q.taken + x + y = n
        BY <4>1
      <4>3. QED
        BY <4>2 DEF x, y, n
    <3>3. QED
      BY <3>2 DEF EventsAddUp, EventsFit, EventCap
<1>8. ASSUME NEW j \in Group PROVE Accounted(q, j)
  <2>1. Len(old.events) \in Nat /\ DOMAIN old.events = 1 .. Len(old.events)
        /\ DOMAIN q.events = 1 .. Len(old.events) - 1
    BY <1>2, <1>3, <1>4, LenProperties
  <2>2. CASE j \in old.known \cup old.loading \cup lost \cup old.missed
    BY <1>4, <2>2 DEF Accounted
  <2>3. CASE \E n \in DOMAIN old.events : old.events[n] = Event(j, TRUE)
    <3>1. PICK n \in 1 .. Len(old.events) : old.events[n] = Event(j, TRUE)
      BY <2>1, <2>3
    <3>2. CASE n = 1
      BY <1>3, <1>4, <3>1, <3>2 DEF Accounted, Event
    <3>3. CASE n # 1
      <4> DEFINE m == n - 1
      <4>0. m \in 1 .. Len(old.events) - 1 /\ m + 1 = n
        BY <2>1, <3>3
      <4> HIDE DEF m
      <4>1. m \in DOMAIN q.events /\ q.events[m] = Event(j, TRUE)
        BY <1>3, <1>4, <2>1, <3>1, <4>0
      <4>2. QED
        BY <4>1 DEF Accounted
    <3>4. QED
      BY <3>2, <3>3
  <2>4. QED
    BY <1>6, <2>2, <2>3 DEF Accounted
<1>9. QED
  BY <1>1, <1>4, <1>5, <1>6, <1>7, <1>8, CallStep DEF ReaderOK, Recovers

\* The loop ends without enough sectors only when all events have been taken.
LEMMA FinishRecoveryStep ==
  ASSUME Inv, NEW r \in Readers, FinishRecovery(r)
  PROVE  Inv'
<1>1. /\ reading[r] \in Call /\ ReaderOK(reading[r]) /\ reading[r].stage = "events"
      /\ UNCHANGED <<memory, uploaded, lost, stopped>>
  BY DEF Inv, FinishRecovery, Receiving, Stage
<1>2. CASE Enough(r) /\ Nparity > 0
  BY <1>1, <1>2, BecomesStep DEF FinishRecovery
<1>3. CASE ~(Nparity > 0)
  BY <1>1, <1>3, BecomesStep DEF FinishRecovery
<1>4. CASE ~Enough(r) /\ Nparity > 0
  <2> DEFINE q == reading[r]
  <2>1. /\ q.taken = GroupSize + Nparity /\ EventsAddUp(q)
        /\ \A k \in Group : Accounted(q, k)
    BY <1>1, <1>4 DEF FinishRecovery, ReaderOK, Recovers
  <2>2. /\ q.events \in Seq([sector : Group, ok : BOOLEAN])
        /\ q.loading \in SUBSET Group /\ q.known \in SUBSET Group
    BY <1>1 DEF Call
  <2> HIDE DEF q
  <2>3. Len(q.events) \in Nat /\ Cardinality(q.loading) \in Nat /\ IsFiniteSet(q.loading)
    BY <2>2, GroupIsFinite, LenProperties
  <2>4. Len(q.events) = 0 /\ Cardinality(q.loading) = 0
    <3> DEFINE a == Len(q.events)
               b == Cardinality(q.loading)
               n == GroupSize + Nparity
    <3>1. a \in Nat /\ b \in Nat /\ n \in Nat /\ n + a + b = n
      BY <2>1, <2>3, GroupIsFinite DEF EventsAddUp
    <3> HIDE DEF a, b, n
    <3>2. a = 0 /\ b = 0
      BY <3>1
    <3>3. QED
      BY <3>2 DEF a, b
  <2>5. q.loading = {} /\ DOMAIN q.events = {}
    BY <2>2, <2>3, <2>4, FS_EmptySet, LenProperties
  <2>6. /\ Group \subseteq q.known \cup (lost \cup q.missed)
        /\ lost \cup q.missed \in SUBSET Group
    <3>1. q.missed \in SUBSET Group
      BY <1>1 DEF Call, q
    <3>2. QED
      BY <2>1, <2>5, <3>1 DEF Accounted, Inv, SetOK
  <2>7. Cardinality(q.known) < GroupSize
    BY <1>4, <2>2, GroupIsFinite DEF Enough, Needed, q
  <2>8. Cardinality(lost \cup reading[r].missed) > Nparity
    BY <2>2, <2>6, <2>7, TooManyLost DEF q
  <2>9. Becomes(r, "error")
    BY <1>4 DEF FinishRecovery
  <2>10. QED
    BY <1>1, <2>8, <2>9, BecomesStep
<1>5. QED
  BY <1>2, <1>3, <1>4

LEMMA InitInv == Init => Inv
<1> SUFFICES ASSUME Init PROVE Inv
  OBVIOUS
<1>1. SetOK
  <2>1. 1 .. GroupSize \subseteq Group
    BY GroupIsFinite DEF Group
  <2>2. QED
    BY <2>1 DEF Init, SetOK
<1>2. Idle \in Call
  BY GroupIsFinite DEF Idle, Call, Stages
<1>3. ReaderOK(Idle)
  BY <1>2, NothingFits DEF ReaderOK, LoadsUploaded, Recovers, FailsForLoss, Idle
<1>4. QED
  BY <1>1, <1>2, <1>3 DEF Init, Inv

LEMMA NextInv == Inv /\ [Next]_vars => Inv'
<1> SUFFICES ASSUME Inv, [Next]_vars PROVE Inv'
  OBVIOUS
<1> USE DEF Inv, SetOK
<1>1. CASE AddParity
  <2>1. SetOK' /\ UNCHANGED reading
    BY <1>1, GroupIsFinite DEF AddParity, Group
  <2>2. QED
    BY <1>1, <2>1, SetStep DEF AddParity
<1>2. CASE Stop
  <2>1. SetOK' /\ UNCHANGED reading
    BY <1>2 DEF Stop
  <2>2. QED
    BY <1>2, <2>1, SetStep DEF Stop
<1>3. ASSUME NEW k \in Group, RecordUpload(k) PROVE Inv'
  <2>1. SetOK' /\ UNCHANGED reading
    BY <1>3 DEF RecordUpload
  <2>2. QED
    BY <1>3, <2>1, SetStep DEF RecordUpload
<1>4. ASSUME NEW k \in Group, LoseHost(k) PROVE Inv'
  <2>1. SetOK' /\ UNCHANGED reading
    BY <1>4 DEF LoseHost
  <2>2. QED
    BY <1>4, <2>1, SetStep DEF LoseHost
<1>5. ASSUME NEW r \in Readers, LoadOwn(r) PROVE Inv'
  BY <1>5, BecomesStep DEF LoadOwn
<1>6. ASSUME NEW r \in Readers, Abandon(r) PROVE Inv'
  BY <1>6, BecomesStep DEF Abandon
<1>7. CASE UNCHANGED vars
  BY <1>7, SetStep DEF vars
<1>8. QED
  BY <1>1, <1>2, <1>3, <1>4, <1>5, <1>6, <1>7, ReadSectorStep, RecoverDataStep,
     LoadOtherStep, ReceiveEventStep, FinishRecoveryStep DEF Next, ReaderStep

\* While a set is uploaded and hosts are lost, whatever readers are doing.
THEOREM RecoveryInvariant == Spec => []Inv
  BY InitInv, NextInv, PTL DEF Spec

\* ReadSector and recoverData: a written sector is read unless the manager was
\* stopped, or more sectors of its set than there is parity are gone with their
\* hosts or were not given by a living one when recoverData asked for them, for
\* every size of the group, also one that is shorter than Ndata, and any number of
\* such failures.
THEOREM ReadsSurvive == Spec => []ReadsSurviveLoss
<1>1. Inv => ReadsSurviveLoss
  BY DEF Inv, ReaderOK, FailsForLoss, ReadsSurviveLoss, Stage
<1>2. QED
  BY <1>1, RecoveryInvariant, PTL

\* The channel of events has room for every goroutine of recoverData that has
\* not sent its event, also when nobody receives any more: none is left behind.
THEOREM SendersHaveRoom ==
  Spec => [](\A r \in Readers : reading[r].loading # {} => Len(reading[r].events) < EventCap)
<1> DEFINE Room == \A r \in Readers :
                     reading[r].loading # {} => Len(reading[r].events) < EventCap
<1>1. Inv => Room
  <2> SUFFICES ASSUME Inv, NEW r \in Readers, reading[r].loading # {}
               PROVE  Len(reading[r].events) < EventCap
    OBVIOUS
  <2> DEFINE q == reading[r]
  <2>1. /\ q.loading \in SUBSET Group /\ q.loading # {} /\ Len(q.events) \in Nat
        /\ EventsFit(q)
    BY LenProperties DEF Inv, Call, ReaderOK
  <2>2. Cardinality(q.loading) \in Nat /\ Cardinality(q.loading) # 0
    BY <2>1, GroupIsFinite, FS_EmptySet
  <2> HIDE DEF q
  <2>3. Len(q.events) < EventCap
    BY <2>1, <2>2, GroupIsFinite DEF EventsFit, EventCap
  <2>4. QED
    BY <2>3 DEF q
<1>2. QED
  BY <1>1, RecoveryInvariant, PTL

=============================================================================
