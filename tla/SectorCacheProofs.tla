--------------------------- MODULE SectorCacheProofs ---------------------------
(***************************************************************************)
(* Proofs that reads of one root are done one after the other, and that a  *)
(* sleeping reader always waits for another one, for any readers, roots    *)
(* and size of the cache.                                                  *)
(***************************************************************************)
EXTENDS SectorCache, TLAPS

Stages == {"idle", "serialize", "lookup", "fetch", "add", "leave"}

\* The parts of the state that the argument is about.
CallsOK ==
  /\ calls \in [Readers -> [stage : Stages, root : Roots \cup {NoRoot}]]
  /\ asleep \subseteq Readers

Inside(r) == calls[r].stage \in {"lookup", "fetch", "add", "leave"}

\* inFlight has the roots of the readers inside, and only theirs.
InFlightIsInside ==
  /\ \A r \in Readers : Inside(r) => calls[r].root \in inFlight
  /\ \A root \in inFlight : \E r \in Readers : Inside(r) /\ calls[r].root = root

AloneInside ==
  \A r, q \in Readers : Inside(r) /\ Inside(q) /\ calls[r].root = calls[q].root => r = q

\* Who sleeps is in the loop of serialize, and his root in inFlight.
AsleepInLoop == \A r \in asleep : At(r, "serialize") /\ calls[r].root \in inFlight

Inv == CallsOK /\ InFlightIsInside /\ AloneInside /\ AsleepInLoop

-----------------------------------------------------------------------------

LEMMA InitInv == Init => Inv
  BY DEF Init, Inv, CallsOK, Idle, NoRoot, Stages, InFlightIsInside, AloneInside, AsleepInLoop, Inside

LEMMA ReadInv ==
  ASSUME Inv, NEW r \in Readers, NEW root \in Roots, Read(r, root)
  PROVE  Inv'
<1>1. CallsOK'
  BY DEF Inv, CallsOK, Read, Stages
<1>2. /\ calls'[r] = [stage |-> "serialize", root |-> root]
      /\ \A q \in Readers : q # r => calls'[q] = calls[q]
      /\ inFlight' = inFlight /\ asleep' = asleep /\ calls[r].stage = "idle"
  BY DEF Inv, CallsOK, Read, At
<1>3. ~Inside(r)' /\ ~Inside(r) /\ r \notin asleep
  BY <1>2 DEF Inside, Inv, AsleepInLoop, At
<1>4. \A q \in Readers : Inside(q)' <=> Inside(q)
  BY <1>2, <1>3 DEF Inside
<1>5. InFlightIsInside'
  BY <1>2, <1>3, <1>4 DEF Inv, InFlightIsInside
<1>6. AloneInside'
  BY <1>2, <1>3, <1>4 DEF Inv, AloneInside
<1>7. AsleepInLoop'
  BY <1>2, <1>3 DEF Inv, CallsOK, AsleepInLoop, At
<1> QED BY <1>1, <1>5, <1>6, <1>7 DEF Inv

LEMMA EnterInv ==
  ASSUME Inv, NEW r \in Readers, Enter(r)
  PROVE  Inv'
<1>1. CallsOK'
  BY DEF Inv, CallsOK, Enter, Becomes, Stages
<1>2. /\ calls'[r].stage = "lookup" /\ calls'[r].root = calls[r].root
      /\ \A q \in Readers : q # r => calls'[q] = calls[q]
      /\ inFlight' = inFlight \cup {calls[r].root} /\ asleep' = asleep
      /\ calls[r].stage = "serialize" /\ calls[r].root \notin inFlight /\ r \notin asleep
  BY DEF Inv, CallsOK, Enter, Becomes, At, MayEnter
<1>3. Inside(r)' /\ ~Inside(r)
  BY <1>2 DEF Inside
<1>4. \A q \in Readers : q # r => (Inside(q)' <=> Inside(q))
  BY <1>2 DEF Inside
<1>5. InFlightIsInside'
  BY <1>2, <1>3, <1>4 DEF Inv, InFlightIsInside
<1>6. AloneInside'
  BY <1>2, <1>3, <1>4 DEF Inv, AloneInside, InFlightIsInside
<1>7. AsleepInLoop'
  BY <1>2 DEF Inv, CallsOK, AsleepInLoop, At
<1> QED BY <1>1, <1>5, <1>6, <1>7 DEF Inv

LEMMA WaitInv ==
  ASSUME Inv, NEW r \in Readers, Wait(r)
  PROVE  Inv'
  BY DEF Inv, CallsOK, InFlightIsInside, AloneInside, AsleepInLoop, Wait, At, Inside, MayEnter

\* Steps of a reader that stays inside.
LEMMA StaysInsideInv ==
  ASSUME Inv, NEW r \in Readers, NEW stage \in {"lookup", "fetch", "add", "leave"},
         Inside(r), Becomes(r, stage), UNCHANGED <<inFlight, asleep>>
  PROVE  Inv'
<1>1. CallsOK'
  BY DEF Inv, CallsOK, Becomes, Stages
<1>2. /\ calls'[r].stage = stage /\ calls'[r].root = calls[r].root
      /\ \A q \in Readers : q # r => calls'[q] = calls[q]
  BY DEF Inv, CallsOK, Becomes
<1>3. \A q \in Readers : (Inside(q)' <=> Inside(q)) /\ calls'[q].root = calls[q].root
  BY <1>2 DEF Inside
<1>4. r \notin asleep
  BY DEF Inv, AsleepInLoop, At, Inside
<1>5. InFlightIsInside'
  BY <1>3 DEF Inv, InFlightIsInside
<1>6. AloneInside'
  BY <1>3 DEF Inv, AloneInside
<1>7. AsleepInLoop'
  BY <1>2, <1>4 DEF Inv, CallsOK, AsleepInLoop, At
<1> QED BY <1>1, <1>5, <1>6, <1>7 DEF Inv

LEMMA LeaveInv ==
  ASSUME Inv, NEW r \in Readers, Leave(r)
  PROVE  Inv'
<1>1. CallsOK'
  BY DEF Inv, CallsOK, Leave, Idle, NoRoot, Stages, StillAsleep
<1>2. /\ calls'[r].stage = "idle"
      /\ \A q \in Readers : q # r => calls'[q] = calls[q]
      /\ inFlight' = inFlight \ {calls[r].root} /\ asleep' = {}
      /\ calls[r].stage = "leave"
  BY DEF Inv, CallsOK, Leave, At, Idle, StillAsleep
<1>3. ~Inside(r)' /\ Inside(r)
  BY <1>2 DEF Inside
<1>4. \A q \in Readers : q # r => (Inside(q)' <=> Inside(q))
  BY <1>2 DEF Inside
<1>5. \A q \in Readers : q # r /\ Inside(q) => calls[q].root # calls[r].root
  BY <1>3 DEF Inv, AloneInside
<1>6. InFlightIsInside'
  BY <1>2, <1>3, <1>4, <1>5 DEF Inv, InFlightIsInside
<1>7. AloneInside'
  BY <1>2, <1>3, <1>4 DEF Inv, AloneInside
<1>8. AsleepInLoop'
  BY <1>2 DEF AsleepInLoop
<1> QED BY <1>1, <1>6, <1>7, <1>8 DEF Inv

LEMMA UnchangedInv ==
  ASSUME Inv, UNCHANGED <<inFlight, asleep, calls>>
  PROVE  Inv'
  BY DEF Inv, CallsOK, InFlightIsInside, AloneInside, AsleepInLoop, At, Inside

LEMMA NextInv ==
  ASSUME Inv, [Next]_vars
  PROVE  Inv'
<1>1. ASSUME NEW r \in Readers, NEW root \in Roots, Read(r, root) PROVE Inv'
  BY <1>1, ReadInv
<1>2. ASSUME NEW r \in Readers, Enter(r) PROVE Inv'
  BY <1>2, EnterInv
<1>3. ASSUME NEW r \in Readers, Wait(r) PROVE Inv'
  BY <1>3, WaitInv
<1>4. ASSUME NEW r \in Readers, Lookup(r) PROVE Inv'
  <2>1. PICK stage \in {"fetch", "leave"} : Becomes(r, stage)
    BY <1>4 DEF Lookup
  <2>2. Inside(r)
    BY <1>4 DEF Lookup, At, Inside
  <2>3. UNCHANGED <<inFlight, asleep>>
    BY <1>4 DEF Lookup
  <2> QED BY <2>1, <2>2, <2>3, StaysInsideInv
<1>5. ASSUME NEW r \in Readers, Fetch(r) PROVE Inv'
  <2>1. PICK stage \in {"add", "leave"} : Becomes(r, stage)
    BY <1>5 DEF Fetch
  <2>2. Inside(r)
    BY <1>5 DEF Fetch, At, Inside
  <2>3. UNCHANGED <<inFlight, asleep>>
    BY <1>5 DEF Fetch
  <2> QED BY <2>1, <2>2, <2>3, StaysInsideInv
<1>6. ASSUME NEW r \in Readers, Add(r) PROVE Inv'
  <2>1. Inside(r)
    BY <1>6 DEF Add, At, Inside
  <2>2. Becomes(r, "leave") /\ UNCHANGED <<inFlight, asleep>>
    BY <1>6 DEF Add
  <2> QED BY <2>1, <2>2, StaysInsideInv
<1>7. ASSUME NEW r \in Readers, Leave(r) PROVE Inv'
  BY <1>7, LeaveInv
<1>8. ASSUME NEW root \in Roots, Write(root) PROVE Inv'
  <2>1. UNCHANGED <<inFlight, asleep, calls>>
    BY <1>8 DEF Write
  <2> QED BY <2>1, UnchangedInv
<1>9. CASE UNCHANGED vars
  <2>1. UNCHANGED <<inFlight, asleep, calls>>
    BY <1>9 DEF vars
  <2> QED BY <2>1, UnchangedInv
<1> QED BY <1>1, <1>2, <1>3, <1>4, <1>5, <1>6, <1>7, <1>8, <1>9 DEF Next

LEMMA SpecInv == Spec => []Inv
  BY InitInv, NextInv, PTL DEF Spec

\* Of the readers of one root (serialize to the deferred function of Read) at
\* most one looks, fetches or adds at a time, and inFlight tells which.
THEOREM ReadersAreSerial == Spec => []OneReaderPerRoot
<1>1. Inv => OneReaderPerRoot
  BY DEF Inv, OneReaderPerRoot, InFlightIsInside, AloneInside, Inside
<1> QED BY <1>1, SpecInv, PTL

\* A reader sleeps in cond.Wait only while its root is in flight, so that
\* somebody is left who will wake it.
THEOREM NoWakeupIsLost == Spec => []SleepersAwaitSomebody
<1>1. Inv => SleepersAwaitSomebody
  BY DEF Inv, AsleepInLoop, SleepersAwaitSomebody
<1> QED BY <1>1, SpecInv, PTL

=============================================================================
