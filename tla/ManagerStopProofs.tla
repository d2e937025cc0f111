-------------------------- MODULE ManagerStopProofs --------------------------
(***************************************************************************)
(* Proof that a shutdown leaves nothing behind, for any group size, any    *)
(* capacity of the channels and any dump the process has started from,     *)
(* unless a request writes during the shutdown.                            *)
(***************************************************************************)
EXTENDS ManagerStop, TLAPS, SequenceTheorems

Counted == pending \in Nat /\ uploaded \in Seq(BOOLEAN)

\* UploadAllPending has taken what was pending, and nothing comes after it.
NothingPending == stage \notin {"serving", "pending"} => pending = 0

\* WaitForUploading has seen every set, and no set is formed after it.
AllUploaded ==
  stage \in {"stop", "stopping", "stopped"} => \A j \in DOMAIN uploaded : uploaded[j]

Inv == Counted /\ late \in BOOLEAN /\ (~late => NothingPending /\ AllUploaded)

-----------------------------------------------------------------------------

LEMMA Groups ==
  ASSUME NEW n \in Nat
  PROVE  /\ n % Ndata \in Nat /\ n - (n % Ndata) \in Nat
         /\ (n + Ndata - 1) \div Ndata \in Nat
         /\ 0 % Ndata = 0 /\ (0 + Ndata - 1) \div Ndata = 0
<1>1. Ndata \in Nat \ {0}
  BY StopAssumption
<1>2. n % Ndata \in Nat /\ n % Ndata <= n
  BY <1>1
<1>3. (n + Ndata - 1) \div Ndata \in Nat
  BY <1>1
<1>4. 0 % Ndata = 0 /\ (0 + Ndata - 1) \div Ndata = 0
  BY <1>1
<1>5. QED
  BY <1>2, <1>3, <1>4

\* The sets that n pending sectors make join those there are.
LEMMA SetsJoin ==
  ASSUME Counted, NEW n \in Nat
  PROVE  LET more == uploaded \o [k \in DOMAIN Formed(n) |-> FALSE]
         IN more \in Seq(BOOLEAN) /\ (n = 0 => more = uploaded)
<1> DEFINE m == (n + Ndata - 1) \div Ndata
           new == [k \in 1 .. m |-> FALSE]
<1>1. m \in Nat /\ (n = 0 => m = 0)
  BY Groups
<1>2. DOMAIN Formed(n) = 1 .. m
  BY DEF Formed
<1> HIDE DEF m
<1>3. new \in Seq(BOOLEAN) /\ (n = 0 => new = << >>)
  BY <1>1
<1>4. uploaded \o new \in Seq(BOOLEAN) /\ uploaded \o << >> = uploaded
  BY <1>3, ConcatProperties, ConcatEmptySeq DEF Counted
<1>5. QED
  BY <1>2, <1>3, <1>4

LEMMA InitInv == Init => Inv
<1> SUFFICES ASSUME Init PROVE Inv
  OBVIOUS
<1>1. late \in BOOLEAN
  BY Zenon DEF Init
<1>2. Counted /\ NothingPending /\ AllUploaded
  BY StopAssumption DEF Init, Counted, NothingPending, AllUploaded
<1>3. QED
  BY <1>1, <1>2 DEF Inv

LEMMA NextInv == Inv /\ [Next]_vars => Inv'
<1> SUFFICES ASSUME Inv, [Next]_vars PROVE Inv'
  OBVIOUS
<1> USE DEF Inv, Counted, NothingPending, AllUploaded
<1>1. CASE WriteSector
  <2>1. late' \in BOOLEAN /\ (~late' => ~late /\ stage = "serving")
    BY <1>1, Zenon DEF WriteSector
  <2>2. pending' \in Nat /\ UNCHANGED <<uploaded, stage>>
    BY <1>1 DEF WriteSector, shutdown
  <2>3. QED
    BY <2>1, <2>2
<1>2. CASE TakeSignal
  <2> DEFINE n == pending - (pending % Ndata)
  <2>1. n \in Nat /\ pending % Ndata \in Nat /\ (pending = 0 => n = 0 /\ pending % Ndata = 0)
    <3>1. n \in Nat /\ pending % Ndata \in Nat
      BY Groups
    <3>2. ASSUME pending = 0 PROVE pending % Ndata = 0 /\ n = 0
      <4>1. 0 % Ndata = 0
        BY Groups, 0 \in Nat
      <4>2. QED
        BY <3>2, <4>1
    <3>3. QED
      BY <3>1, <3>2
  <2>2. /\ pending' = pending % Ndata /\ UNCHANGED <<stage, late>>
        /\ uploaded' = uploaded \o [k \in DOMAIN Formed(n) |-> FALSE]
    BY <1>2 DEF TakeSignal, shutdown
  <2> HIDE DEF n
  <2>3. uploaded' \in Seq(BOOLEAN) /\ (n = 0 => uploaded' = uploaded)
    BY <2>1, <2>2, SetsJoin
  <2>4. QED
    BY <2>1, <2>2, <2>3
<1>3. CASE UploadAllPending
  <2>1. /\ pending' = 0 /\ stage' = "send" /\ UNCHANGED late
        /\ uploaded' = uploaded \o [k \in DOMAIN Formed(pending) |-> FALSE]
    BY <1>3 DEF UploadAllPending
  <2>2. uploaded' \in Seq(BOOLEAN)
    BY <2>1, SetsJoin
  <2>3. QED
    BY <2>1, <2>2
<1>4. ASSUME NEW j \in DOMAIN uploaded, Upload(j) PROVE Inv'
  <2>1. UNCHANGED <<pending, stage, late>>
    BY <1>4 DEF Upload, shutdown
  <2>2. uploaded' = uploaded \/ uploaded' = [uploaded EXCEPT ![j] = TRUE]
    BY <1>4 DEF Upload
  <2>3. uploaded' \in Seq(BOOLEAN) /\ DOMAIN uploaded' = DOMAIN uploaded
        /\ \A i \in DOMAIN uploaded : uploaded[i] => uploaded'[i]
    <3>1. DOMAIN uploaded = 1 .. Len(uploaded) /\ Len(uploaded) \in Nat
      BY LenProperties
    <3> DEFINE up == [uploaded EXCEPT ![j] = TRUE]
    <3>2. up \in Seq(BOOLEAN)
      BY <3>1, ExceptSeq, Zenon
    <3>3. DOMAIN up = DOMAIN uploaded /\ \A i \in DOMAIN uploaded : uploaded[i] => up[i]
      BY <3>1
    <3> HIDE DEF up
    <3>4. CASE uploaded' = uploaded
      BY <3>4
    <3>5. CASE uploaded' = up
      BY <3>2, <3>3, <3>5, Zenon
    <3>6. QED
      BY <2>2, <3>4, <3>5, Zenon DEF up
  <2>4. QED
    BY <2>1, <2>3
<1>5. CASE WaitForUploading
  BY <1>5 DEF WaitForUploading
<1>6. CASE SendLastSet
  BY <1>6 DEF SendLastSet
<1>7. CASE Close
  BY <1>7 DEF Close
<1>8. CASE Stop \/ StopReturns
  BY <1>8 DEF Stop, StopReturns
<1>9. CASE UNCHANGED <<pending, uploaded, stage, late>>
  BY <1>9
<1>10. QED
  <2>1. ASSUME Signal \/ SendResumed \/ SendNewSet \/ EndDataLoop PROVE Inv'
    BY <1>9, <2>1 DEF Signal, SendResumed, SendNewSet, EndDataLoop, shutdown
  <2>2. ASSUME TakeSet \/ EndSetLoop \/ Drain PROVE Inv'
    BY <1>9, <2>2 DEF TakeSet, EndSetLoop, Drain, shutdown
  <2>3. ASSUME NEW j, Resend(j) PROVE Inv'
    BY <1>9, <2>3 DEF Resend, shutdown
  <2>4. ASSUME UNCHANGED vars PROVE Inv'
    BY <1>9, <2>4 DEF vars, shutdown
  <2>5. QED
    BY <1>1, <1>2, <1>3, <1>4, <1>5, <1>6, <1>7, <1>8, <2>1, <2>2, <2>3, <2>4
    DEF Next, DataLoop, SetLoop, Shutdown

\* UploadAllPending, WaitForUploading and Stop, in the order of sia3c/main.go.
THEOREM ShutdownInvariant == Spec => []Inv
  BY InitInv, NextInv, PTL DEF Spec

\* When Stop has returned and nothing was written late, nothing is pending and every set is on hosts, also the
\* sectors that a dump left pending and those of a last group that is not full.
THEOREM ShutdownLeavesNothing == Spec => []ShutdownUploadsAll
<1>1. Inv => ShutdownUploadsAll
  BY DEF Inv, NothingPending, AllUploaded, ShutdownUploadsAll
<1>2. QED
  BY <1>1, ShutdownInvariant, PTL

=============================================================================
