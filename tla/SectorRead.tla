------------------------------ MODULE SectorRead ------------------------------
(***************************************************************************)
(* Reading a sector from the manager (ReadSector and recoverData of        *)
(* siaform/manager/manager.go) while the set of the sector is being        *)
(* uploaded and hosts disappear.  A sector is read from memory, or else    *)
(* from its host, or else recovered from any ndata of its set: one         *)
(* goroutine per sector loads it and sends an event.                       *)
(*                                                                         *)
(* The model has one set, of sectors 1 .. GroupSize + Nparity, the data    *)
(* first, and sector 0, which is allocated and was never written.          *)
(***************************************************************************)
EXTENDS Integers, FiniteSets, Sequences

CONSTANTS
  GroupSize,    \* len(set.DataIds), not more than Ndata
  Ndata, Nparity,
  Readers,
  MaxGlitches   \* bound: reads that a living host does not answer

ASSUME SectorReadAssumption ==
  /\ Ndata \in Nat \ {0} /\ GroupSize \in 1 .. Ndata /\ Nparity \in Nat
  /\ MaxGlitches \in Nat

Group == 1 .. GroupSize + Nparity

VARIABLES
  memory,       \* sectors with Data
  uploaded,     \* sectors with a Contract
  lost,         \* sectors whose host is gone
  glitches,
  stopped,      \* m.stopChan is closed
  reading       \* per reader, its ReadSector

vars == <<memory, uploaded, lost, glitches, stopped, reading>>

\* A call of ReadSector: seen is what recoverData saw in memory, loading the
\* sectors whose event is still to be sent, taken the number of events received,
\* missed the sectors that a living host did not give to recoverData.
Idle == [stage |-> "idle", sector |-> 0, seen |-> {}, loading |-> {},
         events |-> << >>, known |-> {}, taken |-> 0, missed |-> {}]

Init ==
  /\ memory = 1 .. GroupSize /\ uploaded = {} /\ lost = {}
  /\ glitches = 0 /\ stopped = FALSE
  /\ reading = [r \in Readers |-> Idle]

Stage(r) == reading[r].stage
Becomes(r, stage) == reading' = [reading EXCEPT ![r].stage = stage]

-----------------------------------------------------------------------------
(* The rest of the manager                                                 *)

\* addParity, before any sector of the set is uploaded.
AddParity ==
  /\ uploaded = {} /\ memory # Group
  /\ memory' = Group
  /\ UNCHANGED <<uploaded, lost, glitches, stopped, reading>>

\* The end of uploadSector, under m.mu.
RecordUpload(k) ==
  /\ memory \cup uploaded = Group
  /\ k \in memory
  /\ memory' = memory \ {k}
  /\ uploaded' = uploaded \cup {k}
  /\ UNCHANGED <<lost, glitches, stopped, reading>>

LoseHost(k) ==
  /\ k \in uploaded \ lost
  /\ lost' = lost \cup {k}
  /\ UNCHANGED <<memory, uploaded, glitches, stopped, reading>>

Stop ==
  /\ ~stopped
  /\ stopped' = TRUE
  /\ UNCHANGED <<memory, uploaded, lost, glitches, reading>>

-----------------------------------------------------------------------------
(* ReadSector                                                              *)

\* getSector; data in memory are returned at once.
ReadSector(r, i) ==
  /\ Stage(r) = "idle"
  /\ reading' = [reading EXCEPT ![r].sector = i,
                                ![r].stage = IF i \in memory THEN "read" ELSE "load"]
  /\ UNCHANGED <<memory, uploaded, lost, glitches, stopped>>

\* load from the contract seen there; a sector without one is not found.
LoadOwn(r) ==
  LET i == reading[r].sector
  IN /\ Stage(r) = "load"
     /\ \/ /\ i \in uploaded \ lost
           /\ Becomes(r, "read")
           /\ UNCHANGED glitches
        \/ /\ i \notin uploaded \ lost
           /\ Becomes(r, "recover")
           /\ UNCHANGED glitches
        \/ /\ i \in uploaded /\ glitches < MaxGlitches
           /\ Becomes(r, "recover")
           /\ glitches' = glitches + 1
     /\ UNCHANGED <<memory, uploaded, lost, stopped>>

\* Mutant: the events have room for the data sectors only.
EventCap_Data == 1

\* make(chan event, ndata+nparity)
EventCap == GroupSize + Nparity

Event(k, ok) == [sector |-> k, ok |-> ok]

\* recoverData under m.mu: what it sees in memory need not be loaded.
RecoverData(r) ==
  /\ Stage(r) = "recover"
  /\ IF reading[r].sector \notin Group
     THEN Becomes(r, "error")
     ELSE reading' = [reading EXCEPT ![r].stage = "events", ![r].seen = memory,
                                     ![r].loading = Group]
  /\ UNCHANGED <<memory, uploaded, lost, glitches, stopped>>

\* events <- event{k, data or nil}
SendEvent(r, k, ok) ==
  /\ Len(reading[r].events) < EventCap
  /\ reading' = [reading EXCEPT
                   ![r].loading = @ \ {k},
                   ![r].events = Append(@, Event(k, ok)),
                   ![r].missed = IF ok \/ k \in lost THEN @ ELSE @ \cup {k}]
  /\ UNCHANGED <<memory, uploaded, lost, stopped>>

\* The loop over the group, which sends or starts a goroutine, has come to k.
Reached(r, k) == \A i \in reading[r].loading \cap reading[r].seen : k <= i

\* The reader itself sends what it has seen in memory, before it receives.
SendSeen(r, k) ==
  /\ k \in reading[r].loading \cap reading[r].seen /\ Reached(r, k)
  /\ SendEvent(r, k, TRUE)
  /\ UNCHANGED glitches

\* A goroutine has loaded a sector, or failed to from a host that is gone or from
\* a living one (an error, a time-out, a bad length), and sends the event, also to
\* a reader that has left.
LoadOther(r, k) ==
  /\ k \in reading[r].loading \ reading[r].seen /\ Reached(r, k)
  /\ \E glitch \in BOOLEAN :
       /\ glitch => k \in uploaded \ lost /\ glitches < MaxGlitches
       /\ glitches' = IF glitch THEN glitches + 1 ELSE glitches
       /\ SendEvent(r, k, k \in uploaded \ lost /\ ~glitch)

\* Mutant: the manager's ndata, not the group's.
Needed_Manager == Ndata

\* ndata := len(set.DataIds)
Needed == GroupSize

Enough(r) == Cardinality(reading[r].known) >= Needed

\* The reader has come to the loop over the events.
Receiving(r) ==
  Stage(r) = "events" /\ reading[r].loading \cap reading[r].seen = {}

\* One turn of it.
ReceiveEvent(r) ==
  /\ Receiving(r) /\ ~Enough(r)
  /\ reading[r].events # << >>
  /\ LET e == Head(reading[r].events)
     IN reading' = [reading EXCEPT ![r].events = Tail(@),
                                   ![r].taken = @ + 1,
                                   ![r].known = IF e.ok THEN @ \cup {e.sector} ELSE @]
  /\ UNCHANGED <<memory, uploaded, lost, glitches, stopped>>

\* The loop is over; reedsolomon.New refuses a set without parity.
FinishRecovery(r) ==
  /\ Receiving(r)
  /\ Enough(r) \/ reading[r].taken = GroupSize + Nparity
  /\ Becomes(r, IF Enough(r) /\ Nparity > 0 THEN "read" ELSE "error")
  /\ UNCHANGED <<memory, uploaded, lost, glitches, stopped>>

\* The select finds stopChan closed.
Abandon(r) ==
  /\ Receiving(r) /\ ~Enough(r) /\ reading[r].taken < GroupSize + Nparity
  /\ stopped
  /\ Becomes(r, "error")
  /\ UNCHANGED <<memory, uploaded, lost, glitches, stopped>>

ReaderStep(r) ==
  \/ LoadOwn(r) \/ RecoverData(r) \/ \E k \in Group : SendSeen(r, k)
  \/ ReceiveEvent(r) \/ FinishRecovery(r) \/ Abandon(r)

Next ==
  \/ AddParity \/ Stop
  \/ \E k \in Group : RecordUpload(k) \/ LoseHost(k)
  \/ \E r \in Readers :
       \/ \E i \in 0 .. GroupSize : ReadSector(r, i)
       \/ ReaderStep(r)
       \/ \E k \in Group : LoadOther(r, k)

\* The client answers or times out, and goroutines that can go on do.
Fairness ==
  \A r \in Readers :
    WF_vars(ReaderStep(r)) /\ \A k \in Group : WF_vars(LoadOther(r, k))

Spec == Init /\ [][Next]_vars /\ Fairness

-----------------------------------------------------------------------------
(* Properties                                                              *)

\* A read of a written sector fails only if the manager was stopped, or more
\* sectors of its set than there is parity are gone with their hosts or were not
\* given by a living host when recoverData asked for them, whatever was uploaded
\* meanwhile and however short the group is.
ReadsSurviveLoss ==
  \A r \in Readers :
    Stage(r) = "error" /\ reading[r].sector # 0 /\ ~stopped /\ Nparity > 0
      => Cardinality(lost \cup reading[r].missed) > Nparity

\* Every read ends, and so do the goroutines it has started, also those whose
\* answer nobody waits for.
ReadsEnd ==
  \A r \in Readers :
    (Stage(r) # "idle") ~> (Stage(r) \in {"read", "error"} /\ reading[r].loading = {})

=============================================================================
