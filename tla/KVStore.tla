------------------------------- MODULE KVStore -------------------------------
(***************************************************************************)
(* What the users of kv.KV (zipkvserver/kv/kv.go) may rely on: a map from  *)
(* keys to values with metadata, as zipkvserver/mem/mem.go implements it,  *)
(* which remembers its past, so that it can be rolled back to any          *)
(* operation, and of which a saved copy survives the process.              *)
(***************************************************************************)
EXTENDS Naturals, Sequences, SequencesExt

CONSTANTS Keys, Values, Metas, NoEntry

VARIABLES
  log,    \* the store after every operation, the latest last; empty: closed
  saved   \* the log that is found when the store is opened

vars == <<log, saved>>

EmptyStore == [k \in Keys |-> NoEntry]
Latest == Last(log)

Init == log = <<EmptyStore>> /\ saved = <<EmptyStore>>

Update(k, entry) ==
  /\ log # << >>
  /\ log' = Append(log, [Latest EXCEPT ![k] = entry])
  /\ UNCHANGED saved

Put(k, v, m) == Update(k, [value |-> v, meta |-> m])

Link(dst, src, m) ==
  /\ log # << >>
  /\ Latest[src] # NoEntry
  /\ Update(dst, [value |-> Latest[src].value, meta |-> m])

Delete(k) ==
  /\ log # << >>
  /\ Latest[k] # NoEntry
  /\ Update(k, NoEntry)

\* All that happened so far survives from now on.
Save ==
  /\ log # << >>
  /\ saved' = log
  /\ UNCHANGED log

Close ==
  /\ log # << >>
  /\ log' = << >>
  /\ UNCHANGED saved

\* The store as it was n operations after its creation.
Open(n) ==
  /\ log = << >>
  /\ log' = SubSeq(saved, 1, n + 1)
  /\ UNCHANGED saved

\* An operation on an open store leaves one more store in the log.
Operation ==
  /\ log # << >> /\ Len(log') = Len(log) + 1
  /\ \/ \E k \in Keys, v \in Values, m \in Metas : Put(k, v, m)
     \/ \E dst, src \in Keys, m \in Metas : Link(dst, src, m)
     \/ \E k \in Keys : Delete(k)

Next ==
  \/ Operation
  \/ Save \/ Close
  \/ \E n \in 0 .. Len(saved) - 1 : Open(n)

Spec == Init /\ [][Next]_vars

=============================================================================
