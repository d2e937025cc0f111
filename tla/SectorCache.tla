----------------------------- MODULE SectorCache -----------------------------
(***************************************************************************)
(* The sector cache of siaform/cache/cache.go over the CloserCache of      *)
(* inmem/closer.go.  Reads of one sector are done one after the other, so  *)
(* that all but the first find it in the cache: a reader that finds its    *)
(* root in inFlight sleeps on the condition variable.                      *)
(*                                                                         *)
(* A root identifies its data, so the cache is the list of its roots, the  *)
(* front first.                                                            *)
(***************************************************************************)
EXTENDS Integers, Sequences, FiniteSets, SequencesExt

CONSTANTS
  Readers,    \* goroutines that call Read
  Roots,
  MaxItems,   \* of the cache
  MaxReads,   \* bound: calls of Read of one goroutine
  MaxWrites   \* bound: calls of Write

ASSUME SectorCacheAssumption ==
  MaxItems \in Nat \ {0} /\ MaxReads \in Nat /\ MaxWrites \in Nat

VARIABLES
  lru,        \* s.cache
  inFlight,   \* s.inFlight
  asleep,     \* readers in s.cond.Wait
  calls,      \* per reader, its Read
  reads, writes

vars == <<lru, inFlight, asleep, calls, reads, writes>>

NoRoot == "none"
Idle == [stage |-> "idle", root |-> NoRoot]

Init ==
  /\ lru = << >> /\ inFlight = {} /\ asleep = {}
  /\ calls = [r \in Readers |-> Idle]
  /\ reads = [r \in Readers |-> 0] /\ writes = 0

At(r, stage) == calls[r].stage = stage
Becomes(r, stage) == calls' = [calls EXCEPT ![r].stage = stage]

\* CloserCache.Add: to the front, and the oldest out when there are too many.
Added(root) ==
  LET others == SelectSeq(lru, LAMBDA x : x # root)
      all == <<root>> \o others
  IN IF Len(all) > MaxItems THEN Front(all) ELSE all

-----------------------------------------------------------------------------
(* Read                                                                    *)

Read(r, root) ==
  /\ At(r, "idle") /\ reads[r] < MaxReads
  /\ calls' = [calls EXCEPT ![r] = [stage |-> "serialize", root |-> root]]
  /\ reads' = [reads EXCEPT ![r] = @ + 1]
  /\ UNCHANGED <<lru, inFlight, asleep, writes>>

\* Mutant: a reader of what is in the cache need not wait.
MayEnter_Cached(r) == calls[r].root \notin inFlight \/ Contains(lru, calls[r].root)

\* The condition of the loop of serialize.
MayEnter(r) == calls[r].root \notin inFlight

\* A turn of that loop, under s.mu.
Enter(r) ==
  /\ At(r, "serialize") /\ r \notin asleep /\ MayEnter(r)
  /\ inFlight' = inFlight \cup {calls[r].root}
  /\ Becomes(r, "lookup")
  /\ UNCHANGED <<lru, asleep, reads, writes>>

Wait(r) ==
  /\ At(r, "serialize") /\ r \notin asleep /\ ~MayEnter(r)
  /\ asleep' = asleep \cup {r}
  /\ UNCHANGED <<lru, inFlight, calls, reads, writes>>

Lookup(r) ==
  /\ At(r, "lookup")
  /\ Becomes(r, IF Contains(lru, calls[r].root) THEN "leave" ELSE "fetch")
  /\ UNCHANGED <<lru, inFlight, asleep, reads, writes>>

\* The backend gives the data or an error.
Fetch(r) ==
  /\ At(r, "fetch")
  /\ \E next \in {"add", "leave"} : Becomes(r, next)
  /\ UNCHANGED <<lru, inFlight, asleep, reads, writes>>

Add(r) ==
  /\ At(r, "add")
  /\ lru' = Added(calls[r].root)
  /\ Becomes(r, "leave")
  /\ UNCHANGED <<inFlight, asleep, reads, writes>>

\* Mutant: cond.Signal, which wakes one sleeper.
StillAsleep_Signal == IF asleep = {} THEN {} ELSE asleep \ {CHOOSE r \in asleep : TRUE}

\* Mutant: nobody is woken.
StillAsleep_Forgotten == asleep

\* cond.Broadcast
StillAsleep == {}

\* The deferred function of Read, under s.mu.
Leave(r) ==
  /\ At(r, "leave")
  /\ inFlight' = inFlight \ {calls[r].root}
  /\ asleep' = StillAsleep
  /\ calls' = [calls EXCEPT ![r] = Idle]
  /\ UNCHANGED <<lru, reads, writes>>

\* Write adds what the backend has stored, whoever reads it now.
Write(root) ==
  /\ writes < MaxWrites
  /\ lru' = Added(root)
  /\ writes' = writes + 1
  /\ UNCHANGED <<inFlight, asleep, calls, reads>>

ReaderStep(r) == Enter(r) \/ Wait(r) \/ Lookup(r) \/ Fetch(r) \/ Add(r) \/ Leave(r)

Next ==
  \/ \E r \in Readers, root \in Roots : Read(r, root)
  \/ \E r \in Readers : Enter(r)
  \/ \E r \in Readers : Wait(r)
  \/ \E r \in Readers : Lookup(r)
  \/ \E r \in Readers : Fetch(r)
  \/ \E r \in Readers : Add(r)
  \/ \E r \in Readers : Leave(r)
  \/ \E root \in Roots : Write(root)

\* Goroutines that can go on do, and the backend answers.
Fairness == \A r \in Readers : WF_vars(ReaderStep(r))

Spec == Init /\ [][Next]_vars /\ Fairness

-----------------------------------------------------------------------------
(* Properties                                                              *)

\* "To serialize requests to the same sector": while a reader looks for a
\* root, fetches or adds it, no other does, and inFlight tells which.
OneReaderPerRoot ==
  LET inside(r) == calls[r].stage \in {"lookup", "fetch", "add", "leave"}
  IN /\ inFlight = {calls[r].root : r \in {q \in Readers : inside(q)}}
     /\ \A r, q \in Readers :
          inside(r) /\ inside(q) /\ calls[r].root = calls[q].root => r = q

\* No wakeup is lost: whoever sleeps has somebody to wait for.
SleepersAwaitSomebody ==
  \A r \in asleep : calls[r].root \in inFlight

\* Every Read ends, whatever the other readers read and whatever fails.
ReadsEnd == \A r \in Readers : ~At(r, "idle") ~> At(r, "idle")

=============================================================================
