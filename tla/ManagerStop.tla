------------------------------ MODULE ManagerStop ------------------------------
(***************************************************************************)
(* Starting, shutting down and stopping the manager (Start, Stop,          *)
(* UploadAllPending and WaitForUploading of siaform/manager/manager.go in  *)
(* the order of sia3c/main.go), with everyone who sends on its two bounded *)
(* channels.  What becomes of a set on the hosts is in Manager; here an    *)
(* upload succeeds, or fails and the set is sent again.                    *)
(***************************************************************************)
EXTENDS Integers, FiniteSets, SequencesExt

CONSTANTS
  Ndata,
  ChanCap,        \* capacity of dataChan and setChan (100 in the code)
  MaxWrites,      \* bound: calls of WriteSector
  MaxFailures,    \* bound: failed uploads
  LoadedPending,  \* numbers of pending sectors a dump may hold
  LoadedSets      \* numbers of unfinished sets a dump may hold

ASSUME StopAssumption ==
  /\ Ndata \in Nat \ {0} /\ ChanCap \in Nat \ {0}
  /\ MaxWrites \in Nat /\ MaxFailures \in Nat
  /\ LoadedPending \subseteq Nat /\ LoadedSets \subseteq Nat

VARIABLES
  pending,      \* len(m.db.Pending)
  uploaded,     \* per set of m.db.Sets, whether all of it is on hosts
  signalers,    \* WriteSector calls at m.dataChan <- struct{}{}
  dataChan,     \* signals in the channel
  setChan,
  dataLoop,     \* the goroutine of Start: select, send or ended
  newSets,      \* what it has yet to send
  setLoop,      \* select or ended
  resumed,      \* what continueUploads has yet to send
  uploading, resending,   \* handleSet goroutines
  stage,        \* of the shutdown: serving, pending, send, wait, stop, stopping, stopped
  lastSets,     \* what UploadAllPending has yet to send
  drain,        \* the last goroutine of Start: wait or finished
  writes, failures,
  late          \* history: a request has outlived the listener and written

channels == <<dataChan, setChan>>
loops == <<dataLoop, newSets, setLoop, resumed, drain>>
handlers == <<uploading, resending>>
shutdown == <<stage, lastSets>>
vars == <<pending, uploaded, signalers, channels, loops, handlers, shutdown,
          writes, failures, late>>

\* What Load and Start leave; nobody signals the pending sectors of a dump.
Init ==
  /\ pending \in LoadedPending
  /\ \E n \in LoadedSets : /\ uploaded = [j \in 1 .. n |-> FALSE]
                           /\ resumed = [j \in 1 .. n |-> j]
  /\ signalers = 0 /\ dataChan = 0 /\ setChan = << >>
  /\ dataLoop = "select" /\ newSets = << >> /\ setLoop = "select" /\ drain = "wait"
  /\ uploading = {} /\ resending = {}
  /\ stage = "serving" /\ lastSets = << >>
  /\ writes = 0 /\ failures = 0 /\ late = FALSE

StopClosed == stage \in {"stopping", "stopped"}
Room == Len(setChan) < ChanCap

-----------------------------------------------------------------------------
(* Senders                                                                 *)

\* Also by a request that outlives the listener, at any stage of the shutdown.
WriteSector ==
  /\ writes < MaxWrites
  /\ pending' = pending + 1
  /\ signalers' = signalers + 1
  /\ writes' = writes + 1
  /\ late' = (late \/ stage # "serving")
  /\ UNCHANGED <<uploaded, channels, loops, handlers, shutdown, failures>>

Signal ==
  /\ signalers > 0 /\ dataChan < ChanCap
  /\ dataChan' = dataChan + 1
  /\ signalers' = signalers - 1
  /\ UNCHANGED <<pending, uploaded, setChan, loops, handlers, shutdown, writes, failures, late>>

\* The sets that formParitySet makes of the first n pending sectors.
Formed(n) == [k \in 1 .. (n + Ndata - 1) \div Ndata |-> Len(uploaded) + k]

\* handlePending takes the full groups...
TakeSignal ==
  /\ dataLoop = "select" /\ dataChan > 0
  /\ dataChan' = dataChan - 1
  /\ newSets' = Formed(pending - (pending % Ndata))
  /\ uploaded' = uploaded \o [k \in DOMAIN newSets' |-> FALSE]
  /\ pending' = pending % Ndata
  /\ dataLoop' = IF newSets' = << >> THEN "select" ELSE "send"
  /\ UNCHANGED <<signalers, setChan, setLoop, resumed, drain, handlers,
                 shutdown, writes, failures, late>>

\* ...and sends them.
SendNewSet ==
  /\ dataLoop = "send" /\ Room
  /\ setChan' = Append(setChan, Head(newSets))
  /\ newSets' = Tail(newSets)
  /\ dataLoop' = IF Len(newSets) = 1 THEN "select" ELSE "send"
  /\ UNCHANGED <<pending, uploaded, signalers, dataChan, setLoop, resumed,
                 drain, handlers, shutdown, writes, failures, late>>

SendResumed ==
  /\ resumed # << >> /\ Room
  /\ setChan' = Append(setChan, Head(resumed))
  /\ resumed' = Tail(resumed)
  /\ UNCHANGED <<pending, uploaded, signalers, dataChan, dataLoop, newSets,
                 setLoop, drain, handlers, shutdown, writes, failures, late>>

\* Mutant: the loop runs handleSet itself.
TakeSet_Inline ==
  /\ setLoop = "select" /\ setChan # << >>
  /\ uploading = {} /\ resending = {}
  /\ uploading' = {Head(setChan)}
  /\ setChan' = Tail(setChan)
  /\ UNCHANGED <<pending, uploaded, signalers, dataChan, loops, resending,
                 shutdown, writes, failures, late>>

TakeSet ==
  /\ setLoop = "select" /\ setChan # << >>
  /\ uploading' = uploading \cup {Head(setChan)}
  /\ setChan' = Tail(setChan)
  /\ UNCHANGED <<pending, uploaded, signalers, dataChan, loops, resending,
                 shutdown, writes, failures, late>>

Upload(j) ==
  /\ j \in uploading
  /\ uploading' = uploading \ {j}
  /\ \/ /\ uploaded' = [uploaded EXCEPT ![j] = TRUE]
        /\ UNCHANGED <<resending, failures>>
     \/ /\ failures < MaxFailures
        /\ failures' = failures + 1
        /\ resending' = resending \cup {j}
        /\ UNCHANGED uploaded
  /\ UNCHANGED <<pending, signalers, channels, loops, shutdown, writes, late>>

Resend(j) ==
  /\ j \in resending /\ Room
  /\ setChan' = Append(setChan, j)
  /\ resending' = resending \ {j}
  /\ UNCHANGED <<pending, uploaded, signalers, dataChan, loops, uploading,
                 shutdown, writes, failures, late>>

-----------------------------------------------------------------------------
(* The end                                                                 *)

\* SIGTERM and UploadSectorInProgress, whose WriteSector is one of the writes.
Close ==
  /\ stage = "serving"
  /\ stage' = "pending"
  /\ UNCHANGED <<pending, uploaded, signalers, channels, loops, handlers,
                 lastSets, writes, failures, late>>

\* Mutant: only full groups are formed.
UploadAllPending_Full ==
  /\ stage = "pending"
  /\ lastSets' = Formed(pending - (pending % Ndata))
  /\ uploaded' = uploaded \o [k \in DOMAIN lastSets' |-> FALSE]
  /\ pending' = pending % Ndata
  /\ stage' = "send"
  /\ UNCHANGED <<signalers, channels, loops, handlers, writes, failures, late>>

UploadAllPending ==
  /\ stage = "pending"
  /\ lastSets' = Formed(pending)
  /\ uploaded' = uploaded \o [k \in DOMAIN lastSets' |-> FALSE]
  /\ pending' = 0
  /\ stage' = "send"
  /\ UNCHANGED <<signalers, channels, loops, handlers, writes, failures, late>>

SendLastSet ==
  /\ stage = "send"
  /\ IF lastSets = << >>
     THEN stage' = "wait" /\ UNCHANGED <<lastSets, setChan>>
     ELSE /\ Room
          /\ setChan' = Append(setChan, Head(lastSets))
          /\ lastSets' = Tail(lastSets)
          /\ UNCHANGED stage
  /\ UNCHANGED <<pending, uploaded, signalers, dataChan, loops, handlers,
                 writes, failures, late>>

\* Mutant: it does not wait.
WaitForUploading_Never ==
  /\ stage = "wait"
  /\ stage' = "stop"
  /\ UNCHANGED <<pending, uploaded, signalers, channels, loops, handlers,
                 lastSets, writes, failures, late>>

\* It looks at the sets; what is pending does not count.
WaitForUploading ==
  /\ stage = "wait"
  /\ \A j \in DOMAIN uploaded : uploaded[j]
  /\ stage' = "stop"
  /\ UNCHANGED <<pending, uploaded, signalers, channels, loops, handlers,
                 lastSets, writes, failures, late>>

Stop ==
  /\ stage = "stop"
  /\ stage' = "stopping"
  /\ UNCHANGED <<pending, uploaded, signalers, channels, loops, handlers,
                 lastSets, writes, failures, late>>

\* The select of a loop chooses stopChan.
EndDataLoop ==
  /\ dataLoop = "select" /\ StopClosed
  /\ dataLoop' = "ended"
  /\ UNCHANGED <<pending, uploaded, signalers, channels, newSets, setLoop,
                 resumed, drain, handlers, shutdown, writes, failures, late>>

EndSetLoop ==
  /\ setLoop = "select" /\ StopClosed
  /\ setLoop' = "ended"
  /\ UNCHANGED <<pending, uploaded, signalers, channels, dataLoop, newSets,
                 resumed, drain, handlers, shutdown, writes, failures, late>>

LoopsEnded == dataLoop = "ended" /\ setLoop = "ended"

\* Ingest all data from channels, until both are empty once.
Drain ==
  /\ LoopsEnded /\ drain = "wait"
  /\ \/ dataChan > 0 /\ dataChan' = dataChan - 1 /\ UNCHANGED <<setChan, drain>>
     \/ setChan # << >> /\ setChan' = Tail(setChan) /\ UNCHANGED <<dataChan, drain>>
     \/ /\ dataChan = 0 /\ setChan = << >>
        /\ drain' = "finished"
        /\ UNCHANGED channels
  /\ UNCHANGED <<pending, uploaded, signalers, dataLoop, newSets, setLoop,
                 resumed, handlers, shutdown, writes, failures, late>>

\* <-m.finChan
StopReturns ==
  /\ stage = "stopping" /\ drain = "finished"
  /\ stage' = "stopped"
  /\ UNCHANGED <<pending, uploaded, signalers, channels, loops, handlers,
                 lastSets, writes, failures, late>>

DataLoop == TakeSignal \/ SendNewSet \/ EndDataLoop
SetLoop == TakeSet \/ EndSetLoop
Shutdown == UploadAllPending \/ SendLastSet \/ WaitForUploading \/ Stop \/ StopReturns

Next ==
  \/ WriteSector \/ Signal \/ SendResumed \/ DataLoop \/ SetLoop
  \/ \E j \in DOMAIN uploaded : Upload(j) \/ Resend(j)
  \/ Close \/ Shutdown \/ Drain

\* Goroutines that can go on do; blocked senders are served in order.
Fairness ==
  /\ WF_vars(DataLoop) /\ WF_vars(SetLoop) /\ WF_vars(Shutdown) /\ WF_vars(Drain)
  /\ WF_vars(\E j \in DOMAIN uploaded : Upload(j))
  /\ SF_vars(\E j \in DOMAIN uploaded : Resend(j))
  /\ SF_vars(Signal) /\ SF_vars(SendResumed) /\ SF_vars(SendNewSet) /\ SF_vars(SendLastSet)

Spec == Init /\ [][Next]_vars /\ Fairness

-----------------------------------------------------------------------------
(* Properties                                                              *)

\* When Stop has returned and no request wrote after the listener was closed, every
\* sector is in a set and every set is on hosts: those of a dump that nobody
\* signalled too, and a last group that is not full.
ShutdownUploadsAll ==
  stage = "stopped" /\ ~late =>
    pending = 0 /\ \A j \in DOMAIN uploaded : uploaded[j]

\* A request that outlived the listener has written, and handlePending sends the
\* sets of it into a full channel whose loop has ended.
Hung == late /\ dataLoop = "send" /\ ~Room /\ setLoop = "ended"

\* A shutdown comes to its end, but for one case: a request that outlives the
\* listener may write so late that its sets find no room and no loop any more, and
\* then Stop, which waits for both loops, never returns (Stop and Start).
ShutdownEnds == (stage = "pending") ~> (stage = "stopped" \/ Hung)

\* Until the manager is stopped, writers (those after the listener too),
\* continueUploads and handlers that wait for room in a channel get it, though
\* handlers send to the loop that starts them.
SendersUnblocked ==
  /\ (signalers > 0) ~> (signalers = 0 \/ StopClosed)
  /\ (resumed # << >>) ~> (resumed = << >> \/ StopClosed)
  /\ (resending # {}) ~> (resending = {} \/ StopClosed)

===============================================================================
