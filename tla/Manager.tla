------------------------------- MODULE Manager -------------------------------
(***************************************************************************)
(* The sector manager of siaform (siaform/manager/manager.go).             *)
(*                                                                         *)
(* Clients allocate sectors and fill them with data.  Filled sectors wait  *)
(* in "pending" until Ndata of them make a parity set, Nparity parity      *)
(* sectors are computed for it, and the set is uploaded: every sector to a *)
(* contract of its own.  The goroutines of the manager are                 *)
(*   - the data loop, which turns signals of dataChan into parity sets,    *)
(*   - the set loop, which starts a handleSet goroutine per received set,  *)
(*   - handleSet goroutines, which upload a set and resend it on an error, *)
(*   - uploadSector goroutines, one per sector being uploaded,             *)
(*   - continueUploads, started once per process, and                      *)
(*   - callers of AllocateSector, WriteSector, ReadSector,                 *)
(*     UploadAllPending and DumpDb.                                        *)
(* The process may die at any moment, and a panic in any of them kills it; *)
(* it restarts from the last dump if that is whole (DumpDb).               *)
(***************************************************************************)
EXTENDS Integers, Sequences, FiniteSets, Functions

CONSTANTS
  Ndata,        \* data sectors of a full parity set
  Nparity,      \* parity sectors of every parity set
  Contracts,    \* the Sia contracts (hosts) the daemon may offer
  Values,       \* what a client may put into a data sector
  NoData,       \* sector.Data is empty
  NoContract,   \* sector.Contract is empty
  NoRoot,       \* sector.MerkleRoot is empty
  ChanCap,      \* capacity of dataChan and setChan (100 in the code)
  MaxNext,      \* bound: clients allocate while m.next is at most this
  MaxFailures,  \* bound: failed calls of SiaClient.Write
  MaxReads,     \* bound: contracts that reads put into the history
  MaxRestarts   \* bound: starts of the process after the first one

\* What a sector can hold: client data, or parity over client data.
Contents == Values \cup [shard : 1 .. Nparity, over : Seq(Values)]

ASSUME ManagerAssumption ==
  /\ Ndata \in Nat \ {0}
  /\ Nparity \in Nat
  /\ ChanCap \in Nat \ {0}
  /\ MaxNext \in Nat
  /\ MaxFailures \in Nat
  /\ MaxReads \in Nat
  /\ MaxRestarts \in Nat
  /\ IsFiniteSet(Contracts)
  /\ NoData \notin Contents
  /\ NoContract \notin Contracts

VARIABLES
  \* m.db and m.next, lost with the process
  next,          \* the next sector id to give out
  sectors,       \* db.Sectors: id -> [data, contract, root]
  sets,          \* db.Sets: sequence of [data, parity], sequences of ids
  pending,       \* db.Pending: filled sectors that are in no set yet
  readFrom,      \* contracts whose history has ReadsNumber > 0
  failure,       \* LastFailure of a contract's history: never, recent, old
  \* goroutines and channels
  mu,            \* who holds m.mu across several steps
  signals,       \* WriteSector calls that have yet to send to dataChan
  dataChan,      \* number of signals in dataChan
  newSets,       \* sets the data loop has formed and has yet to send
  allSets,       \* sets UploadAllPending has formed and has yet to send
  oldSets,       \* argument of a continueUploads that has yet to collect
  resumed,       \* sets continueUploads has collected and has yet to send
  setChan,       \* m.setChan
  retrying,      \* per set: handleSet goroutines that have yet to resend it
  uploadingSets, \* m.uploadingSets: set -> stage of its uploadSet
  uploads,       \* m.uploadingSectors: id -> its uploadSector call
  \* the process, its disk and the outside
  status,        \* "up", or why the process is down
  disk,          \* the last dump that was written whole
  torn,          \* a dump written after it is not whole
  hosts,         \* per contract, the roots of the sectors the host stores
  failures,      \* failed SiaClient.Write calls so far
  restarts       \* restarts so far

db       == <<next, sectors, sets, pending>>
history  == <<readFrom, failure>>
filling  == <<mu, signals, dataChan, newSets, allSets>>
resuming == <<oldSets, resumed>>
tokens   == <<setChan, retrying>>
handlers == <<uploadingSets, uploads>>
outside  == <<disk, torn, hosts, failures, restarts>>
vars == <<db, history, filling, resuming, tokens, handlers, status, outside>>

-----------------------------------------------------------------------------
(* Data                                                                    *)

EmptySector == [data |-> NoData, contract |-> NoContract, root |-> NoRoot]

\* Parity shard k over the data shards of a set (reedsolomon Encode).
Encode(k, datas) == [shard |-> k, over |-> datas]

\* What the host returns for a stored sector: the sectorID keys the cipher,
\* so the Merkle root identifies both the id and the content.
Root(i, content) == [id |-> i, content |-> content]

SetIds == DOMAIN sets
Ids(set) == Range(set.data) \cup Range(set.parity)
InSet(j) == Ids(sets[j])
Missing(j) == {i \in InSet(j) : sectors[i].contract = NoContract}

\* Mutant: the contracts of the parity sectors are forgotten.
Used_DataOnly(j) == {sectors[i].contract : i \in Range(sets[j].data) \ Missing(j)}

Used(j) == {sectors[i].contract : i \in InSet(j) \ Missing(j)}
Uploaded(j) == Missing(j) = {}

EmptyDb ==
  [sectors |-> << >>, sets |-> << >>, pending |-> << >>,
   readFrom |-> {}, failure |-> [c \in Contracts |-> "never"]]

-----------------------------------------------------------------------------
(* The process: New, Load, Start, and its death                            *)

Init ==
  /\ next = 1 /\ sectors = << >> /\ sets = << >> /\ pending = << >>
  /\ readFrom = {} /\ failure = [c \in Contracts |-> "never"]
  /\ mu = "free" /\ signals = 0 /\ dataChan = 0
  /\ newSets = << >> /\ allSets = << >>
  /\ oldSets = 0 /\ resumed = {}
  /\ setChan = << >> /\ retrying = << >>
  /\ uploadingSets = << >> /\ uploads = << >>
  /\ status = "up"
  /\ disk = EmptyDb /\ torn = FALSE
  /\ hosts = [c \in Contracts |-> {}]
  /\ failures = 0
  /\ restarts = 0

\* The process ends, its memory is as that of a new one; only the dump and
\* the hosts survive.
Die(reason) ==
  /\ next' = 1 /\ sectors' = << >> /\ sets' = << >> /\ pending' = << >>
  /\ readFrom' = {} /\ failure' = [c \in Contracts |-> "never"]
  /\ mu' = "free" /\ signals' = 0 /\ dataChan' = 0
  /\ newSets' = << >> /\ allSets' = << >>
  /\ oldSets' = 0 /\ resumed' = {}
  /\ setChan' = << >> /\ retrying' = << >>
  /\ uploadingSets' = << >> /\ uploads' = << >>
  /\ status' = reason
  /\ UNCHANGED outside

Crash ==
  /\ status = "up"
  /\ restarts < MaxRestarts
  /\ Die("crashed")

\* Load the dump, then Start.  continueUploads gets len(m.db.Sets) now and
\* takes m.mu later.  What becomes of a process that loads a torn dump is left
\* open: the model ends there.
Restart ==
  /\ status # "up"
  /\ ~torn
  /\ restarts < MaxRestarts
  /\ restarts' = restarts + 1
  /\ status' = "up"
  /\ sectors' = disk.sectors
  /\ next' = Cardinality(DOMAIN disk.sectors) + 1
  /\ sets' = disk.sets
  /\ pending' = disk.pending
  /\ readFrom' = disk.readFrom
  /\ failure' = disk.failure
  /\ oldSets' = Len(disk.sets)
  /\ retrying' = [j \in DOMAIN disk.sets |-> 0]
  /\ UNCHANGED <<filling, resumed, setChan, handlers, disk, torn, hosts,
                 failures>>

\* proto.Marshal reads the database without m.mu: the dump is whole if nothing
\* changes meanwhile; otherwise it mixes what was there at different moments.
\* (A dump that no restart can load, because of their bound, is left out.)
DumpDb ==
  /\ status = "up"
  /\ restarts < MaxRestarts
  /\ \/ /\ disk' = [sectors |-> sectors, sets |-> sets, pending |-> pending,
                    readFrom |-> readFrom, failure |-> failure]
        /\ torn' = FALSE
     \/ /\ torn' = TRUE
        /\ UNCHANGED disk
  /\ UNCHANGED <<db, history, filling, resuming, tokens, handlers, status,
                 hosts, failures, restarts>>

-----------------------------------------------------------------------------
(* Clients                                                                 *)

AllocateSector ==
  /\ mu = "free"
  /\ next <= MaxNext
  /\ sectors' = [i \in DOMAIN sectors \cup {next} |->
                   IF i = next THEN EmptySector ELSE sectors[i]]
  /\ next' = next + 1
  /\ UNCHANGED <<sets, pending, history, filling, resuming, tokens, handlers,
                 status, outside>>

\* Mutant: a sector whose data went to a host counts as empty again.
IsEmpty_DataOnly(sector) == sector.data = NoData

IsEmpty(sector) == sector.data = NoData /\ sector.contract = NoContract

\* WriteSector up to the unlock; the signal follows.
WriteSector(i, v) ==
  /\ mu = "free"
  /\ IsEmpty(sectors[i])
  /\ sectors' = [sectors EXCEPT ![i].data = v]
  /\ pending' = Append(pending, i)
  /\ signals' = signals + 1
  /\ UNCHANGED <<next, sets, history, mu, dataChan, newSets, allSets, resuming,
                 tokens, handlers, status, outside>>

SignalData ==
  /\ signals > 0
  /\ dataChan < ChanCap
  /\ signals' = signals - 1
  /\ dataChan' = dataChan + 1
  /\ UNCHANGED <<db, history, mu, newSets, allSets, resuming, tokens, handlers,
                 status, outside>>

\* ReadSector of a sector that is on a host: the read, failed or not, counts
\* in the history of the contract.
ReadSector(i) ==
  /\ mu = "free"
  /\ sectors[i].contract # NoContract
  /\ readFrom' = readFrom \cup {sectors[i].contract}
  /\ Cardinality(readFrom') <= MaxReads
  /\ UNCHANGED <<db, failure, filling, resuming, tokens, handlers, status,
                 outside>>

-----------------------------------------------------------------------------
(* Parity sets                                                             *)

\* Mutant: a group that is exactly full does not count.
FullGroup_Strict(q) == Len(q) > Ndata

FullGroup(q) == Len(q) >= Ndata

\* Mutant: the last sector of the group stays pending.
AfterGroup_Overlap(n) == SubSeq(pending, n, Len(pending))

\* What stays pending once n sectors are taken.
AfterGroup(n) == SubSeq(pending, n + 1, Len(pending))

\* Mutant: shards counted from zero.
ParitySector_FromZero(i, datas) ==
  [data |-> Encode(i - next, datas), contract |-> NoContract, root |-> NoRoot]

\* The new sector i of addParity, where next is the first one.
ParitySector(i, datas) ==
  [data |-> Encode(i - next + 1, datas), contract |-> NoContract,
   root |-> NoRoot]

\* One turn of the loop of handlePending or UploadAllPending, under m.mu:
\* the oldest pending sectors and their new parity sectors become a set.
FormParitySet ==
  LET n == IF Ndata > Len(pending) THEN Len(pending) ELSE Ndata
      ids == SubSeq(pending, 1, n)
      datas == [k \in 1 .. n |-> sectors[ids[k]].data]
      parity == [k \in 1 .. Nparity |-> next + k - 1]
  IN /\ pending' = AfterGroup(n)
     /\ sets' = Append(sets, [data |-> ids, parity |-> parity])
     /\ sectors' = [i \in DOMAIN sectors \cup Range(parity) |->
                      IF i < next THEN sectors[i] ELSE ParitySector(i, datas)]
     /\ next' = next + Nparity
     /\ retrying' = Append(retrying, 0)

\* Mutant: sends do not wait for room in the channel.
SendSet_Unbounded(j) == setChan' = Append(setChan, j)

\* m.setChan <- j
SendSet(j) ==
  /\ Len(setChan) < ChanCap
  /\ setChan' = Append(setChan, j)

\* The data loop receives a signal and takes m.mu in handlePending; with
\* less than a full set pending it lets go at once.
HandlePending ==
  /\ dataChan > 0
  /\ mu = "free"
  /\ newSets = << >>
  /\ dataChan' = dataChan - 1
  /\ mu' = IF FullGroup(pending) THEN "handlePending" ELSE "free"
  /\ UNCHANGED <<db, history, signals, newSets, allSets, resuming, tokens,
                 handlers, status, outside>>

FormFullSet ==
  /\ mu = "handlePending"
  /\ FormParitySet
  /\ newSets' = Append(newSets, Len(sets'))
  /\ mu' = IF FullGroup(pending') THEN mu ELSE "free"
  /\ UNCHANGED <<history, signals, dataChan, allSets, resuming, setChan,
                 handlers, status, outside>>

SendNewSet ==
  /\ mu # "handlePending"
  /\ newSets # << >>
  /\ SendSet(Head(newSets))
  /\ newSets' = Tail(newSets)
  /\ UNCHANGED <<db, history, mu, signals, dataChan, allSets, resuming,
                 retrying, handlers, status, outside>>

\* UploadAllPending forms sets until nothing is pending, the last one short.
UploadAllPending ==
  /\ mu = "free"
  /\ allSets = << >>
  /\ pending # << >>
  /\ mu' = "UploadAllPending"
  /\ UNCHANGED <<db, history, signals, dataChan, newSets, allSets, resuming,
                 tokens, handlers, status, outside>>

FormAnySet ==
  /\ mu = "UploadAllPending"
  /\ FormParitySet
  /\ allSets' = Append(allSets, Len(sets'))
  /\ mu' = IF pending' # << >> THEN mu ELSE "free"
  /\ UNCHANGED <<history, signals, dataChan, newSets, resuming, setChan,
                 handlers, status, outside>>

SendAnySet ==
  /\ mu # "UploadAllPending"
  /\ allSets # << >>
  /\ SendSet(Head(allSets))
  /\ allSets' = Tail(allSets)
  /\ UNCHANGED <<db, history, mu, signals, dataChan, newSets, resuming,
                 retrying, handlers, status, outside>>

\* The unfinished sets among the first oldSets.
Unfinished == {j \in SetIds : j <= oldSets /\ ~Uploaded(j)}

\* continueUploads collects the unfinished sets among those Load brought.
ContinueUploads ==
  /\ oldSets > 0
  /\ mu = "free"
  /\ resumed' = Unfinished
  /\ oldSets' = 0
  /\ UNCHANGED <<db, history, filling, tokens, handlers, status, outside>>

SendResumed(j) ==
  /\ j \in resumed
  /\ SendSet(j)
  /\ resumed' = resumed \ {j}
  /\ UNCHANGED <<db, history, filling, oldSets, retrying, handlers, status,
                 outside>>

-----------------------------------------------------------------------------
(* Uploading a set                                                         *)

\* The set loop receives a set; its handleSet goroutine enters uploadSet.
HandleSet ==
  /\ setChan # << >>
  /\ LET j == Head(setChan)
     IN IF j \in DOMAIN uploadingSets
        THEN Die("parallel uploadSet")
        ELSE /\ setChan' = Tail(setChan)
             /\ uploadingSets' =
                  [k \in DOMAIN uploadingSets \cup {j} |->
                     IF k = j THEN "choosing" ELSE uploadingSets[k]]
             /\ UNCHANGED <<db, history, filling, resuming, retrying, uploads,
                            status, outside>>

\* Mutant: the set stays registered while its handler sleeps.
Resleep_StillUploading(j) ==
  /\ retrying' = [retrying EXCEPT ![j] = @ + 1]
  /\ UNCHANGED uploadingSets

\* Mutant: the error is logged and the set forgotten.
Resleep_GiveUp(j) ==
  /\ uploadingSets' = Restrict(uploadingSets, DOMAIN uploadingSets \ {j})
  /\ UNCHANGED retrying

\* uploadSet(j) leaves with an error; handleSet sleeps and then resends j.
Resleep(j) ==
  /\ uploadingSets' = Restrict(uploadingSets, DOMAIN uploadingSets \ {j})
  /\ retrying' = [retrying EXCEPT ![j] = @ + 1]

ResendSet(j) ==
  /\ retrying[j] > 0
  /\ SendSet(j)
  /\ retrying' = [retrying EXCEPT ![j] = @ - 1]
  /\ UNCHANGED <<db, history, filling, resuming, handlers, status, outside>>

Choosing(j) == uploadingSets[j] = "choosing"

\* The offered contracts that uploadSet keeps.
Candidates(j, offered) ==
  {c \in offered \ Used(j) : failure[c] # "recent"}

\* Upper bound on the contracts it wants (n in the code).
Wanted(j) ==
  Len(sets[j].data) + Len(sets[j].parity) - Cardinality(Used(j))

\* A history that load created has no LastFailure: ptypes.Timestamp(nil).
NilTimestamp(j, offered) ==
  \E c \in offered \ Used(j) : c \in readFrom /\ failure[c] = "never"

\* A history that a failed write created has ReadsNumber = 0; sorting two
\* or more candidates compares every one of them.
ZeroReads(j, offered) ==
  /\ Cardinality(Candidates(j, offered)) >= 2
  /\ \E c \in Candidates(j, offered) : failure[c] = "old" /\ c \notin readFrom

\* Contracts() fails or offers too few, or a sector has no data.
RefuseSet(j) ==
  /\ mu = "free"
  /\ Choosing(j)
  /\ Resleep(j)
  /\ UNCHANGED <<db, history, filling, resuming, setChan, uploads, status,
                 outside>>

\* The goroutine panics over the history, and with it the process.
PanicOnHistory(j) ==
  /\ mu = "free"
  /\ Choosing(j)
  /\ \A i \in Missing(j) : sectors[i].data # NoData
  /\ \E offered \in SUBSET Contracts :
       IF NilTimestamp(j, offered) THEN Die("nil timestamp")
       ELSE /\ Cardinality(Candidates(j, offered)) >= Wanted(j)
            /\ ZeroReads(j, offered)
            /\ Die("division by zero")

\* Every sector that has no contract gets one of its own.  Which one depends
\* on the read latencies and on rand.Perm: any assignment is possible.
AssignContracts(j) ==
  /\ mu = "free"
  /\ Choosing(j)
  /\ \A i \in Missing(j) : sectors[i].data # NoData
  /\ \E offered \in SUBSET Contracts :
       /\ ~NilTimestamp(j, offered)
       /\ Cardinality(Candidates(j, offered)) >= Wanted(j)
       /\ ~ZeroReads(j, offered)
       /\ \E chosen \in Injection(Missing(j), Candidates(j, offered)) :
            IF Missing(j) \cap DOMAIN uploads # {}
            THEN Die("parallel uploadSector")
            ELSE /\ uploads' =
                      [i \in DOMAIN uploads \cup Missing(j) |->
                         IF i \in Missing(j)
                         THEN [set |-> j, contract |-> chosen[i],
                               stored |-> FALSE]
                         ELSE uploads[i]]
                 /\ uploadingSets' = [uploadingSets EXCEPT ![j] = "uploading"]
                 /\ UNCHANGED <<db, history, filling, resuming, tokens, status,
                                outside>>

\* The host stores the sector; the answer is on its way.
HostStores(i) ==
  /\ ~uploads[i].stored
  /\ hosts' = [hosts EXCEPT ![uploads[i].contract] =
                 @ \cup {Root(i, sectors[i].data)}]
  /\ uploads' = [uploads EXCEPT ![i].stored = TRUE]
  /\ UNCHANGED <<db, history, filling, resuming, tokens, uploadingSets, status,
                 disk, torn, failures, restarts>>

\* The answer arrives: contract and root are recorded and the data dropped.
RecordUpload(i) ==
  /\ mu = "free"
  /\ uploads[i].stored
  /\ sectors' = [sectors EXCEPT
                   ![i] = [data |-> NoData, contract |-> uploads[i].contract,
                           root |-> Root(i, sectors[i].data)]]
  /\ uploads' = Restrict(uploads, DOMAIN uploads \ {i})
  /\ UNCHANGED <<next, sets, pending, history, filling, resuming, tokens,
                 uploadingSets, status, outside>>

\* SiaClient.Write fails, before or after the host stored the sector.
FailUpload(i) ==
  /\ failures < MaxFailures
  /\ failures' = failures + 1
  /\ failure' = [failure EXCEPT ![uploads[i].contract] = "recent"]
  /\ uploadingSets' = [uploadingSets EXCEPT ![uploads[i].set] = "failing"]
  /\ uploads' = Restrict(uploads, DOMAIN uploads \ {i})
  /\ UNCHANGED <<db, readFrom, filling, resuming, tokens, status, disk, torn,
                 hosts, restarts>>

\* wg.Wait returns.
FinishUpload(j) ==
  /\ ~Choosing(j)
  /\ \A i \in DOMAIN uploads : uploads[i].set # j
  /\ IF uploadingSets[j] = "failing"
     THEN Resleep(j)
     ELSE /\ uploadingSets' =
               Restrict(uploadingSets, DOMAIN uploadingSets \ {j})
          /\ UNCHANGED retrying
  /\ UNCHANGED <<db, history, filling, resuming, setChan, uploads, status,
                 outside>>

\* A minute passes since the last failure of contract c.
MinutePasses(c) ==
  /\ failure[c] = "recent"
  /\ failure' = [failure EXCEPT ![c] = "old"]
  /\ UNCHANGED <<db, readFrom, filling, resuming, tokens, handlers, status,
                 outside>>

-----------------------------------------------------------------------------

\* A step of the running process, the dump apart.
Run ==
  /\ status = "up"
  /\ \/ AllocateSector
     \/ \E i \in DOMAIN sectors, v \in Values : WriteSector(i, v)
     \/ SignalData
     \/ \E i \in DOMAIN sectors : ReadSector(i)
     \/ HandlePending \/ FormFullSet \/ SendNewSet
     \/ UploadAllPending \/ FormAnySet \/ SendAnySet
     \/ ContinueUploads
     \/ \E j \in resumed : SendResumed(j)
     \/ HandleSet
     \/ \E j \in DOMAIN retrying : ResendSet(j)
     \/ \E j \in DOMAIN uploadingSets :
          \/ RefuseSet(j) \/ PanicOnHistory(j) \/ AssignContracts(j)
          \/ FinishUpload(j)
     \/ \E i \in DOMAIN uploads :
          HostStores(i) \/ RecordUpload(i) \/ FailUpload(i)
     \/ \E c \in Contracts : MinutePasses(c)

Next == Run \/ DumpDb \/ Crash \/ Restart

Spec == Init /\ [][Next]_vars

\* The scheduler runs every goroutine; the handlers' retry loop sees the
\* daemon offer usable contracts again and again; failures wear off.
Fairness ==
  /\ WF_vars(SignalData)
  /\ WF_vars(HandlePending) /\ WF_vars(FormFullSet) /\ SF_vars(SendNewSet)
  /\ WF_vars(FormAnySet) /\ SF_vars(SendAnySet)
  /\ WF_vars(ContinueUploads)
  /\ WF_vars(HandleSet)
  /\ \A j \in 1 .. MaxNext :
       /\ SF_vars(j \in resumed /\ SendResumed(j))
       /\ SF_vars(j \in DOMAIN retrying /\ ResendSet(j))
       /\ SF_vars(j \in DOMAIN uploadingSets /\ AssignContracts(j))
       /\ WF_vars(j \in DOMAIN uploadingSets /\ FinishUpload(j))
  /\ \A i \in 1 .. MaxNext + MaxNext * Nparity :
       /\ WF_vars(i \in DOMAIN uploads /\ HostStores(i))
       /\ WF_vars(i \in DOMAIN uploads /\ RecordUpload(i))
  /\ \A c \in Contracts : WF_vars(MinutePasses(c))

FairSpec == Spec /\ Fairness

-----------------------------------------------------------------------------
(* Properties                                                              *)

Sector ==
  [data : Contents \cup {NoData},
   contract : Contracts \cup {NoContract},
   root : [id : Nat, content : Contents] \cup {NoRoot}]

\* Sectors 1 .. n, sets and pending of a database that name only these.
DbOK(n, secs, ss, pend) ==
  /\ secs \in [1 .. n -> Sector]
  /\ ss \in Seq([data : Seq(1 .. n), parity : Seq(1 .. n)])
  /\ pend \in Seq(1 .. n)

HistoryOK(reads, fail) ==
  /\ reads \subseteq Contracts
  /\ fail \in [Contracts -> {"never", "recent", "old"}]

\* The type invariant.  Every set that is waiting, resumed or uploading is a
\* set of the database, and the channels keep their capacity.
TypeOK ==
  /\ next \in Nat \ {0}
  /\ DbOK(next - 1, sectors, sets, pending)
  /\ HistoryOK(readFrom, failure)
  /\ mu \in {"free", "handlePending", "UploadAllPending"}
  /\ signals \in Nat
  /\ dataChan \in 0 .. ChanCap
  /\ newSets \in Seq(SetIds)
  /\ allSets \in Seq(SetIds)
  /\ oldSets \in 0 .. Len(sets)
  /\ resumed \subseteq SetIds
  /\ setChan \in Seq(SetIds) /\ Len(setChan) <= ChanCap
  /\ retrying \in Seq(Nat) /\ Len(retrying) = Len(sets)
  /\ DOMAIN uploadingSets \subseteq SetIds
  /\ uploadingSets \in [DOMAIN uploadingSets ->
                          {"choosing", "uploading", "failing"}]
  /\ DOMAIN uploads \subseteq DOMAIN sectors
  /\ uploads \in [DOMAIN uploads ->
                    [set : SetIds, contract : Contracts, stored : BOOLEAN]]
  /\ status \in {"up", "crashed", "nil timestamp", "division by zero",
                 "parallel uploadSet", "parallel uploadSector"}
  /\ DbOK(Cardinality(DOMAIN disk.sectors),
          disk.sectors, disk.sets, disk.pending)
  /\ HistoryOK(disk.readFrom, disk.failure)
  /\ torn \in BOOLEAN
  /\ hosts \in [Contracts -> SUBSET [id : Nat, content : Contents]]
  /\ failures \in 0 .. MaxFailures
  /\ restarts \in 0 .. MaxRestarts

\* uploadSet and uploadSector assert that they never run twice at the same
\* time for one set or one sector ("parallel uploadSet", "parallel
\* uploadSector"): they panic otherwise.
NoParallelUpload ==
  status \notin {"parallel uploadSet", "parallel uploadSector"}

Occurrences(q, x) == Cardinality({k \in DOMAIN q : q[k] = x})
One(P) == IF P THEN 1 ELSE 0

\* Where a set can be on its way to being uploaded.
Tokens(j) ==
  Occurrences(setChan, j) + Occurrences(newSets, j) + Occurrences(allSets, j)
    + retrying[j] + One(j \in resumed) + One(j \in DOMAIN uploadingSets)
    + One(j <= oldSets /\ ~Uploaded(j))

\* Every parity set is in at most one place on its way to the hosts, and in
\* exactly one as long as a sector of it has no contract: no set is uploaded
\* twice at a time and none is forgotten, whatever the order of dataLoop,
\* UploadAllPending, continueUploads, failures and retries.
EverySetHasItsToken ==
  \A j \in SetIds :
    /\ Tokens(j) <= 1
    /\ Uploaded(j) \/ Tokens(j) = 1

ContractOf(i) ==
  IF i \in DOMAIN uploads THEN uploads[i].contract ELSE sectors[i].contract

\* Two sectors of one set never share a contract, neither recorded nor being
\* uploaded to, across partial failures, retries and restarts from whole dumps
\* (the purpose of "used" in uploadSet).
DistinctContracts ==
  \A j \in SetIds : \A a, b \in InSet(j) :
    a # b /\ ContractOf(a) = ContractOf(b) => ContractOf(a) = NoContract

Content(sector) ==
  IF sector.data # NoData THEN sector.data ELSE sector.root.content

\* The sector can be read with the contracts "lost" gone.
Readable(sector, lost) ==
  \/ sector.data # NoData
  \/ /\ sector.contract \notin lost \cup {NoContract}
     /\ sector.root \in hosts[sector.contract]

\* Whichever Nparity contracts are lost, at least as many sectors of a set
\* as it has data sectors can still be read, so recoverData can rebuild the
\* others: as long as the process lives, and again after a restart from an
\* older dump that was whole.
SurvivesContractLoss ==
  \A j \in SetIds : \A lost \in SUBSET Contracts :
    Cardinality(lost) <= Nparity =>
      Len(sets[j].data) <=
        Cardinality({i \in InSet(j) : Readable(sectors[i], lost)})

\* The parity sectors of a set of the running process encode its data sectors,
\* whether these are in memory or only on the hosts, and a host returns a sector
\* under the id it was encrypted for (addParity, formParitySet, uploadSector).
ParityMatchesData ==
  \A j \in SetIds :
    LET datas == [k \in DOMAIN sets[j].data |-> Content(sectors[sets[j].data[k]])]
    IN /\ \A k \in DOMAIN sets[j].parity :
            Content(sectors[sets[j].parity[k]]) = Encode(k, datas)
       /\ \A i \in InSet(j) : sectors[i].root = NoRoot \/ sectors[i].root.id = i

\* The places of sector i in db.Pending and db.Sets.
Places(i) ==
  {<<0, "pending", k>> : k \in {k \in DOMAIN pending : pending[k] = i}}
    \cup UNION {{<<j, "data", k>> :
                    k \in {k \in DOMAIN sets[j].data : sets[j].data[k] = i}}
                \cup {<<j, "parity", k>> :
                    k \in {k \in DOMAIN sets[j].parity : sets[j].parity[k] = i}}
                : j \in SetIds}

\* A sector that holds something is pending once or in one set once, and an
\* allocated one that was never filled is nowhere.
EverySectorHasItsPlace ==
  \A i \in DOMAIN sectors :
    Cardinality(Places(i)) = One(sectors[i] # EmptySector)

\* As long as the process lives a filled sector keeps its content: nobody
\* overwrites it, and uploadSector drops the data only in exchange for the
\* root of a sector with that content which the contract's host stores.
ContentKept ==
  [][status = "up" /\ status' = "up" =>
       \A i \in DOMAIN sectors :
         sectors[i] # EmptySector =>
           /\ Content(sectors'[i]) = Content(sectors[i])
           /\ sectors'[i].data = NoData => 
                sectors'[i].root \in hosts'[sectors'[i].contract]]_vars

\* Every set gets uploaded, whatever failed on the way, unless the process
\* dies (handleSet's retry, the bounded setChan).
EverySetIsUploaded ==
  \A j \in 1 .. MaxNext :
    (status = "up" /\ j \in SetIds)
      ~> (status # "up" \/ (j \in SetIds /\ Uploaded(j)))

\* A full group of pending sectors becomes a set without waiting for another
\* write, as long as the process that took the writes lives.
FullGroupIsFormed ==
  (status = "up" /\ restarts = 0 /\ Len(pending) >= Ndata)
    ~> (status # "up" \/ Len(pending) < Ndata)

-----------------------------------------------------------------------------
(* The inductive invariant behind the proofs (ManagerProofs)               *)

\* A database in which pending lists filled sectors once and outside of
\* every set, no set has an empty sector, and no two sets share a sector.
Placed(secs, ss, pend) ==
  /\ \A k, l \in DOMAIN pend : pend[k] = pend[l] => k = l
  /\ \A k \in DOMAIN pend :
       /\ secs[pend[k]].data \in Values
       /\ secs[pend[k]].contract = NoContract
       /\ \A j \in DOMAIN ss : pend[k] \notin Ids(ss[j])
  /\ \A j \in DOMAIN ss : \A i \in Ids(ss[j]) : ~IsEmpty(secs[i])
  /\ \A j, l \in DOMAIN ss : j # l => Ids(ss[j]) \cap Ids(ss[l]) = {}

\* Recorded contracts do not repeat within a set.
Separated(secs, ss) ==
  \A j \in DOMAIN ss : \A a, b \in Ids(ss[j]) :
    a # b /\ secs[a].contract = secs[b].contract
      => secs[a].contract = NoContract

\* A sector is empty, or it holds its data and no contract has it, or the
\* host of its contract stores it under its own id.
SectorOK(i, sector) ==
  \/ sector = EmptySector
  \/ /\ sector.data # NoData
     /\ sector.contract = NoContract
     /\ sector.root = NoRoot
  \/ /\ sector.data = NoData
     /\ sector.contract # NoContract
     /\ sector.root \in hosts[sector.contract]
     /\ sector.root.id = i

\* A set has every sector once and Nparity parity sectors, which encode the
\* content of its data sectors.
SetOK(secs, set) ==
  LET datas == [k \in DOMAIN set.data |-> Content(secs[set.data[k]])]
  IN /\ \A k, l \in DOMAIN set.data : set.data[k] = set.data[l] => k = l
     /\ \A k, l \in DOMAIN set.parity : set.parity[k] = set.parity[l] => k = l
     /\ Range(set.data) \cap Range(set.parity) = {}
     /\ Len(set.parity) = Nparity
     /\ \A k \in DOMAIN set.parity :
          Content(secs[set.parity[k]]) = Encode(k, datas)

\* No content is lost and no filled sector is outside of pending and sets.
DataOK(secs, ss, pend) ==
  /\ \A i \in DOMAIN secs : SectorOK(i, secs[i])
  /\ \A j \in DOMAIN ss : SetOK(secs, ss[j])
  /\ \A i \in DOMAIN secs :
       IsEmpty(secs[i]) \/ i \in Range(pend) \/ \E j \in DOMAIN ss : i \in Ids(ss[j])

\* What uploadSector has been answered is on the host.
AnsweredIsStored ==
  \A i \in DOMAIN uploads :
    uploads[i].stored => Root(i, sectors[i].data) \in hosts[uploads[i].contract]

\* A sector is uploaded for a set that is being uploaded and has it, and
\* still has its data and no contract.
UploadsOK ==
  \A i \in DOMAIN uploads :
    /\ uploads[i].set \in DOMAIN uploadingSets
    /\ uploadingSets[uploads[i].set] # "choosing"
    /\ i \in InSet(uploads[i].set)
    /\ sectors[i].contract = NoContract
    /\ sectors[i].data # NoData

Elements(q) == {q[k] : k \in DOMAIN q}
Once(q) == \A k, l \in DOMAIN q : q[k] = q[l] => k = l
Retrying == {j \in DOMAIN retrying : retrying[j] > 0}
OnTheWay ==
  Elements(setChan) \cup Elements(newSets) \cup Elements(allSets)
    \cup Retrying \cup resumed \cup DOMAIN uploadingSets

\* The places of a set on its way to the hosts are disjoint and hold it
\* once; what continueUploads has yet to collect is in none of them.
TokensOK ==
  /\ Once(setChan) /\ Once(newSets) /\ Once(allSets)
  /\ \A j \in DOMAIN retrying : retrying[j] <= 1
  /\ Elements(setChan) \cap Elements(newSets) = {}
  /\ Elements(setChan) \cap Elements(allSets) = {}
  /\ Elements(setChan) \cap Retrying = {}
  /\ Elements(setChan) \cap resumed = {}
  /\ Elements(setChan) \cap DOMAIN uploadingSets = {}
  /\ Elements(newSets) \cap Elements(allSets) = {}
  /\ Elements(newSets) \cap Retrying = {}
  /\ Elements(newSets) \cap resumed = {}
  /\ Elements(newSets) \cap DOMAIN uploadingSets = {}
  /\ Elements(allSets) \cap Retrying = {}
  /\ Elements(allSets) \cap resumed = {}
  /\ Elements(allSets) \cap DOMAIN uploadingSets = {}
  /\ Retrying \cap resumed = {}
  /\ Retrying \cap DOMAIN uploadingSets = {}
  /\ resumed \cap DOMAIN uploadingSets = {}
  /\ oldSets > 0 => resumed = {} /\ \A j \in OnTheWay : j > oldSets

\* An unfinished set is somewhere on its way, or continueUploads will find it.
NoneForgotten ==
  \A j \in SetIds : Uploaded(j) \/ j \in OnTheWay \/ j <= oldSets

\* Unless an upload has failed, every sector that misses a contract is being
\* uploaded for its set.
AllMissingUploaded ==
  \A j \in DOMAIN uploadingSets : uploadingSets[j] = "uploading" =>
    \A i \in Missing(j) : i \in DOMAIN uploads /\ uploads[i].set = j

\* All of it together, for the database in memory and for the last dump that was
\* whole, which is what a restart loads; nothing is said of a torn dump.
InductiveInvariant ==
  /\ TypeOK
  /\ Placed(sectors, sets, pending)
  /\ Placed(disk.sectors, disk.sets, disk.pending)
  /\ Separated(disk.sectors, disk.sets)
  /\ DataOK(sectors, sets, pending)
  /\ DataOK(disk.sectors, disk.sets, disk.pending)
  /\ AnsweredIsStored
  /\ UploadsOK
  /\ TokensOK
  /\ NoneForgotten
  /\ AllMissingUploaded
  /\ DistinctContracts
  /\ NoParallelUpload

=============================================================================
