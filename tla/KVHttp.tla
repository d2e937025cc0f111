-------------------------------- MODULE KVHttp --------------------------------
(***************************************************************************)
(* The S3 server of zipkvserver: the handler (kvhttp/kvhttp.go) runs in a  *)
(* goroutine for each request and calls the zipped store, and a goroutine  *)
(* of main.go waits for signals, syncs the store and closes the listener.  *)
(*                                                                         *)
(* Get of the store returns a slice of f.next, not a copy: what the        *)
(* handler of a GET holds changes when the array behind f.next is filled   *)
(* again for the next block, as long as it still is that of f.next: append *)
(* replaces it when its capacity does not do.                              *)
(* A HEAD is a GET whose body is not sent.                                 *)
(***************************************************************************)
EXTENDS ZipKV

CONSTANTS
  Requests,      \* handlers at a time
  MaxSignals,    \* bound: signals
  MaxReadErrors, \* bound: failed reads of the backend
  MaxRequests    \* bound: requests other than those that write

ASSUME KVHttpAssumption ==
  /\ {"main", "nobody"} \cap Requests = {}
  /\ MaxSignals \in Nat /\ MaxReadErrors \in Nat /\ MaxRequests \in Nat

VARIABLES
  req,        \* per handler, its request, or the status it last answered
  caller,     \* who waits for writeNext: a handler, "main" or "nobody"
  capacity,   \* of f.next
  shutdown,   \* the goroutine of main: wait, sync, waits, close, closed
  signals, readErrors, reads,
  lastPut,    \* history: records up to the last Put of at least one byte,
  promised    \* and the same when the signal came

httpVars == <<req, caller, capacity, shutdown, signals, readErrors, reads, lastPut, promised>>
allVars == <<vars, httpVars>>

Reply(status) == [op |-> "none", stage |-> "replied", status |-> status]
Free == Reply(0)

HttpInit ==
  /\ Init
  /\ req = [r \in Requests |-> Free]
  /\ caller = "nobody" /\ capacity = 0
  /\ shutdown = "wait" /\ signals = 0 /\ readErrors = 0 /\ reads = 0
  /\ lastPut = 0 /\ promised = 0

At(r, op, at) == req[r].op = op /\ req[r].stage = at
Answer(r, status) == req' = [req EXCEPT ![r] = Reply(status)]

\* The entry that the store has under a key.
Entry(k) == IF k \in DOMAIN files THEN Stored(files[k], TRUE) ELSE NoEntry

-----------------------------------------------------------------------------
(* Requests                                                                *)

\* A request comes to a free handler while the listener is open.
Receive(r, request) ==
  /\ up /\ shutdown # "closed" /\ req[r].stage = "replied"
  /\ req' = [req EXCEPT ![r] = request]
  /\ UNCHANGED <<vars, caller, capacity, shutdown, signals, readErrors, lastPut, promised>>

\* The bound on records counts those that requests under way will add.
Room ==
  Len(history) + Cardinality({r \in Requests : req[r].op \in {"put", "copy", "delete"}}) < MaxOps

\* A larger value is refused at once, with 413.
ReceivePut(r, k, v, m) ==
  /\ Room /\ Size[v] <= MaxBlock
  /\ Receive(r, [op |-> "put", stage |-> "call", key |-> k, value |-> v, meta |-> m])
  /\ UNCHANGED reads

\* The directive REPLACE takes the metadata of the request, COPY the source's.
ReceiveCopy(r, k, src, m, replace) ==
  /\ Room
  /\ Receive(r, [op |-> "copy", stage |-> "has", key |-> k, src |-> src, meta |-> m,
                 replace |-> replace])
  /\ UNCHANGED reads

ReceiveDelete(r, k) ==
  /\ Room
  /\ Receive(r, [op |-> "delete", stage |-> "call", key |-> k])
  /\ UNCHANGED reads

ReceiveGet(r, k) ==
  /\ reads < MaxRequests /\ reads' = reads + 1
  /\ Receive(r, [op |-> "get", stage |-> "call", key |-> k])

-----------------------------------------------------------------------------
(* GET                                                                     *)

\* Mutant: any location that f.next has.
InNext_Any(loc) == loc.pos \in DOMAIN next

\* loc.BackendFile == f.db.NextBackendFile
InNext(loc) == loc.block = nextBlock

\* The bytes of v in the array when it comes after values.
Bytes(values, v) == Length(values) .. Length(values) + Size[v] - 1

\* What the handler holds: the slice at the location in f.next, of these bytes of
\* the array, or later what it has read from the block file; seen is the entry
\* at this time.
Holding(r, loc) ==
  [op |-> "get", stage |-> IF InNext(loc) THEN "digest" ELSE "file", key |-> req[r].key,
   block |-> loc.block, pos |-> loc.pos,
   bytes |-> IF InNext(loc) THEN Bytes(SubSeq(next, 1, loc.pos - 1), next[loc.pos]) ELSE {},
   value |-> IF InNext(loc) THEN next[loc.pos] ELSE NoEntry,
   etag |-> NoEntry, seen |-> Entry(req[r].key), at |-> nextBlock]

\* Get of the store under the read lock, and the answer 404.
Get(r) ==
  /\ At(r, "get", "call") /\ Idle
  /\ IF req[r].key \in DOMAIN files
     THEN req' = [req EXCEPT ![r] = Holding(r, files[req[r].key])]
     ELSE Answer(r, 404)
  /\ UNCHANGED <<vars, caller, capacity, shutdown, signals, readErrors, reads, lastPut, promised>>

\* The block file, without the lock.
GetAt(r) ==
  /\ up /\ At(r, "get", "file")
  /\ req' = [req EXCEPT ![r].stage = "digest",
                        ![r].value = blocks[req[r].block][req[r].pos]]
  /\ UNCHANGED <<vars, caller, capacity, shutdown, signals, readErrors, reads, lastPut, promised>>

\* Any error of Get is answered with 404.
FailGetAt(r) ==
  /\ up /\ At(r, "get", "file")
  /\ readErrors < MaxReadErrors
  /\ readErrors' = readErrors + 1
  /\ Answer(r, 404)
  /\ UNCHANGED <<vars, caller, capacity, shutdown, signals, reads, lastPut, promised>>

\* The digest of the value goes into the header ETag, then the body is sent.
Digest(r) ==
  /\ up /\ At(r, "get", "digest")
  /\ req' = [req EXCEPT ![r].stage = "body", ![r].etag = req[r].value]
  /\ UNCHANGED <<vars, caller, capacity, shutdown, signals, readErrors, reads, lastPut, promised>>

Body(r) ==
  /\ up /\ At(r, "get", "body")
  /\ Answer(r, 200)
  /\ UNCHANGED <<vars, caller, capacity, shutdown, signals, readErrors, reads, lastPut, promised>>

-----------------------------------------------------------------------------
(* PUT, copy and DELETE                                                    *)

Holds(q) == q.op = "get" /\ q.stage \in {"digest", "body"}

Grows(values, v) == Length(values) + Size[v] > capacity

\* The requests after append has put v behind values, into the array that is
\* there or into a larger one.  A value of which some bytes are filled again is
\* NoEntry: none of those that were put.
Appended(values, v) ==
  [r \in Requests |->
     IF ~Holds(req[r]) THEN req[r]
     ELSE IF Grows(values, v) THEN [req[r] EXCEPT !.bytes = {}]
     ELSE IF req[r].bytes \cap Bytes(values, v) = {} THEN req[r]
     ELSE [req[r] EXCEPT !.value = IF req[r].bytes = Bytes(values, v) THEN v ELSE NoEntry]]

Capacities(values, v) ==
  IF Grows(values, v) THEN Length(values) + Size[v] .. MaxBlock ELSE {capacity}

\* A value of no bytes does not make f.next longer.
LastPut(v) == IF Size[v] > 0 THEN Len(history') ELSE lastPut

HandlePut(r) ==
  /\ At(r, "put", "call")
  /\ Put(req[r].key, req[r].value, req[r].meta)
  /\ capacity' \in Capacities(next, req[r].value)
  /\ req' = [Appended(next, req[r].value) EXCEPT ![r] = Reply(200)]
  /\ lastPut' = LastPut(req[r].value)
  /\ UNCHANGED <<caller, shutdown, signals, readErrors, reads, promised>>

HandlePutToNewBlock(r) ==
  /\ At(r, "put", "call")
  /\ PutToNewBlock(req[r].key, req[r].value, req[r].meta)
  /\ caller' = r
  /\ UNCHANGED <<req, capacity, shutdown, signals, readErrors, reads, lastPut, promised>>

FinishPut ==
  /\ caller \in Requests
  /\ Finish
  /\ capacity' \in Capacities(<< >>, call.value)
  /\ req' = [Appended(<< >>, call.value) EXCEPT ![caller] = Reply(200)]
  /\ caller' = "nobody"
  /\ lastPut' = LastPut(call.value)
  /\ UNCHANGED <<shutdown, signals, readErrors, reads, promised>>

FailPut ==
  /\ caller \in Requests
  /\ Fail
  /\ Answer(caller, 502)
  /\ caller' = "nobody"
  /\ UNCHANGED <<capacity, shutdown, signals, readErrors, reads, lastPut, promised>>

\* Has of the source, and its metadata for the directive COPY.
HandleHas(r) ==
  /\ At(r, "copy", "has") /\ Idle
  /\ IF req[r].src \notin DOMAIN files THEN Answer(r, 404)
     ELSE req' = [req EXCEPT ![r] =
            [op |-> "copy", stage |-> "link", key |-> req[r].key, src |-> req[r].src,
             meta |-> IF req[r].replace THEN req[r].meta ELSE files[req[r].src].meta]]
  /\ UNCHANGED <<vars, caller, capacity, shutdown, signals, readErrors, reads, lastPut, promised>>

HandleLink(r) ==
  /\ At(r, "copy", "link")
  /\ Link(req[r].key, req[r].src, req[r].meta)
  /\ Answer(r, 200)
  /\ UNCHANGED <<caller, capacity, shutdown, signals, readErrors, reads, lastPut, promised>>

HandleDelete(r) ==
  /\ At(r, "delete", "call")
  /\ Delete(req[r].key)
  /\ Answer(r, 200)
  /\ UNCHANGED <<caller, capacity, shutdown, signals, readErrors, reads, lastPut, promised>>

\* The source has gone since Has (500), or there is nothing to delete (404).
Missing(r) ==
  /\ Idle
  /\ \/ At(r, "copy", "link") /\ req[r].src \notin DOMAIN files /\ Answer(r, 500)
     \/ At(r, "delete", "call") /\ req[r].key \notin DOMAIN files /\ Answer(r, 404)
  /\ UNCHANGED <<vars, caller, capacity, shutdown, signals, readErrors, reads, lastPut, promised>>

\* The calls of the backend under the lock.
StoreStep ==
  /\ TearFile \/ WriteBlock \/ WriteDb \/ DeleteDb
  /\ UNCHANGED httpVars

-----------------------------------------------------------------------------
(* Shutdown                                                                *)

Signal ==
  /\ up /\ shutdown = "wait" /\ signals < MaxSignals
  /\ signals' = signals + 1
  /\ shutdown' = "sync"
  /\ promised' = lastPut
  /\ UNCHANGED <<vars, req, caller, capacity, readErrors, reads, lastPut>>

HandleSync ==
  /\ shutdown = "sync"
  /\ Sync
  /\ IF stage' = "no" THEN shutdown' = "close" /\ UNCHANGED caller
     ELSE shutdown' = "waits" /\ caller' = "main"
  /\ UNCHANGED <<req, capacity, signals, readErrors, reads, lastPut, promised>>

FinishSync ==
  /\ caller = "main"
  /\ Finish
  /\ shutdown' = "close" /\ caller' = "nobody"
  /\ UNCHANGED <<req, capacity, signals, readErrors, reads, lastPut, promised>>

\* Mutant: the listener is closed all the same.
AfterFailedSync_Close == "close"

\* continue: the goroutine waits for another signal.
AfterFailedSync == "wait"

FailSync ==
  /\ caller = "main"
  /\ Fail
  /\ shutdown' = AfterFailedSync /\ caller' = "nobody"
  /\ UNCHANGED <<req, capacity, signals, readErrors, reads, lastPut, promised>>

\* The listener is closed, or cannot be.
CloseListener ==
  /\ up /\ shutdown = "close"
  /\ shutdown' \in {"closed", "wait"}
  /\ UNCHANGED <<vars, req, caller, capacity, signals, readErrors, reads, lastPut, promised>>

\* Serve returns and log.Fatal ends the process, whatever the handlers do.
Exit ==
  /\ shutdown = "closed"
  /\ Crash
  /\ req' = [r \in Requests |-> Free] /\ caller' = "nobody" /\ capacity' = 0
  /\ UNCHANGED <<shutdown, signals, readErrors, reads, lastPut, promised>>

HttpNext ==
  \/ \E r \in Requests :
       \/ \E k \in Keys, v \in Values, m \in Metas : ReceivePut(r, k, v, m)
       \/ \E k, src \in Keys, m \in Metas, replace \in BOOLEAN : ReceiveCopy(r, k, src, m, replace)
       \/ \E k \in Keys : ReceiveDelete(r, k) \/ ReceiveGet(r, k)
       \/ Get(r) \/ GetAt(r) \/ FailGetAt(r) \/ Digest(r) \/ Body(r)
       \/ HandlePut(r) \/ HandlePutToNewBlock(r)
       \/ HandleHas(r) \/ HandleLink(r) \/ HandleDelete(r) \/ Missing(r)
  \/ FinishPut \/ FailPut
  \/ StoreStep
  \/ Signal \/ HandleSync \/ FinishSync \/ FailSync \/ CloseListener \/ Exit

HttpSpec == HttpInit /\ [][HttpNext]_allVars

-----------------------------------------------------------------------------
(* Properties                                                              *)

\* What the handler of a GET holds is the value it found, as long as no block
\* was closed since, or if it comes from a block file; the digest is that of
\* the value.  (When a block is closed the array of f.next is used again, and
\* what a handler holds of it may change.)
HeldIsStored ==
  \A r \in Requests :
    LET q == req[r]
    IN q.op = "get" /\ q.stage \in {"digest", "body"} /\ (q.at = nextBlock \/ q.block # q.at)
         => q.value = q.seen.value /\ (q.stage = "body" => q.etag = q.seen.value)

\* README.md: "stop zipkvserver to prevent data loss".  When the listener is
\* closed, the last value of at least one byte that was put before the signal,
\* and all that came before it, is in an index on disk, though failed syncs came
\* before.  That index is the one the next start finds, unless a handler that
\* outlives the listener tears one in front of it, which it can only where the
\* names wrap around.  (What came after that value, empty values, links and
\* deletions, may be lost: Sync writes nothing when f.next has no bytes.)
ExitSavesPuts ==
  shutdown = "closed" /\ promised > 0 =>
    \E i \in DOMAIN dbs :
      /\ dbs[i].whole /\ Len(dbs[i].history) >= promised
      /\ up => IsPrefix(dbs[i].history, history)
      /\ FindDb = i \/ (i = MaxDbName /\ FindDb = 0 /\ ~dbs[0].whole)

=============================================================================
