-------------------------------- MODULE ZipKV --------------------------------
(***************************************************************************)
(* The zipped key-value store (zipkvserver/zipkv/zipkv.go) over a backend  *)
(* of files.  Values are appended to a block in memory, f.next; when the   *)
(* next value does not fit, or on Sync, the block becomes a file of its    *)
(* own, and the index (the history of all operations) is written under the *)
(* next of maxDbName + 1 rotating names before the previous index is       *)
(* deleted.  Operations hold f.m; each call of the backend is a step of    *)
(* its own that can fail, and the process can die between any two.         *)
(*                                                                         *)
(* A block is the sequence of the values in it, and a location names the   *)
(* position of its value there, not the byte offset.                       *)
(***************************************************************************)
EXTENDS Integers, FiniteSets, Functions, SequencesExt

CONSTANTS
  Keys, Values, Metas,
  NoEntry,      \* no value under a key
  Size,         \* the length of a value in bytes
  MaxBlock,     \* f.max, the length of a block
  MaxDbName,    \* the last index name (9 in the code)
  MaxOps,       \* bound: records of the history
  MaxErrors,    \* bound: failed calls of the backend
  MaxCrashes    \* bound: deaths of the process

ASSUME ZipKVAssumption ==
  /\ Size \in [Values -> Nat]
  /\ MaxBlock \in Nat \ {0}
  /\ MaxDbName \in Nat \ {0}
  /\ MaxOps \in Nat /\ MaxErrors \in Nat /\ MaxCrashes \in Nat
  /\ NoEntry \notin [value : Values, meta : Metas]

VARIABLES
  \* the Frontend
  up,           \* the process runs
  files,        \* f.files: key -> location
  history,      \* f.db.History
  nextBlock,    \* f.db.NextBackendFile
  next,         \* f.next
  currDb,       \* f.currDb
  call,         \* the Put or Sync that waits for writeNext
  stage,        \* where writeNext is: no, block, db, delete, done
  \* the backend
  blocks,       \* number -> values, of the block files
  dbs,          \* index name -> its content, of the index files
  errors, crashes

memory == <<files, history, nextBlock, next, currDb, call, stage>>
backend == <<blocks, dbs>>
vars == <<up, memory, backend, errors, crashes>>

\* An index file, whole or torn.
Index(n, h) == [whole |-> TRUE, nextBlock |-> n, history |-> h]
Torn == [whole |-> FALSE]

NoCall == [op |-> "none"]

-----------------------------------------------------------------------------

\* f[k] = v of a Go map.
Assign(f, k, v) == [j \in DOMAIN f \cup {k} |-> IF j = k THEN v ELSE f[j]]

\* len(f.next)
Length(values) == FoldLeft(LAMBDA n, v : n + Size[v], 0, values)

PutRecord(k, loc) == [key |-> k, put |-> TRUE, loc |-> loc]
DeleteRecord(k) == [key |-> k, put |-> FALSE]

\* The location that the records of a history leave under a key, if any.
Records(h, k) == {n \in DOMAIN h : h[n].key = k}
HasFile(h, k) == Records(h, k) # {} /\ h[Max(Records(h, k))].put
Found(h, k) == h[Max(Records(h, k))].loc

\* The loop of setupDb over the records of a history.
Replay(h) == [k \in {k \in Keys : HasFile(h, k)} |-> Found(h, k)]

\* The index a start finds: the lowest name; -1 if there is none.
FindDb == IF DOMAIN dbs = {} THEN -1 ELSE Min(DOMAIN dbs)

\* Mutant: the names do not wrap around.
NextDb_NoWrap == currDb + 1

\* Mutant: the new index replaces the old one under its name.
NextDb_Same == IF currDb = -1 THEN 0 ELSE currDb

NextDb == (currDb + 1) % (MaxDbName + 1)

Init ==
  /\ up = TRUE
  /\ files = << >> /\ history = << >> /\ nextBlock = 0 /\ next = << >>
  /\ currDb = -1 /\ call = NoCall /\ stage = "no"
  /\ blocks = << >> /\ dbs = << >>
  /\ errors = 0 /\ crashes = 0

-----------------------------------------------------------------------------
(* Operations                                                              *)

Idle == up /\ stage = "no"

\* A record enters the history.
Record(r, fs) ==
  /\ Len(history) < MaxOps
  /\ history' = Append(history, r)
  /\ files' = fs


\* The tail of Put: values is f.next by then.
Add(k, v, m, values) ==
  LET loc == [block |-> nextBlock, pos |-> Len(values) + 1, meta |-> m]
  IN /\ Record(PutRecord(k, loc), Assign(files, k, loc))
     /\ next' = Append(values, v)

Fits(v) == Length(next) + Size[v] <= MaxBlock

Put(k, v, m) ==
  /\ Idle
  /\ Size[v] <= MaxBlock
  /\ Fits(v)
  /\ Add(k, v, m, next)
  /\ UNCHANGED <<up, nextBlock, currDb, call, stage, backend, errors, crashes>>

\* The value does not fit: writeNext comes first.
PutToNewBlock(k, v, m) ==
  /\ Idle
  /\ Size[v] <= MaxBlock
  /\ ~Fits(v)
  /\ Len(history) < MaxOps
  /\ call' = [op |-> "put", key |-> k, value |-> v, meta |-> m]
  /\ stage' = "block"
  /\ UNCHANGED <<up, files, history, nextBlock, next, currDb, backend,
                 errors, crashes>>

Link(dst, src, m) ==
  /\ Idle
  /\ src \in DOMAIN files
  /\ LET loc == [files[src] EXCEPT !.meta = m]
     IN Record(PutRecord(dst, loc), Assign(files, dst, loc))
  /\ UNCHANGED <<up, nextBlock, next, currDb, call, stage, backend,
                 errors, crashes>>

\* Mutant: the history is not told.
Delete_Unrecorded(k) ==
  /\ Idle
  /\ k \in DOMAIN files
  /\ files' = Restrict(files, DOMAIN files \ {k})
  /\ UNCHANGED <<up, history, nextBlock, next, currDb, call, stage,
                 backend, errors, crashes>>

Delete(k) ==
  /\ Idle
  /\ k \in DOMAIN files
  /\ Record(DeleteRecord(k), Restrict(files, DOMAIN files \ {k}))
  /\ UNCHANGED <<up, nextBlock, next, currDb, call, stage, backend,
                 errors, crashes>>

Sync ==
  /\ Idle
  /\ IF Length(next) > 0
     THEN call' = [op |-> "sync"] /\ stage' = "block"
     ELSE UNCHANGED <<call, stage>>
  /\ UNCHANGED <<up, files, history, nextBlock, next, currDb, backend, errors,
                 crashes>>

-----------------------------------------------------------------------------
(* writeNext and writeDb                                                   *)

\* The backend writes in place (fskv) and has begun with the file of this stage.
TearFile ==
  /\ up
  /\ \/ /\ stage = "block"
        /\ blocks' = Assign(blocks, nextBlock, << >>)
        /\ UNCHANGED dbs
     \/ /\ stage = "db"
        /\ dbs' = Assign(dbs, NextDb, Torn)
        /\ UNCHANGED blocks
  /\ UNCHANGED <<up, memory, errors, crashes>>

\* Mutant: the number is not taken.
NumberAfterBlock_Same == nextBlock

\* f.db.NextBackendFile++
NumberAfterBlock == nextBlock + 1

WriteBlock ==
  /\ up /\ stage = "block"
  /\ blocks' = Assign(blocks, nextBlock, next)
  /\ nextBlock' = NumberAfterBlock
  /\ stage' = "db"
  /\ UNCHANGED <<up, files, history, next, currDb, call, dbs, errors,
                 crashes>>

WriteDb ==
  /\ up /\ stage = "db"
  /\ dbs' = Assign(dbs, NextDb, Index(nextBlock, history))
  /\ IF currDb = -1 THEN currDb' = NextDb /\ stage' = "done"
     ELSE UNCHANGED currDb /\ stage' = "delete"
  /\ UNCHANGED <<up, files, history, nextBlock, next, call, blocks,
                 errors, crashes>>

\* Mutant: f.currDb moves on before the deletion.
DeleteDb_Moved ==
  /\ up /\ stage = "delete"
  /\ dbs' = Restrict(dbs, DOMAIN dbs \ {NextDb})
  /\ currDb' = NextDb
  /\ stage' = "done"
  /\ UNCHANGED <<up, files, history, nextBlock, next, call, blocks,
                 errors, crashes>>

DeleteDb ==
  /\ up /\ stage = "delete"
  /\ currDb \in DOMAIN dbs
  /\ dbs' = Restrict(dbs, DOMAIN dbs \ {currDb})
  /\ currDb' = NextDb
  /\ stage' = "done"
  /\ UNCHANGED <<up, files, history, nextBlock, next, call, blocks,
                 errors, crashes>>

\* writeNext returns nil, f.next is empty, and Put or Sync goes on.
Finish ==
  /\ up /\ stage = "done"
  /\ IF call.op = "put"
     THEN Add(call.key, call.value, call.meta, << >>)
     ELSE next' = << >> /\ UNCHANGED <<files, history>>
  /\ call' = NoCall
  /\ stage' = "no"
  /\ UNCHANGED <<up, nextBlock, currDb, backend, errors, crashes>>

\* The backend's call of this stage fails; Put or Sync returns the error and
\* what writeNext has changed so far stays.
Fail ==
  /\ up /\ stage \in {"block", "db", "delete"}
  /\ errors < MaxErrors
  /\ errors' = errors + 1
  /\ call' = NoCall
  /\ stage' = "no"
  /\ UNCHANGED <<up, files, history, nextBlock, next, currDb, backend,
                 crashes>>

-----------------------------------------------------------------------------
(* The process                                                             *)

Crash ==
  /\ up
  /\ crashes < MaxCrashes
  /\ crashes' = crashes + 1
  /\ up' = FALSE
  /\ files' = << >> /\ history' = << >> /\ nextBlock' = 0 /\ next' = << >>
  /\ currDb' = -1 /\ call' = NoCall /\ stage' = "no"
  /\ UNCHANGED <<backend, errors>>

\* Zip: setupDb with the whole history, or with its first n = rev + 1 records.
\* A torn index cannot be unzipped, and there is no store then.
Open(n) ==
  /\ ~up
  /\ up' = TRUE
  /\ currDb' = FindDb
  /\ IF FindDb = -1
     THEN /\ n = 0
          /\ UNCHANGED <<files, history, nextBlock>>
     ELSE /\ dbs[FindDb].whole
          /\ n \in 1 .. Len(dbs[FindDb].history)
          /\ history' = SubSeq(dbs[FindDb].history, 1, n)
          /\ files' = Replay(history')
          /\ nextBlock' = dbs[FindDb].nextBlock
  /\ UNCHANGED <<next, call, stage, backend, errors, crashes>>

\* Over a backend whose files are always whole, as the in-memory one.
WholeNext ==
  \/ \E k \in Keys, v \in Values, m \in Metas :
       Put(k, v, m) \/ PutToNewBlock(k, v, m)
  \/ \E dst, src \in Keys, m \in Metas : Link(dst, src, m)
  \/ \E k \in Keys : Delete(k)
  \/ Sync
  \/ WriteBlock \/ WriteDb \/ DeleteDb \/ Finish \/ Fail
  \/ Crash
  \/ \E n \in 0 .. MaxOps : Open(n)

WholeSpec == Init /\ [][WholeNext]_vars

\* Over any backend.
Next == WholeNext \/ TearFile

Spec == Init /\ [][Next]_vars

-----------------------------------------------------------------------------
(* Properties                                                              *)

Location == [block : Nat, pos : Nat \ {0}, meta : Metas]
HistoryRecord == [key : Keys, put : {TRUE}, loc : Location]
                 \cup [key : Keys, put : {FALSE}]

\* Every variable holds values of its type: the locations under keys, the
\* records of the history, the blocks and the indexes or their torn rest.
TypeOK ==
  /\ up \in BOOLEAN
  /\ DOMAIN files \subseteq Keys /\ Range(files) \subseteq Location
  /\ history \in Seq(HistoryRecord)
  /\ nextBlock \in Nat
  /\ next \in Seq(Values)
  /\ currDb \in -1 .. MaxDbName
  /\ call \in {NoCall, [op |-> "sync"]} \cup
       [op : {"put"}, key : Keys, value : Values, meta : Metas]
  /\ stage \in {"no", "block", "db", "delete", "done"}
  /\ DOMAIN blocks \subseteq Nat /\ Range(blocks) \subseteq Seq(Values)
  /\ DOMAIN dbs \subseteq 0 .. MaxDbName
  /\ \A i \in DOMAIN dbs :
       \/ dbs[i] = Torn
       \/ dbs[i] \in [whole : {TRUE}, nextBlock : Nat,
                      history : Seq(HistoryRecord)]
  /\ errors \in 0 .. MaxErrors /\ crashes \in 0 .. MaxCrashes

\* What a start after the death of the process would find.
SavedHistory ==
  IF FindDb = -1 \/ ~dbs[FindDb].whole THEN << >> ELSE dbs[FindDb].history

\* f.files always is what a restart would make of f.db.History, so that the
\* store in memory and the one loaded from its index cannot differ.
FilesMatchHistory == up => files = Replay(history)

\* What Get reads at a location, in f.next or in a block file; NoEntry stands
\* for a location with nothing there.
Stored(loc, inMemory) ==
  LET block == IF inMemory /\ loc.block = nextBlock THEN next
               ELSE IF loc.block \in DOMAIN blocks THEN blocks[loc.block]
               ELSE << >>
  IN IF loc.pos \in DOMAIN block
     THEN [value |-> block[loc.pos], meta |-> loc.meta]
     ELSE NoEntry

\* The stores that a history goes through, the empty one first.
Stores(h, inMemory) ==
  [n \in 1 .. Len(h) + 1 |->
     LET past == SubSeq(h, 1, n - 1)
     IN [k \in Keys |-> IF HasFile(past, k) THEN Stored(Found(past, k), inMemory)
                        ELSE NoEntry]]

KV == INSTANCE KVStore WITH
        log <- IF up THEN Stores(history, TRUE) ELSE << >>,
        saved <- Stores(SavedHistory, FALSE)

\* Blocks, locations and rotating indexes implement a map that remembers its
\* past: Get finds the value last put or linked wherever it has moved, a start
\* finds a whole past store and never a mixture, failed backend calls change
\* nothing, and what is saved changes only to what is in memory at that time.
Implements == KV!Spec

\* When writeNext has succeeded, the index that a start finds is the one just
\* written, whatever older indexes failed deletions and crashes have left.
WriteNextIsDurable == stage = "done" => SavedHistory = history

\* A block that the index in force refers to never changes, though numbers of
\* blocks whose index was never written are used again.
SavedBlocksUnchanged ==
  [][\A n \in DOMAIN SavedHistory : SavedHistory[n].put =>
       LET b == SavedHistory[n].loc.block
       IN b \in DOMAIN blocks' /\ blocks'[b] = blocks[b]]_vars

\* A whole index that a start would find is never lost, and an interrupted
\* write puts a torn one in front of it only where the names wrap around: name 0
\* is looked for first while the index in force still is the last one.
TornOnlyAtWrap ==
  [][FindDb # -1 /\ dbs[FindDb].whole =>
       /\ FindDb' # -1
       /\ dbs'[FindDb'].whole \/ currDb = MaxDbName]_vars

=============================================================================
