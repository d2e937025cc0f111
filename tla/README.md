# A TLA+ model of invisiblefs

invisiblefs stores files on hosts that may disappear (Sia contracts) or in
directories of large blocks.  The modules here model its stateful parts, TLC
checks them on small instances, and TLAPS proves the central invariants for
every value of the constants.  Paths below are relative to `src/`.

## 1. Inventory

| Component | State | Operations | What is hard |
|---|---|---|---|
| Sector manager `siaform/manager/manager.go` | `db` (sectors, parity sets, pending list, contract history), `next`, `dataChan`, `setChan`, `uploadingSets`, `uploadingSectors` | AllocateSector, WriteSector, ReadSector, UploadAllPending, continueUploads, DumpDb/Load, Start/Stop, WaitForUploading; per set a `handleSet`, per sector an `uploadSector` goroutine | many goroutines around one mutex and two bounded channels; partial failure and retry of uploads; restart from an old dump |
| Sector encryption `siaform/crypto` | none | Read/Write keyed by the sector id | a sector must come back under the id it was written with |
| Sector cache `siaform/cache` | LRU cache, roots being read | Read, Write | readers of one root wait on a condition variable |
| Sia client `siaform/siaclient` | none | HTTP calls to the daemon | an answer may be lost after the host stored the sector |
| File layer `siaform/files` | files as lists of pieces over sectors, the sector in progress | Create, Open, Write, Read, GetAt, Link, Delete, Rename, DumpDb/Load | errors of an upload in the middle of a write; pieces of length 0; rename onto itself |
| Programs `siaform/main.go`, `sia3c/main.go` | two dump files | periodic save, shutdown | the dumps are saved one after the other |
| Key-value store over siaform `kvsia` | none of its own | Put, Link, Delete as lists of file operations | other requests run between the calls of each |
| Zipped key-value store `zipkvserver/zipkv` | map of keys to locations, history, the block in memory, rotating index names | Put, Get, Link, Delete, Sync, Zip | the order of block, index and removal of the old index; failures and crashes between them |
| Stores `zipkvserver/{kv,mem,fskv}` | a map; a directory | Put, Get, Link, Delete, Sync | files are written in place |
| HTTP server `zipkvserver/kvhttp`, `main.go` | none, but GET holds a slice of the store's buffer | GET, PUT, COPY, DELETE, LIST, shutdown | Has and Link of one request are two calls; the slice is written over; syncs that fail during the shutdown |
| zipkv tools | none | print the history; copy a store | none |
| Sparse files `sparse/{sparse,chain}.go` | data file, offsets file or chain of offsets, index | ReadAt, WriteAt, opening | data appended first, its record after it; overlapping chunks |
| Sparse index `sparse/llrbindex` | red-black tree of chunks | Write, Read | chunks partly covered by later ones |
| FUSE and command line front ends | none | glue | none |
| In-memory caches `inmem` | list and map, weight or expiration | Add, Get, Remove | bounds at the limit; "LRU" that is not |
| Chunk appender `chunkappender` | ends of the chunks, a cache | WriteAt, ReadAt with a goroutine per chunk | a chunk is stored before the file has it; arithmetic at chunk boundaries |
| Device in a directory `devindir` | block files, written once | Read, Write | ranges that go over a block boundary |
| gzip, pubkey, freestore | none | library calls; a stub | none |

How they interact.  `sia3c` serves `kvhttp` over `kvsia` over `files` over the
manager; `siaform` mounts `files` by FUSE.  The manager's client is the sector
cache over the encryption over the daemon client.  `zipkvserver` serves
`kvhttp` over `zipkv` over `fskv`.  All of these are direct calls; the only
concurrency is that of HTTP and FUSE handlers and of the manager's goroutines.
`sparse`, `inmem`, `chunkappender` and `devindir` are libraries of their own.

What makes the parts correct:

- manager: a written sector keeps its content; a set is uploaded by one
  goroutine at a time and never forgotten; its sectors lie on distinct hosts,
  so that losing as many hosts as there are parity sectors loses nothing; a
  restart from any whole dump preserves this; parity encodes the data it stands for;
- files: what was written is what is read, and both dumps together are a
  consistent state after any crash;
- zipkv: a map with a past, whose saved index always refers to whole blocks;
- sparse, llrbindex, chain: reads see the last write of every byte, and a file
  can be opened again unless a write failed;
- caches: the bounds hold, what is found is what was added last; a reader that
  sleeps is woken;
- kvhttp: what a reply is made of stays the value that was found while its block
  is filled; what was put before a signal is on disk at the exit.

## 2. Plan

Done, in this order:

1. `Manager` with its proofs.
2. `KVStore` and `ZipKV`, which implements it, with proofs of the refinement and
   of everything else the runs check of `ZipKV`.
3. `Files`, `KvSia` on top of it and `SiaPersistence` (the life of `sia3c`) on
   top of both, with their proofs.
4. `SectorRead` and `ManagerStop`, the parts of the manager that `Manager`
   leaves out, with their proofs.
5. `SparseIndex`, `Sparse`, the two kinds of file `Sparse1` and `Sparse2`, and
   `SparseFiles`, which is either, with their proofs.
6. `KVHttp` on top of `ZipKV`, `SectorCache` and `ChunkAppender`, all three with
   their proofs; `DevInDir`.

What composes what:

```
KVStore <- (refinement) - ZipKV - KVHttp          zipkvserver
Files - KvSia - SiaPersistence                     sia3c, over what Manager promises
Manager, SectorRead, ManagerStop, SectorCache      the manager and its client
SparseIndex - Sparse - Sparse1, Sparse2 - SparseFiles
ChunkAppender    DevInDir
```

Nothing of this plan is left; section 6, "What is not proved", and section 7 say
what is not covered and why.

## 3. Modules

### Manager.tla

| State | In the code |
|---|---|
| `next`, `sectors`, `sets`, `pending` | `m.next`, `m.db.Sectors`, `m.db.Sets`, `m.db.Pending` |
| `readFrom`, `failure` | `m.db.History`: whether ReadsNumber > 0, and LastFailure as never, recent (within a minute) or old |
| `mu` | who holds `m.mu` over several steps: handlePending and UploadAllPending; every other critical section is one step |
| `signals`, `dataChan` | WriteSector calls blocked before `m.dataChan <- ...`, and the signals in the channel |
| `newSets`, `allSets`, `resumed`, `oldSets` | the local slices of handlePending, UploadAllPending and continueUploads, and the argument of the last |
| `setChan`, `retrying` | `m.setChan`; the handleSet goroutines asleep or blocked before their resend |
| `uploadingSets`, `uploads` | `m.uploadingSets`, `m.uploadingSectors`, with the progress of the goroutine each entry stands for |
| `status`, `disk`, `torn`, `hosts` | the process and why it ended, the last dump that was whole, whether a later one is not, the hosts |

Actions carry the names of the functions; a function that releases the lock or
blocks in the middle is split there (`WriteSector` / `SignalData`;
`HandlePending` / `FormFullSet` / `SendNewSet`; `UploadAllPending` /
`FormAnySet` / `SendAnySet`; `ContinueUploads` / `SendResumed`;
`HandleSet` / `AssignContracts`, `RefuseSet` or `PanicOnHistory` /
`FinishUpload` / `ResendSet`; `HostStores` / `RecordUpload` or `FailUpload`).
A panic in any goroutine kills the process (`Die`), as in Go.

Abstractions, and why they lose nothing the properties tell apart:

- Data is a model value; parity is the record of its number and of the data it
  encodes.  Merkle roots identify id and content, since the id keys the cipher.
- The order in which contracts are offered depends on latencies and on
  `rand.Perm`: any injective assignment is possible.
- uploadSet reads its set's sectors before it takes `m.mu`; only its own
  uploadSector goroutines change their contracts, so reading and choosing are
  one step.
- The set loop's receive and the handler's entry into uploadSet are one step:
  nothing can happen to the set in between, as the handler holds its only token.
- `sector2set` is derived from `sets`.
- A contract's LastFailure that is recent becomes old in `MinutePasses`.
- `DumpDb` marshals without the lock, so that a dump is whole or torn: a whole one
  is the database of one instant, of a torn one only that it is torn is kept.
  The model ends where a start would load it (section 5, 2): the properties and
  theorems are about processes that started from whole dumps, and say nothing
  of what a torn dump holds.

Left out: the fixed contract name used for tests (manager.go:158), and the
history entry that reading a sector without contract creates under the empty
name.  recoverData is in `SectorRead`, Stop and WaitForUploading are in
`ManagerStop`.

### KVStore.tla and ZipKV.tla

`KVStore` is what a user of `kv.KV` relies on: a map that remembers the stores
it went through (`log`) and of which an earlier log (`saved`) is found when it
is opened, at its end or at any operation before.

`ZipKV` models `zipkv.go` over a backend of files.  All operations hold `f.m`,
so they are atomic except for the calls of the backend in writeNext and
writeDb: `WriteBlock`, `WriteDb`, `DeleteDb`, `Finish`.  Between any two the
call may fail (`Fail`; what has been changed stays, as in the code) or the
process may die (`Crash`).  `WholeSpec` is over a backend whose files are always
whole, as the in-memory one.  `fskv` overwrites files in place: `Spec` also has
`TearFile`, which begins a write, so that a crash or a failure leaves a torn
file; `KVHttp` is over this one.  `Open` is Zip, with or without `rev`.  A block is
the sequence of its values and a location is a position in it: the byte offset
is the length of what precedes.  The block being filled after a failure keeps
its old values in front, as `f.next` does.

The refinement (`KV`): `log` is the list of stores that the prefixes of
`f.db.History` stand for, each value read where Get would read it, in `f.next`
if the location names the next block and in the block file otherwise; `saved`
is the same for the index that findDb would find.  A crash closes the store.
The refinement is of `WholeSpec`: in place, a second attempt may tear an index
that a failed deletion had left in force, and the store goes back to the one
before.

### SectorRead.tla

One set on its way to the hosts, and ReadSector beside it.  `memory`,
`uploaded` and `lost` are the sectors with Data, those with a Contract, and
those whose host is gone.  recoverData looks at the set under the lock, sends
an event itself for each sector that it saw in memory (`SendSeen`), starts a
goroutine for each other one (`LoadOther`), and then receives; `reading` has what
was seen, whose event is still to be sent, and the events sent.  A load fails if
the host is lost, and may fail on a living host too (an error, a time-out, a bad
length: a glitch), the reader's own sector or a sibling; `missed` has the siblings
that glitched.  `ReadsSurviveLoss` is the promise of the whole manager: a read
fails only when the manager stops, or the sectors lost with their hosts and those
missed are together more than there is parity.  The group may be
shorter than `Ndata`, as UploadAllPending makes it.

### ManagerStop.tla

Start, the two loops, continueUploads, the handlers' resends, the drains and
the shutdown in the order of `sia3c/main.go`, with both channels and everyone
who sends on them.  Requests may write at any stage, also those that outlive the
listener; `late` remembers it.  What an upload does is in `Manager`; here it succeeds or
fails and the set is sent again.  The process starts from a dump that may hold
a full group pending and unfinished sets.

### Files.tla, KvSia.tla, SiaPersistence.tla

`Files`: `names` is `f.db.Files`, `files` the File objects (a link is a new
object with the same pieces), `progress` the sector in progress with its id,
`sectors` the manager as its interface promises it, `handles` the open files.
AddSector runs without `fs.mu`, so a long write is two steps (`AddSector`,
`FinishAdd`); a short one holds it.  `FinishAdd` gives the file its piece and its size in
one step, where the code's two assignments could have a dump of the file layer in
between (files.go:306-309): that dump would show a request under way with the
piece and the size before it.  Seek followed by Read, as `GetAt` and the server of
`siaform` do, is `ReadAt`, which takes the offset as an argument.  `Part` is Read of a piece, `Add` one turn of
its loop, `ReadAt` the loop over a range and `Get` over the whole file.  `written`
remembers what each object was given.

`KvSia` makes each operation the list of the calls of `Files` it makes (`todo`),
and a step is one call; other clients' calls come in between.  Assumed: requests
that write one key do not overlap, so that no two handles write one file (the
code gives its list of pieces no lock); the source of a Link may change under
it.

`SiaPersistence` wraps both into the program: `save()` with its two halves, the
periodic one and those of the shutdown, requests that go on after the listener
is closed, a crash at any step, and a start from whatever the two files hold.
Two databases of one moment make the program serve again, with requests that
the dump had cut in half; from databases of different moments (`mixed`) the
model does not go on.

### SparseIndex.tla, Sparse.tla, Sparse2.tla, Sparse1.tla

`SparseIndex` is the index as operators: the tree is the set of its chunks, its
Floor and Ceil the nearest below and above; the recursion of the tree is the
library's.  `Sparse` has the state the two kinds of file share, the zeros that
WriteAt leaves out (`Trimmed`, `Skipped`) and the records of offsets, which are
differences to the record before.  A file is a sequence of cells; a varint is
one cell, a byte is one, so that an append that fails may leave any part of
its bytes.  `Sparse2` appends data, then its record to a second file.  `Sparse1`
appends one entry with the data, the records since its parent and a tail from
which the file is opened backwards; `chain` is the list of possible parents.
`ReadBack` is what the two loops of NewSparse1 make of the entry at a pointer and
of those its parents lead to; it parses the cells as the code does, also those of
a torn entry.  `Torn` says that a failed write has left a part of its entry.
`written` holds the bytes acknowledged; `limbo` those with the write that
failed, which a reopened file may have too; `zeroed` the bytes last written as
zeros, which WriteAt may leave out.  `SparseFiles` begins with either kind.

### SectorCache.tla

`cache.go`: a reader that finds its root in `inFlight` waits on the condition
variable (`asleep`), all wake at a broadcast and look again.  `lru` is the
CloserCache of `inmem/closer.go`.

### ChunkAppender.tla

ReadAt is split where it releases `endsMu`: finding the chunks, then for each
its goroutine's cache lookup, fetch, and copy.  WriteAt is split between the
caller's size, the lock, Put (which may fail and yet have stored the chunk) and
the end that makes the chunk part of the file.  The `WeightCache` of
`inmem/weight.go` is in it.  `pastEnd` remembers that a range was asked for
that begins at the end of the file or goes past it: the properties of reads are
about the others (section 5, 10).

### DevInDir.tla

The block arithmetic of Read and Write for every range, with block files that
are created by their first write and never opened for another.

### KVHttp.tla

Extends `ZipKV` with handlers: each calls the store (`call`), waits for the
steps of writeNext if its Put closes a block (`caller`), and a GET then digests
and sends what it holds.  That is a slice of `f.next`, of the bytes `bytes` of the
array: a value that a later Put appends shows in them if it falls on the same
bytes, as long as the array is that of `f.next`; append has to allocate a larger
one when `capacity` does not do.  A value has any number of bytes up to a block,
none included; what is larger is refused with 413.  `Signal`, the sync, the
closing of the listener and the exit are `zipkvserver/main.go`.

## 4. Runs

| Run | Bounds | Question |
|---|---|---|
| manager_groups | groups of 2+1, full or short, 2 values, 3 contracts, 1 failure, 1 contract with reads, channels of 1 | are sets and sectors lost, doubled or overwritten when everything interleaves; is the parity that of the group |
| manager_restart | 1 set of 1+2, 4 contracts, 1 failure, 1 restart from a whole dump | do sectors of a set share a contract, can 2 lost contracts lose data; does the proofs' invariant hold |
| manager_liveness | groups of 2, full or short, 1 failure, channels of 1, fair | is a full group always formed, is every set uploaded in the end |
| manager_stop | groups of 2, 4 writes at any stage, 1 failure, a dump with 2 pending and a set to resume, channels of 1, fair | is all uploaded when Stop returns and nobody wrote late; what keeps a shutdown from ending; does nobody wait for ever before |
| sector_read | a group of 2 where ndata is 3, 2 parity, 2 loads that fail on living hosts, fair | does a read survive as many losses and failed loads as there is parity; does it end, with all its goroutines |
| sector_cache | 3 readers of 3 roots, a cache of 2, 2 reads each, 1 write, fair | is one reader at a time after a root, is a sleeper woken, does every read end |
| sia3c | 2 clients, 2 keys, 2 requests, sectors of 3 bytes, values of 0, 1 and 2 bytes, 1 periodic save and those of the shutdown, 1 restart | do keys have both files with what was put, is every range of an ordinary file read as written or refused, is an orderly exit durable |
| zipkv_store | whole files, 2 keys, an empty and a block-filling value, 3 records, 2 index names, 1 failure, 1 crash | does ZipKV implement KVStore; is the index found the last one written, are its blocks untouched |
| kvhttp | 2 handlers, 1 key, 4 operations, 1 GET, values of 0, 1 and 2 bytes in blocks of 2, 2 index names, files in place, 1 failed call and 1 failed read, 1 signal, 1 crash | does a GET hold what it found until the block is closed; are the last value of some bytes put before the signal and all before it on disk at the exit; where may an index be torn |
| sparse | 4 bytes, 4 writes of 1 to 3 bytes and of zeros, failed appends cut at any cell, both kinds of file | do reads give the last write, before and after opening; which files are refused; is the chain restored, is the walk as short as it should be |
| chunk_appender | 2 readers, 2 writers, 2 chunks, 2 reads, a cache of 1, failed puts, restarts | do reads have the bytes of the file; is what was acknowledged stored, in order, where its writer said |
| dev_in_dir_across | 8 bytes in blocks of 3, requests over several blocks | *violated*: see section 5, 1 |

Every passing run explores its whole state space, the longest in about three
minutes with two workers.

Why these bounds.  A set's way through the manager is the same for every set,
and sets meet in pairs (in a channel, over a contract), so two sets and
channels of capacity one make every pair of goroutines block and overtake.
One failed write is one retry; its retry meets the second set.  One restart
from any earlier whole dump covers every mix of dumped, lost and repeated work,
as a second restart starts from a state of the same kind.  Four contracts leave a
set of three one to choose.  Index names wrap around with two names as with
ten; in kvhttp four operations make them wrap after the sync, by handlers that
outlive the listener (more signals are for the theorem).  Blocks of two bytes let a
value of one byte be appended while a GET holds a slice of the one before it, with
or without room in the array, and let both be in a block that is closed under
the GET.  Four writes to a manager whose groups have two form two sets after the
set loop has ended: the second finds the channel full.  Two loads fail on living
hosts: the reader's own, which makes it recover, and a sibling.  Contracts, values,
keys, clients and handlers are symmetric where a cfg says so: no operator orders
them and the runs with symmetry check no liveness.  The view of kvhttp leaves out
the status of an answer, which nothing reads.

Of the file layer: with sectors of 3 bytes a write of 1 byte is short and one
of 2 has a sector of its own (95% of 3 is 2); two requests make up to four
short writes, of which three fill a sector and the fourth hands it over.  One
periodic save can fall between any two calls, and the two of the shutdown
around the hand-over.  The sparse files need three writes: two that overlap
and one over both, at every offset, so that a chunk is split, cut on either
side, and replaced; the fourth gives the chain its third level and is one that
comes after a failed one and an opening.  The threshold of 100 zeros is 1.  A
third reader is what a single wakeup would leave asleep.  Two chunks are what a
read can go over and what two writers contend for.  Eight bytes in blocks of
three have a short last block and a range over all three.

Deadlock is not checked for the manager: when all sectors are written and
uploaded it waits for clients, and a process that died stays down once the
bound on restarts is reached; that nobody waits for ever is what the liveness
runs say.  It is checked in zipkv_store.  The other modules take a bounded
number of requests and rightly stop after them: their runs do not check it, and
where somebody may wait for somebody a liveness property says that he does not
for ever.

Fairness (`Manager!Fairness`).  Every goroutine that can go on does: weak
fairness of the loops, of the upload steps and of the passing of a minute.
Sends on a bounded channel have strong fairness each: Go's channels serve
blocked senders in order.  `AssignContracts` has strong fairness too: uploadSet
is tried again every second, and the daemon is assumed to offer enough usable
contracts again and again while the set is tried; without that nothing can be
uploaded.  No fairness is assumed of clients, of failures, of the host's losing
an answer, or of UploadAllPending being called.

`SectorRead`: weak fairness of each reader's steps and of each goroutine that
loads a sector (the client answers or times out).  `ManagerStop`: weak fairness
of the loops, the shutdown, the drain and the uploads, strong fairness of each
kind of send, as above; none of clients or failures.  `SectorCache`: weak fairness
of each reader's steps (the daemon answers, a mutex is given in the end);
none is needed of the wakeup, as Broadcast wakes all.

## 5. Where code and documents differ

A run shows the first:

1. coords gives a length, Read and Write of `devindir` use it as the end of a
   slice: requests that go over a block boundary lose what is after the first
   block, or panic (devindir.go:177; run dev_in_dir_across).

Seen while modelling; the runs go around these, and the properties say how:

2. `DumpDb` of the manager marshals the database without the mutex whose comment
   says that it guards it (manager.go:42, 135).  A dump during which something
   changes may have a sector with neither data nor contract, or a set that names
   sectors the dump does not have.  `Manager` has such dumps (`torn`) and does not
   go on from a start that loads one.
3. `uploadSet` converts the LastFailure of every offered contract and panics if
   it cannot (manager.go:584-588), but a history that `load` made for a read has
   none (`NilTimestamp`); and ReadsNumber 0 divides by zero when two candidates
   with a failed write are sorted (`ZeroReads`).  Both are steps of `Manager`
   (`PanicOnHistory`): the process dies, and what it promises holds around it.
4. The drain "to unblock goroutines" happens once (manager.go:379-386): who
   writes after the listener was closed waits for ever, and a full `setChan`
   keeps Stop from returning.  manager_stop has such writers: `ShutdownEnds` says
   that a shutdown ends or comes to this state (`Hung`), and it fails without that
   exception.
5. A write of no bytes stores a piece of length 0, which Read takes for a whole
   sector (files.go:208, 292).  A PUT without metadata makes one, which is
   harmless as the only piece of its file (`Readable` in `KvSia`); so is an empty
   value, and sia3c has those.  Reads of other files with such a piece, which a
   client of FUSE can make, may give bytes of other files: `ReadsAreHonest` and
   `GetReturnsWritten`, and so `RangesAreHonest` and its theorem, are about ordinary
   files, which have none.
6. After a start from databases of different moments the manager may refuse the
   sector in progress; Write drops the error and the buffer outgrows a sector
   (files.go:275-276).  `SiaPersistence` ends there (`mixed`).
7. zipkv's `Sync` writes nothing when `f.next` is empty, so deletions, links and
   empty values since the last block are not saved by it, where
   zipkvserver/README.md:18 says that the index is written in the end.
   `ExitSavesPuts` is about the last value of at least one byte put before the
   signal and what came before it.  And a block that no
   index counts yet is overwritten after a crash, where line 17 says that blocks
   are not changed; no index in force refers to it (`SavedBlocksUnchanged`).
8. WriteAt of sparse files leaves out zeros at a "new place" also where data is
   stored, if a gap longer than the write follows it (sparse.go:292): the old
   bytes stay.  `ReadsLastWrite` excepts the bytes in `zeroed`.  Index.Write of no
   bytes removes the rest of the last chunk (llrbindex.go:84-111); no payload of
   the run is empty, and the theorems are about writes of at least one byte.
9. CloserCache "provides LRU", but Get leaves the entry where it is
   (closer.go:17, 77-85), as `SectorCache` has it.
10. ReadAt of `chunkappender` at or past the end panics while a chunk is stored
    and not yet part of the file (chunkappender.go:75), and may put data of a
    write that failed into the cache (`pastEnd`).
11. A GET of `kvhttp` sends a slice of the buffer that later PUTs fill again once
    the block is closed, so that it may have other bytes than its ETag
    (zipkv.go:124, 206); `HeldIsStored` ends with the block.  A key whose block
    cannot be read is answered with 404 (kvhttp.go:132).  A copy may have the
    metadata of one version and the value of another (kvhttp.go:197).

`TornOnlyAtWrap` states that an index in force is covered by a torn one in one
case only, when names wrap around over files written in place (`fskv`): findDb
then takes the torn one.  A handler that outlives the listener can do this when
`log.Fatal` ends the process under it (main.go:74): the next start finds no
store, although zipkvserver/README.md:75 says to stop the server to prevent data
loss.  `ExitSavesPuts` says that this is the only way: what it promises is in a whole
index, and nothing but a torn index 0 is in front of it.

## 6. Proofs

### The manager

Assumed: `ManagerAssumption` (Ndata and ChanCap positive, the other bounds
natural numbers, the empty marks outside of what they mark, finitely many
contracts, as the daemon lists them).  Values and all bounds are arbitrary.

Type correctness is not inductive by itself: that a set's ids name sectors
needs that sets and pending lists are well formed in the last whole dump as well, as a
restart copies it, and an upload's record needs the set it is for.
`InductiveInvariant` in `Manager` is the whole; of the disk it speaks of `disk`, the last whole dump, and of
the contents of a torn one nothing is assumed or proved.  TLC checks it in the run
manager_restart, and it is proved in layers, each using those before:

1. `ManagerProofs`: `Base` = types, `Placed` (pending sectors are filled, listed
   once and in no set; sets are disjoint and have no empty sector) for memory
   and for the last whole dump, and `UploadsOK` (who is being uploaded belongs to a set
   being uploaded, has data and no contract).  Theorems `BaseInvariant`,
   `Typing`.  The central lemma is `FormedSet`: what forming a set does to a
   well-formed database.
2. `ManagerProofs`: `TokensOK` says that the seven places a set can be in on its
   way to the hosts are pairwise disjoint and hold it at most once;
   `NoneForgotten` and `AllMissingUploaded` say that an unfinished set is in one
   of them.  A step moves a set from one place to another (lemmas per move).
   What separates continueUploads from the sets formed after the start is the
   conjunct `oldSets > 0 => ... j > oldSets`: its argument is the number of
   sets at Start, so that nothing on its way then is below it.  Theorems
   `TokenInvariant`, `NeverParallel` (property `NoParallelUpload`) and
   `SetsKeepTokens` (property `EverySetHasItsToken`).
3. `ManagerProofs`: `Separated` for the last whole dump and `DistinctContracts` for memory.
   It needs that a set is chosen contracts for by one goroutine, with no upload
   of it under way, which layer 2 gives.  Theorem `ContractsAreDistinct`.
4. `ManagerProofs`: `DataInv` = `DataOK` for memory and for the last whole dump, and
   `AnsweredIsStored`.  `DataOK` speaks of the content of a sector, which is its
   data or what its root stands for, so that dropping the data after an upload
   changes nothing (`ContentStays`), and a set stays as it was formed where the
   content of its sectors stays (`SetStays`).  Theorems `ContentIsKept`
   (an action property), `ParityMatches` and `SectorsHaveTheirPlace`.
5. `ManagerProofs`: any `Nparity` contracts are lost.  As the contracts of a set
   are distinct, its sectors map one to one into the contracts, and those that
   are lost are at most as many as the contracts lost.  Theorems
   `LossIsSurvived` (property `SurvivesContractLoss`, of the running process) and
   `InductiveHolds`.

### Reads and the shutdown

`SectorReadProofs` assumes `SectorReadAssumption`; readers are any set, and the
group has any size up to Ndata.  What the reader counts on is `Accounted`: of each
sector of the set it has the data, or a goroutine still loads it, or an event
brings it, unless its host is lost or its load glitched (`missed`); `EventsAddUp`
counts one event for each, so that a failure after the last one means more of
these than parity.  Uploads
and losses of hosts meanwhile keep all of it (`SetStep`).  Theorems
`RecoveryInvariant`, `ReadsSurvive` (property `ReadsSurviveLoss`) and, from
`EventsFit`, `SendersHaveRoom`: the goroutines of a read that returned early can
still send, none is left behind.

`ManagerStopProofs` assumes `StopAssumption`.  Unless a request has written late, nothing
is pending from UploadAllPending on and no set is without contracts from
WaitForUploading on, for any capacity and any dump.  Theorem
`ShutdownLeavesNothing` (property `ShutdownUploadsAll`).

### The zipped key-value store

In `KVHttpProofs`.  Assumed: `ZipKVAssumption` (a block is not empty, there are at least two index
names, the bounds are natural numbers). The theorems are about `Spec`, with torn
files; `WholeIsSpec` takes them over to `WholeSpec`. The code has ten names;
that there are two is used, as a single name would be overwritten in place.

1. The invariant `Typed` has `files = Replay(history)` also while
   the process is down, and types for torn indexes.  `Replay` takes the last
   record of each key, so the proof rests on greatest elements (`MaxOfBounded`,
   by well-founded induction) and on `AppendedRecord`: a new record decides its
   own key and no other.  Theorems `Typing`, `FilesAreHistory`.
2. The names: `NamesAt` says that beside the index in force there
   are at most the next one and, left by a crash at the wrap, the last one.
   It is stated of `currDb` while the process is up and of what findDb would
   find while it is down; a crash passes from one to the other (`LowestName`).
   Theorem `WriteNextDurable`.
3. The numbers of blocks: `IndexesOK` (a whole index refers to
   blocks below its own count, all of them written, whichever name it has) and
   `ForceOK` (the index a start would find counts no more blocks than the
   process).  As blocks are only written under the process's count, no saved one
   is touched.  Theorems `SavedBlocksKept`, `TornAtWrapOnly`.  The property
   `TornOnlyAtWrap` is checked in the run kvhttp, where files are written in
   place.
4. The refinement.  The map after each record of the history is `Stores` of it,
   with values read through their locations; so `PlacesInv` adds to the layers
   above that every location of the history is in `f.next` or in a block file
   (`HistoryPlaced`), that those of the saved index are in block files
   (`SavedPlaced`), and that no index is torn (`AllWhole`, the assumption of
   `WholeSpec`).  A new record is a new map in the log and changes none before it
   (`RecordStep`, `LinkStep`, `DeleteStep`), writing a block moves values and
   changes no map, writing an index saves the log, a crash drops the log
   (`CrashStep`), and opening takes a prefix of what was saved (`OpenStep`).
   Theorem `StoreIsMap` (property `Implements`).

### The HTTP server

In `KVHttpProofs`.  Assumed: `ZipKVAssumption` and `KVHttpAssumption` (the marks of
who waits are no handlers, the bounds are natural numbers).  Handlers are any set,
values have any size, none included.  A step of the server is one of the store or leaves it alone
(`StoreSteps`), so what is proved of `ZipKV` holds of it: theorems `ServesStore`
and `ServerTearsAtWrapOnly` (property `TornOnlyAtWrap`).

1. `HandlersInv` = the numbers of blocks as above; `FilesPlaced`, the location of
   every name is in the filled block or in a block file; the kinds of requests;
   who waits for writeNext; and `GetsOK`: a GET that is to read a file finds there
   what it has seen, as the file is below the filled block and is not written
   again, and one with a slice of `f.next` holds bytes before its end
   (`BytesInside`), which append does not touch until the block is closed.  Lengths
   are sums over the values, which the community modules define by a fold;
   `SumExists` to `LengthAppend` take them one value at a time.  Theorems
   `HandlersInvariant` and `GetsHoldStored` (property `HeldIsStored`).
2. `ShutdownInv`: when `f.next` has no bytes the index in force has the last put of
   at least one byte and all before it (`Covers(lastPut)`), and from the successful
   sync on it has the last such put before the signal (`Covers(promised)`).  A put
   of no bytes leaves both as they are.  This needs that a store which is not
   opened again has no other index than the one in force and the next, both
   prefixes of the history (`IndexesFollow`).  Theorems `ShutdownInvariant` and
   `PutsAreSaved` (property `ExitSavesPuts`).

### The files and keys of sia3c

In `SiaPersistenceProofs`.  Assumed: `FilesAssumption`, `KvSiaAssumption` and
`PersistenceAssumption` (a sector has at least two bytes, values and metadata are
sequences that fit a sector, the bounds are natural numbers).  Clients, keys,
values and the number of requests, saves and starts are arbitrary.

1. Read is a fold over the pieces, which the community modules define by
   recursion.  `ReadUnfolds` and `ReadPasses` (by a least counterexample) take it
   one piece at a time; `PartGives` is what one piece gives, `AddGives` one turn
   of the loop, `ReadGives` the whole range.
2. `FileFine`: the pieces of a file, laid end to end, have the bytes that were
   written, each in a sector that is in progress or with the manager; a piece of
   no bytes is the exception (section 5, 5).  Sectors in use only grow
   (`Grows`: the sector in progress gets more bytes, is padded and handed over, a
   new id is used), and what a piece names in them stays (`GrowsFine`).  So each
   call of the file layer keeps `FilesInv`, also an AddSector under way.
   Lemma `FilesRead` has what follows for reads.
3. `KeysInv` says of every client how far its request has come: `Putting`,
   `Linking` or `Deleting`, with what is in the two files of its key at that
   point.  A key is written by one request at a time, so a call leaves the files
   of all other keys and the requests of all other clients as they are (`Frame`,
   `StepKeeps`), and one lemma for each kind of call has the rest (`OpenKeeps` to
   `DeleteKeeps`).
4. `PersistenceInv` has both, unless the databases are of different moments, and
   carries them over saves and starts: the database of the files on disk is one
   that was whole when it was dumped (`DumpFine`), with the sectors that the
   manager had then.  `ExitInv` follows the shutdown: what has been handed over
   and saved, as long as no request comes late.

Theorems `SavesAreReadable` (property `WholeSavesAreReadable`), `StoreStaysWhole`
(`StoreIsWhole`), `RangesReadAsWritten` (`RangesAreHonest`) and
`OrderlyExitsAreDurable` (`ExitIsDurable`).

### The sector cache

Assumed: `SectorCacheAssumption`; readers and roots are arbitrary sets.  The
invariant in `SectorCacheProofs` has four parts: types of the calls, `inFlight`
is the set of the roots of the readers inside, at most one reader is inside for
a root, and whoever sleeps is in the loop and his root is in flight.  A reader
leaves with a broadcast, so nobody sleeps for a root that is no longer in
flight.  Theorems `ReadersAreSerial` (property `OneReaderPerRoot`) and
`NoWakeupIsLost` (property `SleepersAwaitSomebody`).

### Sparse files

Assumed: `SparseAssumption` (payloads are sequences of numbers and none is
empty, as a write without bytes spoils the index: section 5, 8).  Size, payloads
and the number of writes are arbitrary.

1. The index, for any set of chunks that share no byte.  A write keeps of each
   old chunk one or two parts (`PartOf`) at the same places of the data file
   (`Kept`), and these share no byte with the new chunk.  Theorems
   `WriteKeepsChunksApart`, `WriteOverlays` (the range is at its new place, every
   other byte where it was) and `ReadFindsStored` (looking at the one chunk below
   finds the byte).
2. What is shown of any data through any index: appending shows nothing
   (`ShownGrows`), and a write shows its bytes and leaves the others
   (`ShownWrite`).  The zeros that WriteAt leaves out of a payload are counted by
   cardinalities; that they end at the first and the last byte that is none is
   `ZerosAround`, and `WriteAgrees` has what follows for reads.
3. putOffsets is a fold, which the community modules define by recursion on the
   set of places.  `PutExists` (there is such a function, by a least
   counterexample), `PutLocal` and `OffsetsAppended`: reading one record more is
   one more write to the index.
4. `Shared`, what both kinds of file keep: the index names acknowledged data
   only, and reads agree with what was written, for each step of `Sparse`.
5. `Two`: unless a write has failed, loading the offsets gives the index in
   memory; when one has, and the sizes of the files agree, it gives that index or
   the same with the write that failed (`LoadsFine`).  The invariant needs both:
   the process goes on reading after a failure, and the next start loads what is
   on disk.  `FailOffsetsTwo` is where it matters: of the three numbers of a
   record none is on disk, or all, or the count is no multiple of three, and with
   none the data file is longer than the records say.  Theorems
   `TwoFilesInvariant`, `TwoFilesIndexed` (property `IndexIsSound`),
   `TwoFilesReadWrites` (`ReadsLastWrite`) and `TwoFilesOpen`
   (`OpensUnlessTorn`), all for files of two files.
6. Numbers, for files of one file.  `pow2` is a recursive function; that it
   solves its recursion, division with remainder, and that a number lies between
   two powers go by least counterexamples.  `Low(m)` is the lowest bit of m:
   m - `Low(m)` has a greater lowest bit or is zero (`LowRises`), and one bit less
   (`BitsLess`).  `Cleared(k, j)`, the last number up to k that 2^j divides, is
   what ties the chain to the entries: the parent of entry k + 1 is
   `Cleared(k, j + 1)` for the lowest bit j of k + 1 (`ClearedParent`), or there
   is none, and then k + 1 is a power and the chain grows by a level
   (`ChainGrows`).  So push and parent never panic (`ChainParent`,
   `ChainPushed`).
7. `LogOf(at, d, o, k)`: the data d is k entries with their headers at `at`, each
   with the distance to its parent's header and the part of the records o since
   the parent, and it ends with the tail of the last one.  `ReadBackIs` shows
   that the recursion of `ReadBack` is well-founded on every file, also torn
   ones; `LogReadBack` goes over the entries by their least counterexample:
   reading back entry i gives the first i records, an element and a size for
   each bit of i, and among these the last entry as large as 2^j is
   `Cleared(i, j)` (`ElementsRead`).  Theorem `LogOpens`, which has no
   assumption on bytes: a start on k entries succeeds, loads all records, reads
   as many entries as k has bits, and restores the chain of all k.
8. `One`: unless a write has failed, there is an `at` with the log, the chain and
   the index of all entries pushed; when one has, and its entry is not torn,
   there is a log that loads fine.  `EntryAppends` takes a write apart: its
   entry makes a longer log (`LogAppended`), its record one more write to the
   index.  Theorems `OneFileInvariant`, and for either kind of file
   `FilesIndexed`, `FilesReadWrites`, `FilesOpen`, `FilesChain`
   (`ChainHasLatest`) and `FilesWalk` (`WalkIsShort`).

The theorems of 8 have the hypothesis `[]TornRefused`: no start takes a torn entry
for a whole one.  As long as no write fails it holds of itself
(`FilesWithoutFailures`, which is for any payloads).  After a failed write it
depends on the bytes: the last four cells that happen to be on disk are read as a
tail, and a payload may look like the end of an entry.  The run checks it for
its payloads, cut at every cell (`OpensUnlessTorn` says that one file opens if
and only if it is not torn).  Of that property `FilesOpen` proves the other
half: what is not torn opens.

### The chunk appender

Assumed: `ChunkAppenderAssumption` (payloads are sequences of bytes, the limits of
the cache positive).  Readers, writers, payloads and bounds are arbitrary.

1. What FlattenSeq gives, which the community modules define by recursion on the
   length, and the ends of the chunks: the bytes of one chunk more are those
   before and the chunk's (`BytesOfAppend`, `EndsOfAppend`), and `Follow` says
   what the code relies on: a chunk begins where the one before ends, ends
   increase, chunk b has the bytes from its start on, and every place of the
   file is in a chunk.  As the library's induction theorems cannot be used, each
   of these goes by a shortest counterexample (`LeastOfNat`).
2. `StoredInv`: the store has the chunks of the file and at most one more, which a
   put under way or a failed one left, and who has writeMu writes at the end of
   the file.  Theorems `FileStaysStored` and `WritesLand`.
3. `RangeIsCovered`: the chunks that c2b gives are the file's, overlap the range
   and cover it.
4. `ChunkInv` adds `CacheOK` (types, limits, one entry for a chunk, and the chunk's
   data) and, for each read, `Serves`: every place of its range is in a chunk
   whose goroutine still runs, or has the byte of the file.  A write only makes
   the file grow (`Grows`), which keeps both (`GrowsKeeps`); a copy puts all
   bytes of its chunk that the range has (`CutPlaces`).  Theorems
   `CacheHasStored`, `ReadsHaveFileBytes` and `PanicsPastEndOnly`.

All but the first two theorems are about files of which nobody reads at the end
or past it: such a read gets what a failing put has left (section 5).

### What is not proved

Every safety invariant and every action property that a passing run checks is
the property of a theorem.  Not proved are:

- that a start refuses a torn entry of a file of one file, the hypothesis of the
  theorems about it (see "Sparse files"): a proof would need an assumption on
  the payloads that the code does not justify;
- everything under fairness (the reads and the shutdown that end, the sleepers
  that are woken), which is out of the prover's reach;
- anything about `DevInDir`, whose run shows a violation.

Where a model computes by recursion or with a fold (the pieces of a file, the
offsets, the powers, the walk along the parents), induction over data is done by
hand: the function that the recursion defines is shown to exist, and what holds
of its values is shown by a least counterexample.

## 7. Not modelled

- `siaclient`: HTTP to a daemon outside of the repository; the modules above it
  model what its interface may answer.
- FUSE and command line front ends (`sparsefuse`, `sparsetool`, `devindirtool`,
  the handler of `siaform`), the zipkv tools: glue without state of their own.
- gzip, pubkey, crypto: library calls.  freestore: a stub.  The generated
  protobuf code.
- The listing of keys in `kvhttp` reads Go maps beside writers without a lock,
  which may end the process; no document says what it should give.
- `siaform`'s saves in place (a crash in the middle leaves a torn database);
  `sia3c`, which renames, is modelled.
- Parsing of headers and limits in `kvhttp`; the closer of `CloserCache`; the
  cache with expiration of `inmem/inmem.go`, which nothing in the repository
  uses; Rename of `files`, which has no caller, and its List, which only reads.  (Seek,
  called by `GetAt` and by the server of `siaform`, is in the offset of `ReadAt`.)
- Bytes of a payload that imitate the tail of a `Sparse1` entry.

Each has its reason under "components" in PROJECT.json, and "hazards" there
lists what the code is exposed to, with the properties that cover it or the
reason why none does.
