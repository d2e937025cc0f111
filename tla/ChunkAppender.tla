---------------------------- MODULE ChunkAppender ----------------------------
(***************************************************************************)
(* A file of appended chunks (chunkappender/chunkappender.go) with the     *)
(* WeightCache of inmem/weight.go in front of the store of chunks.  ReadAt *)
(* starts a goroutine for each chunk; WriteAt holds writeMu; ends is under *)
(* a lock of its own, so that a chunk is in the store before the file has  *)
(* it.  Chunks are numbered from 1 here.                                   *)
(***************************************************************************)
EXTENDS Integers, Sequences, FiniteSets, SequencesExt

CONSTANTS
  Readers, Writers,
  Payloads,     \* what is written, sequences of bytes
  MaxItems, MaxWeight,   \* of the cache
  MaxChunks, MaxReads    \* bounds: chunks that are put, calls of ReadAt

Byte == 0 .. 255

ASSUME ChunkAppenderAssumption ==
  /\ Payloads \subseteq Seq(Byte)
  /\ MaxItems \in Nat \ {0} /\ MaxWeight \in Nat \ {0}
  /\ MaxChunks \in Nat /\ MaxReads \in Nat

VARIABLES
  stored,     \* the chunks of the backend
  ends,       \* c.ends
  lru,        \* c.cache: records of a chunk's number and data, the front first
  writing,    \* per writer, its WriteAt
  writeMu,    \* who holds c.writeMu, a set of at most one
  reading,    \* per reader, its ReadAt
  puts, reads,
  panicked,   \* an index was out of range
  file,       \* history: the bytes that were written
  pastEnd     \* history: a range that begins at the end or goes past it was asked for

vars == <<stored, ends, lru, writing, writeMu, reading, puts, reads, panicked, file, pastEnd>>

NotWriting == [stage |-> "idle", off |-> 0, bytes |-> << >>]

\* fetching maps the chunks whose goroutines still run to what they have:
\* nothing, or data not yet in the cache ("fetched"), or data to copy.
NotReading == [stage |-> "idle", off |-> 0, end |-> 0, fetching |-> << >>, failed |-> FALSE,
               got |-> << >>]

Bytes(chunks) == FlattenSeq(chunks)
EndsOf(chunks) == [i \in DOMAIN chunks |-> Len(Bytes(SubSeq(chunks, 1, i)))]
Total == IF ends = << >> THEN 0 ELSE Last(ends)

Init ==
  /\ stored = << >> /\ ends = << >> /\ lru = << >>
  /\ writing = [w \in Writers |-> NotWriting] /\ writeMu = {}
  /\ reading = [r \in Readers |-> NotReading]
  /\ puts = 0 /\ reads = 0 /\ panicked = FALSE /\ file = << >> /\ pastEnd = FALSE

-----------------------------------------------------------------------------
(* WeightCache                                                             *)

Weight(list) == Len(Bytes([i \in DOMAIN list |-> list[i].data]))

\* Mutant: the limit on the items is not looked at.
Fits_Weight(list) == Weight(list) <= MaxWeight

Fits(list) == Len(list) <= MaxItems /\ Weight(list) <= MaxWeight

Places(b) == {i \in DOMAIN lru : lru[i].chunk = b}

\* What the dictionary finds under a chunk's number.
Cached(b) == {lru[i] : i \in Places(b)}

Others(b) == IF Places(b) = {} THEN lru ELSE RemoveAt(lru, CHOOSE i \in Places(b) : TRUE)

\* Add: to the front, and the oldest out until the limits are kept.
Added(b, data) ==
  LET all == <<[chunk |-> b, data |-> data]>> \o Others(b)
      kept == Max({n \in 0 .. Len(all) : Fits(SubSeq(all, 1, n))})
  IN IF Len(data) > MaxWeight THEN lru ELSE SubSeq(all, 1, kept)

-----------------------------------------------------------------------------
(* WriteAt                                                                 *)

\* The caller takes the size of the file (Stat, or sizes in Truncate) for the
\* offset; a payload of no bytes returns at once.
CallWriteAt(w, bytes) ==
  /\ writing[w].stage = "idle" /\ bytes # << >> /\ puts < MaxChunks
  /\ writing' = [writing EXCEPT ![w] = [stage |-> "lock", off |-> Total, bytes |-> bytes]]
  /\ puts' = puts + 1
  /\ UNCHANGED <<stored, ends, lru, writeMu, reading, reads, panicked, file, pastEnd>>

\* Mutant: the offset is not compared with the size.
Appends_Anywhere(w) == TRUE

\* off == nbytes, under writeMu.
Appends(w) == writing[w].off = Total

Lock(w) ==
  /\ writing[w].stage = "lock" /\ writeMu = {}
  /\ IF Appends(w)
     THEN /\ writeMu' = {w}
          /\ writing' = [writing EXCEPT ![w].stage = "put"]
     ELSE /\ writing' = [writing EXCEPT ![w] = NotWriting]
          /\ UNCHANGED writeMu
  /\ UNCHANGED <<stored, ends, lru, reading, puts, reads, panicked, file, pastEnd>>

\* Mutant: the chunk comes after all that are stored.
Stored_Append(bytes) == Append(stored, bytes)

\* The chunk newBlock, the first that the file does not have; the store
\* replaces what it has under the number.
Stored(bytes) == SubSeq(stored, 1, Len(ends)) \o <<bytes>>

Put(w) ==
  /\ writing[w].stage = "put"
  /\ stored' = Stored(writing[w].bytes)
  /\ writing' = [writing EXCEPT ![w].stage = "publish"]
  /\ UNCHANGED <<ends, lru, writeMu, reading, puts, reads, panicked, file, pastEnd>>

\* Put returns an error, whether it has stored the chunk or not.
FailPut(w) ==
  /\ writing[w].stage = "put"
  /\ stored' \in {stored, Stored(writing[w].bytes)}
  /\ writing' = [writing EXCEPT ![w] = NotWriting]
  /\ writeMu' = {}
  /\ UNCHANGED <<ends, lru, reading, puts, reads, panicked, file, pastEnd>>

\* c.ends grows, and WriteAt returns.
Publish(w) ==
  /\ writing[w].stage = "publish"
  /\ ends' = Append(ends, Total + Len(writing[w].bytes))
  /\ file' = file \o writing[w].bytes
  /\ writing' = [writing EXCEPT ![w] = NotWriting]
  /\ writeMu' = {}
  /\ UNCHANGED <<stored, lru, reading, puts, reads, panicked, pastEnd>>

-----------------------------------------------------------------------------
(* ReadAt                                                                  *)

\* c2b: the first chunk that ends after off; the last is the first from there
\* on that ends at or after end.  Either may be one more than there are.
FirstChunk(off) == 1 + Cardinality({i \in DOMAIN ends : ends[i] <= off})

\* Mutant: the chunk in which the range ends is left out.
LastChunk_Short(off, end) ==
  Max({FirstChunk(off), Cardinality({i \in DOMAIN ends : ends[i] < end})})

LastChunk(off, end) ==
  Max({FirstChunk(off), 1 + Cardinality({i \in DOMAIN ends : ends[i] < end})})

\* b2c
Begin(b) == IF b = 1 THEN 0 ELSE ends[b - 1]

Nothing == [has |-> "nothing", data |-> << >>]

CallReadAt(r, off, end) ==
  /\ reading[r].stage = "idle" /\ reads < MaxReads
  /\ pastEnd' = (pastEnd \/ off = Total \/ end > Total)
  /\ reading' = [reading EXCEPT
       ![r] = [stage |-> "read", off |-> off, end |-> end, failed |-> FALSE,
               fetching |-> [b \in FirstChunk(off) .. LastChunk(off, end) |-> Nothing],
               got |-> [i \in 1 .. end - off |-> 0]]]
  /\ reads' = reads + 1
  /\ UNCHANGED <<stored, ends, lru, writing, writeMu, puts, panicked, file>>

Running(r, b, has) ==
  /\ reading[r].stage = "read"
  /\ b \in DOMAIN reading[r].fetching
  /\ reading[r].fetching[b].has = has

Got(r, b, has, data) ==
  reading' = [reading EXCEPT ![r].fetching[b] = [has |-> has, data |-> data]]

Without(f, b) == [x \in DOMAIN f \ {b} |-> f[x]]

\* read: from the cache, or else from the backend.
Hit(r, b) ==
  /\ Running(r, b, "nothing")
  /\ \E e \in Cached(b) : Got(r, b, "data", e.data)
  /\ UNCHANGED <<stored, ends, lru, writing, writeMu, puts, reads, panicked, file, pastEnd>>

Get(r, b) ==
  /\ Running(r, b, "nothing") /\ Cached(b) = {}
  /\ b \in DOMAIN stored
  /\ Got(r, b, "fetched", stored[b])
  /\ UNCHANGED <<stored, ends, lru, writing, writeMu, puts, reads, panicked, file, pastEnd>>

FailGet(r, b) ==
  /\ Running(r, b, "nothing") /\ Cached(b) = {}
  /\ reading' = [reading EXCEPT ![r].fetching = Without(@, b), ![r].failed = TRUE]
  /\ UNCHANGED <<stored, ends, lru, writing, writeMu, puts, reads, panicked, file, pastEnd>>

AddToCache(r, b) ==
  /\ Running(r, b, "fetched")
  /\ lru' = Added(b, reading[r].fetching[b].data)
  /\ Got(r, b, "data", reading[r].fetching[b].data)
  /\ UNCHANGED <<stored, ends, writing, writeMu, puts, reads, panicked, file, pastEnd>>

\* The place in the range where the data of a chunk begin and end.
From(r, b) == Max({reading[r].off, Begin(b)})
To(r, b) == Min({reading[r].end, ends[b]})

\* What is cut off the data on either side (they may be those of a write that
\* failed, and of another length than the chunk has now).
CutLeft(r, b) == From(r, b) - Begin(b)
CutRight(r, b) == ends[b] - To(r, b)

\* No index is out of range: b2c's in c.ends, nor that of a cut.
InRange(r, b) ==
  b <= Len(ends) /\ CutLeft(r, b) + CutRight(r, b) <= Len(reading[r].fetching[b].data)

\* copy copies what there is and has room.
Copy(r, b) ==
  /\ Running(r, b, "data") /\ InRange(r, b)
  /\ LET d == reading[r].fetching[b].data
         part == SubSeq(d, CutLeft(r, b) + 1, Len(d) - CutRight(r, b))
         at(i) == reading[r].off + i - From(r, b)
     IN reading' = [reading EXCEPT
          ![r].fetching = Without(@, b),
          ![r].got = [i \in DOMAIN @ |->
            IF at(i) \in 1 .. Min({Len(part), To(r, b) - From(r, b)}) THEN part[at(i)] ELSE @[i]]]
  /\ UNCHANGED <<stored, ends, lru, writing, writeMu, puts, reads, panicked, file, pastEnd>>

Panic(r, b) ==
  /\ Running(r, b, "data") /\ ~InRange(r, b)
  /\ panicked' = TRUE
  /\ UNCHANGED <<stored, ends, lru, writing, writeMu, reading, puts, reads, file, pastEnd>>

\* wg.Wait is over.
Return(r) ==
  /\ reading[r].stage = "read" /\ DOMAIN reading[r].fetching = {}
  /\ reading' = [reading EXCEPT ![r].stage = IF reading[r].failed THEN "error" ELSE "done"]
  /\ UNCHANGED <<stored, ends, lru, writing, writeMu, puts, reads, panicked, file, pastEnd>>

\* The process dies and NewChunkAppender starts from the sizes of the chunks.
Restart ==
  /\ ends' = EndsOf(stored)
  /\ file' = Bytes(stored)
  /\ lru' = << >>
  /\ writing' = [w \in Writers |-> NotWriting] /\ writeMu' = {}
  /\ reading' = [r \in Readers |-> NotReading]
  /\ UNCHANGED <<stored, puts, reads, panicked, pastEnd>>

Next ==
  \/ ~panicked /\ \E w \in Writers :
       \/ \E bytes \in Payloads : CallWriteAt(w, bytes)
       \/ Lock(w)
       \/ Put(w)
       \/ FailPut(w)
       \/ Publish(w)
  \/ ~panicked /\ \E r \in Readers :
       \/ \E off \in 0 .. Total : \E end \in off .. Total + 1 : CallReadAt(r, off, end)
       \/ Return(r)
       \/ \E b \in 1 .. MaxChunks + 1 :
            Hit(r, b) \/ Get(r, b) \/ FailGet(r, b) \/ AddToCache(r, b) \/ Copy(r, b) \/ Panic(r, b)
  \/ ~panicked /\ Restart

Spec == Init /\ [][Next]_vars

-----------------------------------------------------------------------------
(* Properties                                                              *)

\* "ReadAt reads len(b) bytes from the file": a read without an error has the
\* bytes of the file, whatever is written, evicted or refused meanwhile, as long
\* as nobody has asked for more than the file has: a read past the end gets
\* into the cache what a failing write has put.
ReadsAreFileBytes ==
  \A r \in Readers :
    reading[r].stage = "done" /\ ~pastEnd =>
      reading[r].got = SubSeq(file, reading[r].off + 1, reading[r].end)

\* The chunks the file has are stored, in their order: a restart loses nothing
\* that was acknowledged, and offsets stay what they were.
FileIsStored ==
  /\ IsPrefix(file, Bytes(stored))
  /\ ends = EndsOf(SubSeq(stored, 1, Len(ends)))

\* What the cache has of a chunk is what is stored, under the same condition,
\* and the cache keeps its limits.
CacheIsSound ==
  /\ Len(lru) <= MaxItems /\ Weight(lru) <= MaxWeight
  /\ ~pastEnd => \A e \in Range(lru) : stored[e.chunk] = e.data
  /\ \A i, j \in DOMAIN lru : lru[i].chunk = lru[j].chunk => i = j

\* A write that succeeds is where its caller said, although the caller took the
\* size of the file without a lock.
WritesLandAtTheirOffset ==
  [][\A w \in Writers : Publish(w) => writing[w].off = Len(file)]_vars

=============================================================================
