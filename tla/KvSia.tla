--------------------------------- MODULE KvSia ---------------------------------
(***************************************************************************)
(* The key-value store of sia3c (kvsia/kvsia.go): a key is two files, one  *)
(* of metadata and one of data, and each operation is a list of calls of   *)
(* the file layer, between which other clients work.  Requests that write  *)
(* one key do not overlap (an assumption on the HTTP clients: then two     *)
(* handles never write to one file); the source of a Link may be written   *)
(* or deleted while it runs.                                               *)
(***************************************************************************)
EXTENDS Files

CONSTANTS
  Keys,
  Metas,        \* metadata of requests
  MaxRequests   \* bound: requests

ASSUME KvSiaAssumption ==
  MaxRequests \in Nat /\ \A m \in Metas : m \in Seq(Range(m)) /\ Len(m) <= SectorSize

VARIABLES
  wanted,       \* what it was asked for
  todo,         \* the calls a client's operation still has to make
  key,          \* the key it writes
  store,        \* history: key -> what completed requests have put there
  halved,       \* history: keys on which a Link failed half-way
  requests

kvVars == <<wanted, todo, key, store, halved, requests>>

Metadata(k) == <<"metadata", k>>
Data(k) == <<"data", k>>
KeyFiles == {"metadata", "data"} \X Keys

Call(f, name, arg) == [f |-> f, name |-> name, arg |-> arg]

\* Files.Put: OpenOrCreate and Write, which appends to what is there.
PutFile(name, p) == <<Call("open", name, p), Call("write", name, p)>>

\* Mutant: value and metadata change places.
PutCalls_Swapped(k, v, m) == PutFile(Metadata(k), v) \o PutFile(Data(k), m)

PutCalls(k, v, m) == PutFile(Metadata(k), m) \o PutFile(Data(k), v)

LinkCalls(dst, src, m) == Append(PutFile(Metadata(dst), m), Call("link", Data(dst), Data(src)))

DeleteCalls(k) ==
  <<Call("get", Metadata(k), << >>), Call("delete", Metadata(k), << >>),
    Call("delete", Data(k), << >>)>>

NoKey == "none"
Nothing == [op |-> "none"]

KInit ==
  /\ Init
  /\ todo = [c \in Clients |-> << >>] /\ key = [c \in Clients |-> NoKey]
  /\ wanted = [c \in Clients |-> Nothing]
  /\ store = << >> /\ halved = {} /\ requests = 0

\* A client begins an operation on k.
Begin(c, k, calls) ==
  /\ todo[c] = << >>
  /\ \A d \in Clients : todo[d] # << >> => key[d] # k
  /\ requests < MaxRequests
  /\ requests' = requests + 1
  /\ todo' = [todo EXCEPT ![c] = calls]
  /\ key' = [key EXCEPT ![c] = k]

KvPut(c, k, v, m) ==
  /\ Begin(c, k, PutCalls(k, v, m))
  /\ wanted' = [wanted EXCEPT ![c] = [op |-> "put", meta |-> m, value |-> v]]
  /\ UNCHANGED <<fileVars, store, halved>>

Has(k) == Metadata(k) \in DOMAIN names

\* kvhttp asks for the source first.
KvLink(c, dst, src, m) ==
  /\ dst # src
  /\ Has(src)
  /\ Begin(c, dst, LinkCalls(dst, src, m))
  /\ wanted' = [wanted EXCEPT ![c] = [op |-> "link", meta |-> m, src |-> src]]
  /\ UNCHANGED <<fileVars, store, halved>>

KvDelete(c, k) ==
  /\ Begin(c, k, DeleteCalls(k))
  /\ wanted' = [wanted EXCEPT ![c] = [op |-> "delete"]]
  /\ UNCHANGED <<fileVars, store, halved>>

-----------------------------------------------------------------------------
(* The calls of the file layer                                             *)

Busy(k) == \E c \in Clients : todo[c] # << >> /\ key[c] = k

\* What a completed operation leaves under its key: Put appends to both files,
\* Link appends to the metadata and replaces the data.
Held(k) == IF k \in DOMAIN store THEN store[k] ELSE [meta |-> << >>, value |-> << >>]
Completed(k, w) ==
  CASE w.op = "put" ->
         With(store, k, [meta |-> Held(k).meta \o w.meta, value |-> Held(k).value \o w.value])
    [] w.op = "link" ->
         With(store, k, [meta |-> Held(k).meta \o w.meta, value |-> Held(w.src).value])
    [] w.op = "delete" -> Restrict(store, DOMAIN store \ {k})

Ended(c) ==
  /\ key' = [key EXCEPT ![c] = NoKey]
  /\ wanted' = [wanted EXCEPT ![c] = Nothing]

\* The operation goes on to its next call, or is complete.
Return(c) ==
  /\ todo' = [todo EXCEPT ![c] = Tail(@)]
  /\ IF Len(todo[c]) > 1 THEN UNCHANGED <<key, wanted, store, halved>>
     ELSE /\ Ended(c)
          /\ store' = Completed(key[c], wanted[c])
          /\ halved' = IF wanted[c].op = "delete" THEN halved \ {key[c]} ELSE halved

\* The operation ends with an error.
Abort(c) ==
  /\ todo' = [todo EXCEPT ![c] = << >>]
  /\ Ended(c)
  /\ halved' = IF wanted[c].op = "link" THEN halved \cup {key[c]} ELSE halved
  /\ UNCHANGED <<fileVars, store>>

DoOpen(c, call) ==
  \/ Open(c, call.name) /\ Return(c)
  \/ /\ call.name \notin DOMAIN names       \* OpenOrCreate goes on to Create
     /\ todo' = [todo EXCEPT ![c][1].f = "create"]
     /\ UNCHANGED <<fileVars, key, wanted, store, halved>>

\* Nobody else makes a file of this key, so that Create finds none.
DoCreate(c, call) == Create(c, call.name) /\ Return(c)

DoWrite(c, call) ==
  \/ adding[c] = NotAdding /\ WriteShort(c, call.arg) /\ Return(c)
  \/ AddSector(c, call.arg) /\ UNCHANGED <<todo, key, wanted, store, halved>>
  \/ FinishAdd(c) /\ Return(c)

DoLink(c, call) ==
  \/ Link(call.name, call.arg) /\ Return(c)
  \/ call.arg \notin DOMAIN names /\ Abort(c)

\* Get of the metadata, whose error ends a Delete.
DoGet(c, call) ==
  \/ call.name \in DOMAIN names /\ Get(names[call.name]).ok
     /\ Return(c) /\ UNCHANGED fileVars
  \/ ~(call.name \in DOMAIN names /\ Get(names[call.name]).ok) /\ Abort(c)

DoDelete(c, call) ==
  /\ IF call.name \in DOMAIN names THEN Delete(call.name) ELSE UNCHANGED fileVars
  /\ Return(c)

Step(c) ==
  /\ todo[c] # << >>
  /\ LET call == Head(todo[c])
     IN CASE call.f = "open" -> DoOpen(c, call)
          [] call.f = "create" -> DoCreate(c, call)
          [] call.f = "write" -> DoWrite(c, call)
          [] call.f = "link" -> DoLink(c, call)
          [] call.f = "get" -> DoGet(c, call)
          [] call.f = "delete" -> DoDelete(c, call)
  /\ UNCHANGED requests

Request(c) ==
  \/ \E k \in Keys, v \in Payloads, m \in Metas : KvPut(c, k, v, m)
  \/ \E k, src \in Keys, m \in Metas : KvLink(c, k, src, m)
  \/ \E k \in Keys : KvDelete(c, k)
  \/ Step(c)

-----------------------------------------------------------------------------
(* Properties                                                              *)

\* A file that Get can return: see Ordinary; one empty piece is harmless.
Readable(f) == Ordinary(f) \/ Len(files[f].pieces) = 1

\* A key that nobody is writing is both of its files or none, unless a Link to
\* it failed after its metadata was stored, or a start cut off what wrote it.
KeyIsBothFiles ==
  \A k \in Keys : ~Busy(k) /\ k \notin halved =>
    /\ Metadata(k) \in DOMAIN names <=> Data(k) \in DOMAIN names
    /\ Has(k) <=> k \in DOMAIN store

\* Get returns what the completed requests on a key have put there (a second
\* Put to it is appended), though all keys share sectors and the requests on
\* other keys run in between.
GetReturnsStore ==
  \A k \in Keys : ~Busy(k) /\ k \notin halved /\ k \in DOMAIN store =>
    LET meta == names[Metadata(k)]
        data == names[Data(k)]
    IN Readable(meta) /\ Readable(data) =>
         Get(meta) = Answer(store[k].meta) /\ Get(data) = Answer(store[k].value)

=============================================================================
