--------------------------- MODULE SiaPersistence ---------------------------
(***************************************************************************)
(* The life of the program sia3c (sia3c/main.go): requests to the store of *)
(* KvSia over the files of Files, while the databases of the manager and   *)
(* of the files are dumped one after the other, every ten seconds and      *)
(* around the shutdown, and a start loads whatever is in the two files.  A *)
(* file is replaced by renaming (writeFile), so each of them is whole.     *)
(***************************************************************************)
EXTENDS KvSia

CONSTANTS
  MaxSaves,     \* bound: periodic saves begun
  MaxRestarts   \* bound: starts after a crash or an exit

ASSUME PersistenceAssumption == MaxSaves \in Nat /\ MaxRestarts \in Nat

VARIABLES
  disk,         \* manager.db and files.db; at: the sectors when files.db was dumped
  saver,        \* who is between the two halves of save(), under saveMu
  stage,        \* of the shutdown: serving, closed, saved, sent, exited, stuck
  saves, restarts,
  late          \* history: a request was served after the listener was closed

vars == <<fileVars, kvVars, disk, saver, stage, saves, restarts, late>>

\* files.Files.DumpDb: what a dump of the files holds, and the history of what
\* it holds.  The requests that are under way are cut in half by a start from it.
FilesDump == [names |-> names, files |-> files, progress |-> progress, written |-> written,
              store |-> store, halved |-> halved \cup {k \in Keys : Busy(k)}]

PInit ==
  /\ KInit
  /\ disk = [manager |-> sectors, files |-> FilesDump, at |-> sectors]
  /\ saver = "none" /\ stage = "serving"
  /\ saves = 0 /\ restarts = 0 /\ late = FALSE

Running == stage \notin {"exited", "mixed"}

\* A request, also one whose connection outlives the listener.
Serve ==
  /\ Running
  /\ \E c \in Clients : Request(c)
  /\ late' = (late \/ stage # "serving")
  /\ UNCHANGED <<disk, saver, stage, saves, restarts>>

\* The first half of save(): DumpDb and writeFile of the manager.
SaveManager(who) ==
  /\ saver = "none" /\ Running
  /\ IF who = "shutdown"
     THEN stage \in {"closed", "sent"} /\ UNCHANGED saves
     ELSE saves < MaxSaves /\ saves' = saves + 1
  /\ disk' = [disk EXCEPT !.manager = sectors]
  /\ saver' = who
  /\ UNCHANGED <<fileVars, kvVars, stage, restarts, late>>

\* The second half: DumpDb and writeFile of the files.
SaveFiles ==
  /\ Running /\ saver # "none"
  /\ disk' = [disk EXCEPT !.files = FilesDump, !.at = sectors]
  /\ saver' = "none"
  /\ stage' = IF saver = "periodic" THEN stage
              ELSE IF stage = "closed" THEN "saved" ELSE "exited"
  /\ UNCHANGED <<fileVars, kvVars, saves, restarts, late>>

\* SIGTERM: the listener is closed.
CloseListener ==
  /\ stage = "serving"
  /\ stage' = "closed"
  /\ UNCHANGED <<fileVars, kvVars, disk, saver, saves, restarts, late>>

\* Mutant: the databases are not saved again.
Send_Exits ==
  /\ stage = "saved" /\ saver = "none"
  /\ IF progress.data = << >> THEN UNCHANGED fileVars ELSE UploadSectorInProgress
  /\ stage' = "exited"
  /\ UNCHANGED <<kvVars, disk, saver, saves, restarts, late>>

\* The sector in progress goes to the manager, which uploads all it has and
\* stops; if it refuses the sector the goroutine waits for another signal.
Send ==
  /\ stage = "saved" /\ ~UploadPanics
  /\ IF progress.data = << >> THEN UNCHANGED fileVars ELSE UploadSectorInProgress
  /\ stage' = IF progress'.data = << >> THEN "sent" ELSE "stuck"
  /\ UNCHANGED <<kvVars, disk, saver, saves, restarts, late>>

\* Mutant: the sector in progress is not loaded.
Load_NoProgress ==
  /\ sectors' = disk.manager
  /\ progress' = NoProgress
  /\ names' = disk.files.names /\ files' = disk.files.files
  /\ written' = disk.files.written
  /\ store' = disk.files.store /\ halved' = disk.files.halved

\* manager.Load and files.Load; New of both if there are no files yet.
Load ==
  /\ sectors' = disk.manager
  /\ progress' = disk.files.progress
  /\ names' = disk.files.names /\ files' = disk.files.files
  /\ written' = disk.files.written
  /\ store' = disk.files.store /\ halved' = disk.files.halved

\* The process ends, by itself or by a crash at any moment, and starts again.
\* What comes of databases of different moments is not followed: the files may
\* name sectors that the manager does not know (stage "mixed").
Restart ==
  /\ stage # "mixed" /\ restarts < MaxRestarts
  /\ Load
  /\ handles' = [c \in Clients |-> 0]
  /\ adding' = [c \in Clients |-> NotAdding]
  /\ todo' = [c \in Clients |-> << >>]
  /\ key' = [c \in Clients |-> NoKey] /\ wanted' = [c \in Clients |-> Nothing]
  /\ saver' = "none" /\ late' = FALSE
  /\ stage' = IF disk.at = disk.manager THEN "serving" ELSE "mixed"
  /\ restarts' = restarts + 1
  /\ UNCHANGED <<disk, saves, requests>>

PNext ==
  \/ Serve
  \/ \E who \in {"periodic", "shutdown"} : SaveManager(who)
  \/ SaveFiles \/ CloseListener \/ Send \/ Restart

PSpec == PInit /\ [][PNext]_vars

-----------------------------------------------------------------------------
(* Properties                                                              *)

\* Whatever writes a crash has cut off, a start from two databases of one
\* moment finds all that the files name, and goes on with the sector in progress.
WholeSavesAreReadable ==
  stage # "mixed" => TypeOK /\ GetReturnsWritten /\ InProgressFits

\* The same for keys, with the requests that a dump has cut in half left out: a
\* key has both of its files or none, and Get returns what was put.
StoreIsWhole == stage # "mixed" => KeyIsBothFiles /\ GetReturnsStore

\* Every range of every ordinary file, which is one without a piece of no bytes, is
\* read as written or refused, through writes, saves, crashes and starts.  (Read
\* takes a piece of no bytes for a whole sector: such files are left out.)
RangesAreHonest == stage # "mixed" => ReadsAreHonest

\* After an orderly exit in which no request outlived the listener, both
\* databases on disk are those of memory, and no byte waits in the sector in
\* progress.
ExitIsDurable ==
  stage = "exited" /\ ~late =>
    /\ disk.manager = sectors /\ disk.files = FilesDump
    /\ progress.data = << >>

=============================================================================
