--------------------------------- MODULE Files ---------------------------------
(***************************************************************************)
(* The file layer of siaform (siaform/files/files.go).  A file is a list   *)
(* of pieces, each a range of a sector.  Short writes of all files share   *)
(* the sector in progress, which is kept in memory and handed to the       *)
(* manager when the next write does not fit; a write of at least 95% of a  *)
(* sector gets one of its own.  Handles of several clients work at a time: *)
(* the map of files and the sector in progress are guarded by fs.mu.  Two  *)
(* handles never write to one file at a time, which the layer above has to *)
(* see to (the list of pieces is guarded by the mutex of the handle only). *)
(* What moves the files is in KvSia and SiaPersistence.  Rename has no     *)
(* caller; GetAt and the server of siaform call Seek and then Read: here   *)
(* an offset is an argument of ReadAt.                                     *)
(*                                                                         *)
(* The manager is what its interface promises (see Manager): sectors are   *)
(* numbered, written once and read back.                                   *)
(***************************************************************************)
EXTENDS Integers, Functions, SequencesExt

CONSTANTS
  Clients,
  Payloads,     \* what a client may write: sequences of bytes
  Zero,         \* the byte that pads sectors
  SectorSize,
  MaxFiles,     \* bound: File objects ever made
  MaxPieces     \* bound: pieces of a file

MinSizeForSector == (SectorSize * 95) \div 100

\* With sectors of one byte a write of none would get a sector of its own.
ASSUME FilesAssumption ==
  /\ SectorSize \in Nat \ {0, 1}
  /\ MaxFiles \in Nat /\ MaxPieces \in Nat
  /\ \A p \in Payloads : p \in Seq(Range(p)) /\ Len(p) <= SectorSize

VARIABLES
  names,        \* f.db.Files: name -> File object
  files,        \* the File objects: pieces and size
  progress,     \* f.db.InProgress and InProgressSectorId, 0 for none
  sectors,      \* the manager: contents by number, empty while only allocated
  handles,      \* the object a client has open, 0 for none
  adding,       \* Write of a client between AddSector and its piece
  written       \* history: the bytes a File object was given

fileVars == <<names, files, progress, sectors, handles, adding, written>>

NotAdding == [data |-> << >>]
NoProgress == [id |-> 0, data |-> << >>]

Init ==
  /\ names = << >> /\ files = << >> /\ written = << >>
  /\ progress = NoProgress /\ sectors = << >>
  /\ handles = [c \in Clients |-> 0]
  /\ adding = [c \in Clients |-> NotAdding]

-----------------------------------------------------------------------------
(* Pieces and sectors                                                      *)

\* The hash of a piece is modelled by the content it stands for.
Hashed(id, offset, p) == [sector |-> id, offset |-> offset, length |-> Len(p),
                          hashed |-> TRUE, hash |-> p]

\* A piece of a sector of its own: no hash, no length if it is a whole one.
Plain(id, p) == [sector |-> id, offset |-> 0, hashed |-> FALSE,
                 length |-> IF Len(p) = SectorSize THEN 0 ELSE Len(p)]

\* append(p, make([]byte, ...)): the padding of a sector.
Padded(p) == p \o [n \in 1 .. SectorSize - Len(p) |-> Zero]

\* What AllocateSector and WriteSector of the manager do.
NextSector(ss) == Len(ss) + 1
CanWriteSector(ss, i) == i \in DOMAIN ss /\ ss[i] = << >>

\* uploadSectorInProgress: if the manager refuses, all stays as it is.
Uploaded(st) ==
  IF st.progress.data = << >> \/ ~CanWriteSector(st.sectors, st.progress.id)
  THEN st
  ELSE [progress |-> NoProgress,
        sectors |-> [st.sectors EXCEPT ![st.progress.id] = Padded(st.progress.data)]]

\* A sector in progress is there: allocate one if there is none.
WithSector(st) ==
  IF st.progress.id # 0 THEN st
  ELSE [progress |-> [st.progress EXCEPT !.id = NextSector(st.sectors)],
        sectors |-> Append(st.sectors, << >>)]

Current == [progress |-> progress, sectors |-> sectors]

Overflows(p) == Len(progress.data) + Len(p) > SectorSize

\* make([]byte, nz) with a negative nz panics before anything is changed.
UploadPanics == Len(progress.data) > SectorSize

\* The sector in progress that a short write appends to.
RoomFor(p) == WithSector(IF Overflows(p) THEN Uploaded(Current) ELSE Current)

-----------------------------------------------------------------------------
(* Operations                                                              *)

\* m[k] = v of a map.
With(m, k, v) == [x \in DOMAIN m \cup {k} |-> IF x = k THEN v ELSE m[x]]

NewFile(name, f, bytes, handle) ==
  /\ Len(files) < MaxFiles
  /\ files' = Append(files, f)
  /\ written' = Append(written, bytes)
  /\ names' = With(names, name, Len(files) + 1)
  /\ handles' = handle

Open(c, name) ==
  /\ adding[c] = NotAdding
  /\ name \in DOMAIN names
  /\ handles' = [handles EXCEPT ![c] = names[name]]
  /\ UNCHANGED <<names, files, progress, sectors, adding, written>>

Create(c, name) ==
  /\ adding[c] = NotAdding
  /\ name \notin DOMAIN names
  /\ NewFile(name, [pieces |-> << >>, size |-> 0], << >>,
             [handles EXCEPT ![c] = Len(files) + 1])
  /\ UNCHANGED <<progress, sectors, adding>>

Link(dst, src) ==
  /\ src \in DOMAIN names
  /\ NewFile(dst, files[names[src]], written[names[src]], handles)
  /\ UNCHANGED <<progress, sectors, adding>>

Delete(name) ==
  /\ name \in DOMAIN names
  /\ names' = Restrict(names, DOMAIN names \ {name})
  /\ UNCHANGED <<files, progress, sectors, handles, adding, written>>

\* f.File.Pieces = append(pieces, piece); f.File.Size += l.  After AddSector the
\* code does both without fs.mu, so that a dump in between may have the piece of a
\* request under way and not yet its size; here they are one step.
AppendPiece(f, piece, p) ==
  /\ files' = [files EXCEPT ![f].pieces = Append(@, piece),
                            ![f].size = @ + Len(p)]
  /\ written' = [written EXCEPT ![f] = @ \o p]

MayWrite(c, p) ==
  /\ handles[c] # 0 /\ adding[c] = NotAdding
  /\ Len(files[handles[c]].pieces) < MaxPieces

\* Put drops the handle after its Write.
Close(c) == handles' = [handles EXCEPT ![c] = 0]

\* Write of less than 95% of a sector, under fs.mu.
WriteShort(c, p) ==
  LET st == RoomFor(p)
      f == handles[c]
  IN /\ MayWrite(c, p)
     /\ Len(p) < MinSizeForSector
     /\ ~(Overflows(p) /\ UploadPanics)
     /\ AppendPiece(f, Hashed(st.progress.id, Len(st.progress.data), p), p)
     /\ progress' = [st.progress EXCEPT !.data = @ \o p]
     /\ sectors' = st.sectors
     /\ Close(c)
     /\ UNCHANGED <<names, adding>>

\* Write of a sector of its own: AddSector, and the file gets its piece later.
AddSector(c, p) ==
  /\ MayWrite(c, p)
  /\ Len(p) >= MinSizeForSector
  /\ sectors' = Append(sectors, Padded(p))
  /\ adding' = [adding EXCEPT ![c] = [data |-> p, piece |-> Plain(NextSector(sectors), p)]]
  /\ UNCHANGED <<names, files, progress, handles, written>>

FinishAdd(c) ==
  /\ adding[c] # NotAdding
  /\ AppendPiece(handles[c], adding[c].piece, adding[c].data)
  /\ adding' = [adding EXCEPT ![c] = NotAdding]
  /\ Close(c)
  /\ UNCHANGED <<names, progress, sectors>>

\* Called by the programs when they shut down.
UploadSectorInProgress ==
  /\ progress.data # << >> /\ ~UploadPanics
  /\ LET st == Uploaded(Current)
     IN progress' = st.progress /\ sectors' = st.sectors
  /\ UNCHANGED <<names, files, handles, adding, written>>

-----------------------------------------------------------------------------
(* Reading                                                                 *)

\* Read takes a piece without length for a whole sector.
PieceLength(pc) == IF pc.length = 0 THEN SectorSize ELSE pc.length

Broken == [ok |-> FALSE, bytes |-> << >>]
Answer(bytes) == [ok |-> TRUE, bytes |-> bytes]

\* Mutant: the offset of the piece in its sector is left out.
Part_NoOffset(pc, from, to) ==
  IF pc.sector = progress.id
  THEN IF to > Len(progress.data) THEN Broken
       ELSE Answer(SubSeq(progress.data, from + 1, to))
  ELSE IF pc.sector \notin DOMAIN sectors \/ sectors[pc.sector] = << >> THEN Broken
  ELSE Answer(SubSeq(sectors[pc.sector], from + 1, to))

\* The bytes [from, to) of a piece, from the buffer or from the manager.  A
\* hash is that of the whole piece and is compared with the part asked for.
Part(pc, from, to) ==
  LET Of(sector) == SubSeq(sector, pc.offset + from + 1, pc.offset + to)
  IN IF pc.sector = progress.id
     THEN IF pc.offset + to > Len(progress.data) THEN Broken
          ELSE Answer(Of(progress.data))
     ELSE IF \/ pc.sector \notin DOMAIN sectors
             \/ sectors[pc.sector] = << >>
             \/ pc.offset + to > SectorSize
             \/ pc.hashed /\ Of(sectors[pc.sector]) # pc.hash
     THEN Broken
     ELSE Answer(Of(sectors[pc.sector]))

\* One turn of Read's loop, for the range [pbegin, pend) of the file.
Add(read, piece, pbegin, pend) ==
  LET fbegin == read.fbegin
      fend == fbegin + PieceLength(piece)
      touched == \/ pbegin <= fbegin /\ fbegin < pend
                 \/ fbegin <= pbegin /\ pbegin < fend
      begin == IF pbegin > fbegin THEN pbegin ELSE fbegin
      end == IF pend < fend THEN pend ELSE fend
      part == Part(piece, begin - fbegin, end - fbegin)
      answer == IF ~read.answer.ok \/ ~touched THEN read.answer
                ELSE IF part.ok THEN Answer(read.answer.bytes \o part.bytes)
                ELSE Broken
  IN [fbegin |-> fend, answer |-> answer]

\* Read of n bytes from an offset, over the pieces the range touches.
ReadAt(pieces, offset, n) ==
  FoldLeft(LAMBDA read, piece : Add(read, piece, offset, offset + n),
           [fbegin |-> 0, answer |-> Answer(<< >>)], pieces).answer

Get(f) == ReadAt(files[f].pieces, 0, files[f].size)

-----------------------------------------------------------------------------
(* Properties                                                              *)

\* Types: names and handles name objects, pieces name sectors and the sector
\* in progress is one that the manager has and that is still empty.
TypeOK ==
  /\ \A name \in DOMAIN names : names[name] \in DOMAIN files
  /\ \A c \in Clients : handles[c] \in DOMAIN files \cup {0}
  /\ DOMAIN written = DOMAIN files
  /\ \A f \in DOMAIN files : \A k \in DOMAIN files[f].pieces :
       files[f].pieces[k].sector \in DOMAIN sectors
  /\ progress.id # 0 => CanWriteSector(sectors, progress.id)
  /\ progress.id = 0 => progress.data = << >>

\* A file all of whose hashed pieces have bytes: one of length 0 stands for a
\* whole sector to Read.
Ordinary(f) ==
  \A k \in DOMAIN files[f].pieces : files[f].pieces[k].hashed => files[f].pieces[k].length # 0

\* Get returns every byte that was written to an ordinary file, in order, whether its
\* pieces are in memory, in uploaded shared sectors or in sectors of their
\* own, also of links.
GetReturnsWritten ==
  \A f \in DOMAIN files : Ordinary(f) => Get(f) = Answer(written[f])

\* Read of any range of an ordinary file returns the bytes of that range or an
\* error, never the bytes of another file or padding.
ReadsAreHonest ==
  \A f \in DOMAIN files : Ordinary(f) =>
    \A from \in 0 .. files[f].size : \A n \in 0 .. files[f].size - from :
      LET answer == ReadAt(files[f].pieces, from, n)
      IN answer.ok => answer.bytes = SubSeq(written[f], from + 1, from + n)

\* The buffer of the sector in progress never outgrows a sector (else the
\* padding in uploadSectorInProgress panics).
InProgressFits == Len(progress.data) <= SectorSize

=============================================================================
