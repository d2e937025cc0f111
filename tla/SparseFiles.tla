----------------------------- MODULE SparseFiles -----------------------------
(***************************************************************************)
(* A sparse file of either kind: NewSparse1 makes one without an offsets   *)
(* file, and WriteAt goes on to writeAt1 or writeAt2 accordingly.          *)
(***************************************************************************)
EXTENDS Sparse1, Sparse2

VARIABLES kind    \* number of files of the sparse file

vars == <<data, offsets, up, memory, chainVars, writes, history, kind>>

Init == kind \in {1, 2} /\ Init1 /\ Init2

Next ==
  \/ kind = 1 /\ Next1 /\ UNCHANGED <<kind, offsets>>
  \/ kind = 2 /\ Next2 /\ UNCHANGED <<kind, chainVars>>

Spec == Init /\ [][Next]_vars

-----------------------------------------------------------------------------
(* Properties; see also Sparse                                             *)

\* A write to one file has failed and left some of its entry, but not all.
Torn ==
  failed /\ Len(data) \notin
              {dataSize, dataSize + 7 + prev.length + (Len(offsetsBytes) - Parent.inOffsets)}

\* A torn entry is not taken for data that ends with an entry: it is for the
\* tail to tell, which is read from the last cells, whatever they are.
TornRefused == kind = 1 /\ Torn => ~Opens1

\* The file can be opened again, whenever the process ends, unless a write has
\* failed; one file also after a failed write that left nothing or a whole entry,
\* and only then.
OpensUnlessTorn == IF kind = 1 THEN Opens1 <=> ~Torn ELSE ~failed => Opens2

\* Between writes the level for 2^j has the latest element whose number is
\* divisible by 2^j, as chain.go says, also after the file was opened, and
\* neither push nor parent panics.
ChainHasLatest ==
  kind = 1 /\ up /\ ~broken =>
    /\ ~ChainPanics
    /\ \A j \in DOMAIN chain :
         chain[j].inOffsets = Len(offsetsBytes) - 3 * (nPushed % pow2[j])
    /\ pow2[Len(chain)] <= Max({nPushed, 1}) /\ nPushed < pow2[Len(chain) + 1]

\* Opening a file of k writes reads as many entries as k has bits.
WalkIsShort ==
  kind = 1 /\ up /\ ~broken /\ data # << >> =>
    Len(Walk.sizes) = Cardinality({j \in 0 .. MaxWrites : (nPushed \div pow2[j]) % 2 = 1})

===============================================================================
