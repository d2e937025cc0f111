------------------------------- MODULE MCZipKV -------------------------------
(* Instances of ZipKV for TLC. *)
EXTENDS ZipKV, TLC

CONSTANT empty

\* One value without bytes, the others of one byte.
MCSize == [v \in Values |-> IF v = empty THEN 0 ELSE 1]

Symmetry == Permutations(Keys) \cup Permutations(Metas)

=============================================================================
