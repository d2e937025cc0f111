------------------------------ MODULE MCManager ------------------------------
(* Instances of Manager for TLC. *)
EXTENDS Manager, TLC

Symmetry == Permutations(Contracts) \cup Permutations(Values)

=============================================================================
