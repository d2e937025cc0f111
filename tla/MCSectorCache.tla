---------------------------- MODULE MCSectorCache ----------------------------
(* Instances of SectorCache for TLC; no symmetry, because of the liveness property. *)
EXTENDS SectorCache

=============================================================================
