----------------------------- MODULE MCManagerStop -----------------------------
(* Instances of ManagerStop for TLC. *)
EXTENDS ManagerStop, TLC

=============================================================================
