---------------------------- MODULE MCSectorRead ----------------------------
(* Instances of SectorRead for TLC; readers do not meet, so that one is enough. *)
EXTENDS SectorRead, TLC

=============================================================================
