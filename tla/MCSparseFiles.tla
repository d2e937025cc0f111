---------------------------- MODULE MCSparseFiles ----------------------------
(* Instances of SparseFiles for TLC. *)
EXTENDS SparseFiles

\* One byte, bytes with zeros around and between them, and zeros only.
MCPayloads == {<<1>>, <<2, 3>>, <<0, 4, 0>>, <<0>>}

=============================================================================
