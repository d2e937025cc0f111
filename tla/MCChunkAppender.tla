--------------------------- MODULE MCChunkAppender ---------------------------
(* Instances of ChunkAppender for TLC. *)
EXTENDS ChunkAppender, TLC

MCPayloads == {<<1>>, <<2, 3>>}

Symmetry == Permutations(Readers) \cup Permutations(Writers)

=============================================================================
