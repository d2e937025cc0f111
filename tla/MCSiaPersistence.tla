--------------------------- MODULE MCSiaPersistence ---------------------------
(* Instances of SiaPersistence for TLC: sectors of three bytes. *)
EXTENDS SiaPersistence, TLC

CONSTANTS a, b

\* Values: none, one short, one with a sector of its own; metadata: short.
MCPayloads == {<< >>, <<a>>, <<b, a>>}
MCMetas == {<<b>>}

Symmetry == Permutations(Clients) \cup Permutations(Keys)

===============================================================================
