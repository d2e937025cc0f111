------------------------------- MODULE MCKVHttp -------------------------------
EXTENDS KVHttp, TLC

CONSTANTS v0, v1, v2

\* A value of each length up to that of a block.
MCSize == v0 :> 0 @@ v1 :> 1 @@ v2 :> 2

\* The status of an answer is never read.
MCView ==
  <<vars, [r \in Requests |-> IF req[r].stage = "replied" THEN Free ELSE req[r]],
    caller, capacity, shutdown, signals, readErrors, reads, lastPut, promised>>

MCSymmetry == Permutations(Requests)

=============================================================================
