-------------------------- MODULE MCChainTracking ---------------------------
(* Blocks a and b compete for height 1; c and d are alone at theirs. *)
EXTENDS ChainTracking, TLC
CONSTANTS a, b, c, d
MCNumberOf == [h \in Hash |-> IF h \in {a, b} THEN 1 ELSE IF h = c THEN 2 ELSE 3]
Interchangeable == Permutations({a, b})
=============================================================================
