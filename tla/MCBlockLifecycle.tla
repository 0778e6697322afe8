-------------------------- MODULE MCBlockLifecycle --------------------------
(* Blocks a and b compete for number 1; c, when present, has number 2. *)
EXTENDS BlockLifecycle, TLC
CONSTANTS a, b, c
MCNumberOf == [h \in Hash |-> IF h = c THEN 2 ELSE 1]
Interchangeable == Permutations({a, b})
=============================================================================
