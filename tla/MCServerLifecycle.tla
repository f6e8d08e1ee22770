------------------------- MODULE MCServerLifecycle -------------------------
(* Model checking of ServerLifecycle: constant sets for the runs.          *)
EXTENDS ServerLifecycle, TLC

Symmetry == Permutations(Threads) \cup Permutations(Blocks)

=============================================================================
