------------------------- MODULE MCRequestDispatch -------------------------
(* Model checking of RequestDispatch: constant sets for the runs.          *)
EXTENDS RequestDispatch, TLC

Symmetry == Permutations(Conns) \cup Permutations(Workers)

NoErrors == {}

=============================================================================
