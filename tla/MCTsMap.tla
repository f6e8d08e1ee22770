------------------------------ MODULE MCTsMap ------------------------------
(* Model checking of TsMap. *)
EXTENDS TsMap, TLC

=============================================================================
