--------------------------- MODULE MCTcpSessions ---------------------------
(* Model checking of TcpSessions: constant sets for the runs.              *)
EXTENDS TcpSessions, TLC

Symmetry == Permutations(Conns) \cup Permutations(Workers)

AllErrors  == {"operation_aborted", "connection_aborted", "other"}
MildErrors == {"operation_aborted", "connection_aborted"}

=============================================================================
