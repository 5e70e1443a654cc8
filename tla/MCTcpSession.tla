--------------------------- MODULE MCTcpSession ---------------------------
(* TcpSession on small instances.                                          *)
EXTENDS TcpSession, TLC

\* Sessions differ only in their id.
SessionSymmetry == Permutations(Session)
============================================================================
