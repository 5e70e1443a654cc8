------------------------------- MODULE MCBus -------------------------------
(* Bus on small instances.                                                 *)
EXTENDS Bus
============================================================================
