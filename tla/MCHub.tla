-------------------------------- MODULE MCHub --------------------------------
(* Hub on small instances.                                                 *)
EXTENDS Hub, TLC

CONSTANTS a, b

\* Every client has its own name.
OwnNames == (a :> "alice") @@ (b :> "bob")
==============================================================================
