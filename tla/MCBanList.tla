----------------------------- MODULE MCBanList -----------------------------
(* BanList on small instances.                                             *)
EXTENDS BanList
============================================================================
