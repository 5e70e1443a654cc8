---------------------------- MODULE MCWsSession ----------------------------
(* WsSession on a small instance.                                          *)
EXTENDS WsSession
============================================================================
