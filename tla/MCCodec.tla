------------------------------ MODULE MCCodec ------------------------------
(* Codec on a small instance.                                              *)
EXTENDS Codec
============================================================================
