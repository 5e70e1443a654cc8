--------------------------- MODULE MCReadDeadline ---------------------------
(* ReadDeadline for the default and for other settings.                    *)
EXTENDS ReadDeadline
============================================================================
