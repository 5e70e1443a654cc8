--------------------------- MODULE MCFrameStream ---------------------------
(* FrameStream on a small instance.                                        *)
EXTENDS FrameStream, SequencesExt

Base == 2

\* The most significant byte first.
MCPutUint32(n) == [i \in 1..Header |-> (n \div Base ^ (Header - i)) % Base]
MCUint32(bytes) == FoldLeft(LAMBDA a, b : a * Base + b, 0, bytes)
============================================================================
