------------------------------- MODULE MCStreams -------------------------------
(* A small instance of CBufferedFile alone: a file of seven bytes that is read  *)
(* through a ring of four, two of which are kept for the reader to go back to.  *)
EXTENDS Streams

MCPieces == {<<1>>}

\* No data stream is used.
AloneSpec ==
    StreamInit /\ FileInit /\ want = 0 /\ [][FileNext /\ UNCHANGED stream]_<<stream, reading>>
================================================================================
