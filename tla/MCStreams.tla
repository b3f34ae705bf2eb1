----------------------------- MODULE MCStreams -----------------------------
(***************************************************************************)
(* Streams for small workflows.                                            *)
(***************************************************************************)
EXTENDS Streams

\* Writes are closed in their step and followed by a read of the answer; the
\* last close has nothing to flush.
Exchanges == << <<"read", "write", "write", "close", "read", "write", "close">>,
                <<"read", "write", "close", "read", "close", "read">> >>
=============================================================================
