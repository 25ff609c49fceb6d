------------------------------ MODULE MCChunkIo -----------------------------
(* Two writers and a reader of a file of at most four bytes, one byte in    *)
(* two sampled, two bytes to a chunk.                                       *)
EXTENDS ChunkIoService, TLC

CONSTANTS w1, w2, r1

MCClient == {w1, w2, r1}

MCProgram ==
    (w1 :> {Write(0, <<0, 1, 1>>)}) @@
    (w2 :> {Write(3, <<1>>), Write(1, <<0, 0>>), Truncate(1)}) @@
    (r1 :> {Read(0, 3)})

(* A writer of two chunks and a client that makes any kind of call on the   *)
(* same bytes, calls of size 0 included.                                    *)
MCRivals == {w1, w2}

MCRivalProgram ==
    (w1 :> {Write(0, <<0, 1, 1>>), Write(0, <<>>)}) @@
    (w2 :> {Write(1, <<0, 0>>), Write(2, <<0, 1, 1>>), Truncate(0), Truncate(1), Truncate(2),
            Read(0, 4), Read(1, 0)})

=============================================================================
