--------------------------- MODULE ChunkIoService ---------------------------
(* ChunkIo implements FileService, under this mapping. *)
EXTENDS ChunkIo

Outcome(c) == IF Returned(c) THEN st[c] ELSE "none"

(* a positive reply the client still waits for *)
AnswerOf(c) ==
    IF st[c] = "wait" /\ rq[c].pc = "reply" /\ rq[c].reply.ok
      THEN [kind |-> IF call[c].op = "read" THEN "bytes" ELSE "done",
            data |-> rq[c].reply.data]
      ELSE [kind |-> "nothing", data |-> <<>>]

Service == INSTANCE FileService WITH
    Calls   <- UNION {Program[c] : c \in Client},
    outcome <- [c \in Client |-> Outcome(c)],
    answer  <- [c \in Client |-> AnswerOf(c)]

(* Reading and writing over HTTP keeps the promises of FileService, whatever *)
(* the network alters, loses or delays, whichever provider serves the file   *)
(* and whoever else writes or truncates it: in particular the file is only   *)
(* changed inside the chunk a call is at, never by a call that has returned  *)
(* with success, and a chunk is acknowledged only after the file held it.    *)
ImplementsFile == Service!FSpec

=============================================================================
