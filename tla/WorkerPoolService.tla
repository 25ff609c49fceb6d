-------------------------- MODULE WorkerPoolService -------------------------
(* WorkerPool implements ConnectionService, under this mapping. *)
EXTENDS WorkerPool

Staff == {w \in Workers : wpc[w] \notin {"none", "destroyed"}}

(* a descriptor taken from the queue is first in line until it is added *)
Line(w) == IF wpc[w] = "add" THEN <<cur[w]>> \o pending[w] ELSE pending[w]

Stage(w) ==
    CASE wpc[w] = "recv"    -> "reading"
      [] wpc[w] = "process" -> "applying"
      [] wpc[w] = "send"    -> "replying"
      [] OTHER              -> "idle"

(* the connection a worker is busy with *)
Serving(w) == IF Stage(w) = "idle" THEN NoFd ELSE cur[w]

Lines    == [w \in Workers |-> Line(w)]
Servings == [w \in Workers |-> Serving(w)]
Stages   == [w \in Workers |-> Stage(w)]

Service == INSTANCE ConnectionService WITH
    Crew <- Workers, staff <- Staff, door <- mfd, line <- Lines,
    watched <- reg, abandoned <- left, serving <- Servings, stage <- Stages

(* The threads of httpfs_server.c implement the service: connections are    *)
(* adopted in the order in which they were accepted for a worker, never     *)
(* change workers, are served one at a time per worker, have their request  *)
(* carried out at most once and are closed after the answer; a descriptor   *)
(* number is reused only when nobody holds it any more; and a worker is     *)
(* destroyed only between two requests, with its queue closed, and what it  *)
(* had adopted stays open, so that its numbers are not given out again.     *)
ImplementsService == Service!SSpec

=============================================================================
