-------------------------- MODULE ConnectionService -------------------------
(***************************************************************************)
(* What the threads of the C service provider promise about connections,   *)
(* without epoll, pipes, locks or program counters: an accepted connection *)
(* stands in the line of one worker, is adopted in its turn, stays with    *)
(* that worker, has at most one request carried out, and is then closed.   *)
(* WorkerPoolService shows that WorkerPool does this.                      *)
(***************************************************************************)
EXTENDS Sequences

CONSTANTS Crew, Fd, NoFd

VARIABLES
    staff,      \* workers that exist
    door,       \* the connection just accepted, or NoFd
    line,       \* connections that wait for each worker, in order
    watched,    \* connections each worker has adopted
    abandoned,  \* connections adopted by a worker that has left, still open
    serving,    \* the one it is busy with, or NoFd
    stage       \* how far it is: "idle", "reading", "applying", "replying"

svars == <<staff, door, line, watched, abandoned, serving, stage>>

Empty == [w \in Crew |-> <<>>]

SInit ==
    /\ staff = {} /\ door = NoFd
    /\ line = Empty
    /\ watched = [w \in Crew |-> {}] /\ abandoned = {}
    /\ serving = [w \in Crew |-> NoFd]
    /\ stage = [w \in Crew |-> "idle"]

Waiting(w) == {line[w][i] : i \in DOMAIN line[w]}

(* connections that are open: somebody still has to close them, or nobody *)
(* will before the process ends                                            *)
Held == ({door} \ {NoFd}) \cup abandoned
          \cup UNION {Waiting(w) \cup watched[w] : w \in Crew}

Hire(w) ==
    /\ w \notin staff
    /\ staff' = staff \cup {w}
    /\ UNCHANGED <<door, line, watched, serving, stage, abandoned>>

Admit(f) ==
    /\ door = NoFd /\ door' = f
    /\ f \notin Held
    /\ UNCHANGED <<staff, line, watched, serving, stage, abandoned>>

(* set_nonblocking or malloc fails *)
Refuse ==
    /\ door # NoFd
    /\ door' = NoFd
    /\ UNCHANGED <<staff, line, watched, serving, stage, abandoned>>

Assign(w) ==
    /\ door # NoFd /\ w \in staff
    /\ line' = [line EXCEPT ![w] = Append(@, door)]
    /\ door' = NoFd
    /\ UNCHANGED <<staff, watched, serving, stage, abandoned>>

(* the first in line is adopted, or dropped for want of resources *)
Adopt(w) ==
    /\ line[w] # <<>> /\ w \in staff
    /\ line' = [line EXCEPT ![w] = Tail(@)]
    /\ watched' = [watched EXCEPT ![w] = @ \cup {Head(line[w])}]
    /\ UNCHANGED <<staff, door, serving, stage, abandoned>>

DropFirst(w) ==
    /\ line[w] # <<>> /\ w \in staff
    /\ line' = [line EXCEPT ![w] = Tail(@)]
    /\ UNCHANGED <<staff, door, watched, serving, stage, abandoned>>

Busy(w, f, s) ==
    /\ serving' = [serving EXCEPT ![w] = f]
    /\ stage' = [stage EXCEPT ![w] = s]

(* one connection at a time *)
Turn(w, f) ==
    /\ stage[w] = "idle" /\ w \in staff /\ f \in watched[w]
    /\ Busy(w, f, "reading")
    /\ UNCHANGED <<staff, door, line, watched, abandoned>>

(* no more bytes for now *)
Leave(w) ==
    /\ stage[w] = "reading"
    /\ Busy(w, NoFd, "idle")
    /\ UNCHANGED <<staff, door, line, watched, abandoned>>

(* the request is complete, or is refused *)
Advance(w) ==
    /\ \/ stage[w] = "reading" /\ Busy(w, serving[w], "applying")
       \/ stage[w] \in {"reading", "applying"} /\ Busy(w, serving[w], "replying")
    /\ UNCHANGED <<staff, door, line, watched, abandoned>>

(* answered, or dropped: the connection the worker is busy with ... *)
Hangup(w) ==
    /\ stage[w] # "idle"
    /\ watched' = [watched EXCEPT ![w] = @ \ {serving[w]}]
    /\ Busy(w, NoFd, "idle")
    /\ UNCHANGED <<staff, door, line, abandoned>>

(* ... or, between two requests, one whose client is gone *)
Discard(w, f) ==
    /\ stage[w] = "idle" /\ w \in staff /\ f \in watched[w]
    /\ watched' = [watched EXCEPT ![w] = @ \ {f}]
    /\ UNCHANGED <<staff, door, line, serving, stage, abandoned>>

(* a worker leaves only when it is not busy and closes its line; nobody     *)
(* watches its adopted connections any more, but they stay open             *)
Dismiss(w) ==
    /\ w \in staff /\ stage[w] = "idle"
    /\ staff' = staff \ {w}
    /\ line' = [line EXCEPT ![w] = <<>>]
    /\ abandoned' = abandoned \cup watched[w]
    /\ watched' = [watched EXCEPT ![w] = {}]
    /\ UNCHANGED <<door, serving, stage>>

(* the process is killed *)
Collapse ==
    /\ staff' = {} /\ door' = NoFd
    /\ line' = Empty
    /\ watched' = [w \in Crew |-> {}] /\ abandoned' = {}
    /\ serving' = [w \in Crew |-> NoFd]
    /\ stage' = [w \in Crew |-> "idle"]

SNext ==
    \/ Refuse \/ Collapse
    \/ \E f \in Fd : Admit(f)
    \/ \E w \in Crew :
          \/ Hire(w) \/ Assign(w) \/ Adopt(w) \/ DropFirst(w) \/ Leave(w)
          \/ Advance(w) \/ Hangup(w) \/ Dismiss(w)
          \/ \E f \in Fd : Turn(w, f) \/ Discard(w, f)

SSpec == SInit /\ [][SNext]_svars

=============================================================================
