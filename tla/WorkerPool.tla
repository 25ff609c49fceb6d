----------------------------- MODULE WorkerPool -----------------------------
(***************************************************************************)
(* The thread structure of the C service provider                          *)
(* (demo/service_provider/c/httpfs_server.c): one main thread that accepts *)
(* connections and hands each to a worker, the workers' epoll loops, the   *)
(* mutex-protected hand-over queues, the notify pipes and shutdown.        *)
(*                                                                         *)
(* What a request does to the file system, and how its bytes are framed,   *)
(* is left to other modules: here a request is RequestPieces segments, and *)
(* a connection is the descriptor number that stands for it.  Descriptor   *)
(* numbers are recycled by the kernel as soon as they are closed.          *)
(***************************************************************************)
EXTENDS Integers, Sequences, FiniteSets

CONSTANTS
    N,              \* worker_count
    Fd,             \* descriptor numbers available for client sockets
    PipeCap,        \* bytes a notify pipe holds
    MaxEvents,      \* SERVER_EPOLL_MAX_EVENTS
    RequestPieces,  \* segments that make a complete request
    NoFd,           \* "no descriptor"
    Notifier        \* the event source &worker->notifier

ASSUME PoolAssumption ==
    /\ N \in Nat \ {0}
    /\ PipeCap \in Nat \ {0}
    /\ MaxEvents \in Nat \ {0}
    /\ RequestPieces \in Nat \ {0}
    /\ NoFd \notin Fd
    /\ Notifier \notin Fd
    /\ Notifier # NoFd

Workers == 0 .. N - 1

VARIABLES
    \* The process
    signalled,  \* the thread SIGINT/SIGTERM was delivered to first
    stop,       \* g_stop_server
    left,       \* descriptors destroy_worker left open and without an owner
    \* The main thread, in httpfs_server_run
    mpc,        \* where it is
    started,    \* started_workers
    next,       \* next_worker % worker_count
    mfd,        \* client_fd, while main owns it
    target,     \* the worker (or loop index) main is working on
    \* The worker threads, in worker_thread_main
    wpc,        \* where each is
    final,      \* it has left the loop and is in the last add_pending_clients
    events,     \* what epoll_wait returned and is not handled yet
    cur,        \* the descriptor it is working on
    \* Shared between main and a worker
    pending,    \* the queue pending_head .. pending_tail
    pipe,       \* bytes in notify_pipe
    \* The kernel
    open,       \* open client descriptors
    reg,        \* descriptors registered with each worker's epoll_fd
    conn        \* per descriptor: segments sent, segments received, peer gone

procVars   == <<signalled, stop, left>>
mainVars   == <<mpc, started, next, mfd, target>>
workerVars == <<wpc, final, events, cur>>
queueVars  == <<pending, pipe>>
kernelVars == <<open, reg, conn>>
vars == <<procVars, mainVars, workerVars, queueVars, kernelVars>>

MainPC == {"start", "listen", "check", "enter", "accept", "nonblock", "enqueue",
           "wake", "stopwake", "join", "returned", "killed"}

WorkerPC == {"none", "loop", "wait", "dispatch", "recv", "process", "send",
             "drain", "dequeue", "add", "done", "destroyed"}

Halted == mpc \in {"returned", "killed"}

Conn  == [sent : 0 .. RequestPieces, got : 0 .. RequestPieces, gone : BOOLEAN]
Fresh == [sent |-> 0, got |-> 0, gone |-> FALSE]
Event == (Fd \cup {Notifier}) \X BOOLEAN

(* Every variable keeps its type; in particular next_worker % worker_count *)
(* stays an index of workers[], started_workers never passes worker_count, *)
(* and a notify pipe never holds more than its capacity.                   *)
TypeOK ==
    /\ signalled \in {"nobody", "main", "worker"} /\ stop \in BOOLEAN
    /\ left \in SUBSET Fd
    /\ mpc \in MainPC
    /\ started \in 0 .. N
    /\ next \in Workers
    /\ mfd \in Fd \cup {NoFd}
    /\ target \in 0 .. N
    /\ wpc \in [Workers -> WorkerPC]
    /\ final \in [Workers -> BOOLEAN]
    /\ events \in [Workers -> SUBSET Event]
    /\ cur \in [Workers -> Fd \cup {NoFd}]
    /\ pending \in [Workers -> Seq(Fd)]
    /\ pipe \in [Workers -> 0 .. PipeCap]
    /\ open \in SUBSET Fd
    /\ reg \in [Workers -> SUBSET Fd]
    /\ conn \in [Fd -> Conn]

Init ==
    /\ signalled = "nobody" /\ stop = FALSE /\ left = {}
    /\ mpc = "start" /\ started = 0 /\ next = 0 /\ mfd = NoFd /\ target = 0
    /\ wpc = [w \in Workers |-> "none"]
    /\ final = [w \in Workers |-> FALSE]
    /\ events = [w \in Workers |-> {}]
    /\ cur = [w \in Workers |-> NoFd]
    /\ pending = [w \in Workers |-> <<>>]
    /\ pipe = [w \in Workers |-> 0]
    /\ open = {}
    /\ reg = [w \in Workers |-> {}]
    /\ conn = [f \in Fd |-> Fresh]

Elements(s) == {s[i] : i \in 1 .. Len(s)}

(* close(): the number becomes available again at once *)
Close(S) ==
    /\ open' = open \ S
    /\ conn' = [f \in Fd |-> IF f \in S THEN Fresh ELSE conn[f]]

(* The process dies: the kernel reclaims its threads and descriptors *)
Kill ==
    /\ mpc' = "killed" /\ mfd' = NoFd /\ target' = 0 /\ left' = {}
    /\ wpc' = [w \in Workers |-> "destroyed"]
    /\ final' = [w \in Workers |-> FALSE]
    /\ events' = [w \in Workers |-> {}]
    /\ cur' = [w \in Workers |-> NoFd]
    /\ pending' = [w \in Workers |-> <<>>]
    /\ pipe' = [w \in Workers |-> 0]
    /\ open' = {}
    /\ reg' = [w \in Workers |-> {}]
    /\ conn' = [f \in Fd |-> Fresh]
    /\ UNCHANGED <<signalled, stop, started, next>>

-----------------------------------------------------------------------------
(* The main thread *)

(* initialize_worker succeeds: epoll, pipe and thread of worker `started' *)
StartWorker ==
    /\ mpc = "start" /\ started < N
    /\ wpc' = [wpc EXCEPT ![started] = "loop"]
    /\ started' = started + 1
    /\ mpc' = IF started' = N THEN "listen" ELSE "start"
    /\ UNCHANGED <<procVars, next, mfd, target, final, events, cur, queueVars,
                   kernelVars>>

(* Slip: an error path forgets g_stop_server = 1 *)
BeginStopNoFlag ==
    /\ target' = 0
    /\ mpc' = IF started = 0 THEN "returned" ELSE "stopwake"
    /\ UNCHANGED <<procVars, started, next, mfd, workerVars, queueVars,
                   kernelVars>>

(* perror(...); g_stop_server = 1; stop_workers(workers, started) *)
BeginStop ==
    /\ stop' = TRUE
    /\ target' = 0
    /\ mpc' = IF started = 0 THEN "returned" ELSE "stopwake"
    /\ UNCHANGED <<signalled, left, started, next, mfd, workerVars, queueVars,
                   kernelVars>>

StartWorkerFails == mpc = "start" /\ BeginStop

(* socket, setsockopt, getaddrinfo, bind, listen *)
Listen ==
    /\ mpc = "listen"
    /\ mpc' = "check"
    /\ UNCHANGED <<procVars, started, next, mfd, target, workerVars, queueVars,
                   kernelVars>>

ListenFails == mpc = "listen" /\ BeginStop

(* while (!g_stop_server) *)
CheckStop ==
    /\ mpc = "check"
    /\ mpc' = IF stop THEN "stopwake" ELSE "enter"
    /\ target' = 0
    /\ UNCHANGED <<procVars, started, next, mfd, workerVars, queueVars,
                   kernelVars>>

(* the call of accept(): between the test above and the sleep, main runs   *)
(* and a signal handled then interrupts nothing                            *)
EnterAccept ==
    /\ mpc = "enter"
    /\ mpc' = "accept"
    /\ UNCHANGED <<procVars, started, next, mfd, target, workerVars, queueVars,
                   kernelVars>>

(* a client connects: accept() returns a descriptor number not in use *)
Accept ==
    /\ mpc = "accept"
    /\ \E f \in Fd \ open :
          /\ mfd' = f
          /\ open' = open \cup {f}
    /\ mpc' = "nonblock"
    /\ UNCHANGED <<procVars, started, next, target, workerVars, queueVars, reg,
                   conn>>

(* any accept error but EINTR (EMFILE, ENFILE, ECONNABORTED, ...) *)
AcceptFails == mpc = "accept" /\ BeginStop

SetNonblocking ==
    /\ mpc = "nonblock"
    /\ mpc' = "enqueue"
    /\ UNCHANGED <<procVars, started, next, mfd, target, workerVars, queueVars,
                   kernelVars>>

DropAccepted ==
    /\ Close({mfd})
    /\ mfd' = NoFd
    /\ mpc' = "check"
    /\ UNCHANGED <<procVars, started, target, workerVars, queueVars,
                   reg>>

SetNonblockingFails == mpc = "nonblock" /\ DropAccepted /\ next' = next

(* Slip: the round-robin index is never reduced modulo worker_count *)
NextWorkerNoWrap == next + 1

NextWorker == (next + 1) % N

(* Slip: the new node becomes pending_head *)
EnqueueAtHead ==
    /\ mpc = "enqueue"
    /\ pending' = [pending EXCEPT ![next] = <<mfd>> \o @]
    /\ target' = next
    /\ next' = NextWorker
    /\ mfd' = NoFd
    /\ mpc' = "wake"
    /\ UNCHANGED <<procVars, started, workerVars, pipe, kernelVars>>

(* enqueue_pending_fd: the append happens under queue_mutex *)
EnqueuePendingFd ==
    /\ mpc = "enqueue"
    /\ pending' = [pending EXCEPT ![next] = Append(@, mfd)]
    /\ target' = next
    /\ next' = NextWorker
    /\ mfd' = NoFd
    /\ mpc' = "wake"
    /\ UNCHANGED <<procVars, started, workerVars, pipe, kernelVars>>

(* malloc of the node fails; next_worker has been advanced already *)
EnqueueFails == mpc = "enqueue" /\ DropAccepted /\ next' = NextWorker

(* write() to the non-blocking pipe; EAGAIN from a full pipe is ignored *)
WritePipe(w) ==
    pipe' = [pipe EXCEPT ![w] = IF @ < PipeCap THEN @ + 1 ELSE @]

(* Slip: only a worker seen blocked in epoll_wait is woken *)
WakeIdleOnly ==
    /\ mpc = "wake"
    /\ IF wpc[target] = "wait" THEN WritePipe(target) ELSE pipe' = pipe
    /\ mpc' = "check"
    /\ UNCHANGED <<procVars, started, next, mfd, target, workerVars, pending,
                   kernelVars>>

WakeWorker ==
    /\ mpc = "wake"
    /\ WritePipe(target)
    /\ mpc' = "check"
    /\ UNCHANGED <<procVars, started, next, mfd, target, workerVars, pending,
                   kernelVars>>

(* Slip: stop_workers is given worker_count instead of started_workers *)
StopWakeAll ==
    /\ mpc = "stopwake"
    /\ WritePipe(target)
    /\ IF target + 1 < N
         THEN target' = target + 1 /\ mpc' = mpc
         ELSE target' = 0 /\ mpc' = "join"
    /\ UNCHANGED <<procVars, started, next, mfd, workerVars, pending, kernelVars>>

(* stop_workers, first loop *)
StopWake ==
    /\ mpc = "stopwake"
    /\ WritePipe(target)
    /\ IF target + 1 < started
         THEN target' = target + 1 /\ mpc' = mpc
         ELSE target' = 0 /\ mpc' = "join"
    /\ UNCHANGED <<procVars, started, next, mfd, workerVars, pending, kernelVars>>

(* Slip: destroy_worker forgets the descriptors left in the queue *)
JoinWorkerKeepsQueue ==
    /\ mpc = "join"
    /\ wpc[target] = "done"
    /\ wpc' = [wpc EXCEPT ![target] = "destroyed"]
    /\ pipe' = [pipe EXCEPT ![target] = 0]
    /\ IF target + 1 < started
         THEN target' = target + 1 /\ mpc' = mpc
         ELSE target' = 0 /\ mpc' = "returned"
    /\ left' = left \cup reg[target]
    /\ reg' = [reg EXCEPT ![target] = {}]
    /\ UNCHANGED <<signalled, stop, started, next, mfd, final, events, cur,
                   pending, open, conn>>

(* stop_workers, second loop: pthread_join, then destroy_worker, which     *)
(* closes epoll_fd, dropping every registration, and the queued fds.  The  *)
(* descriptors that were registered are not closed: nothing knows them     *)
(* any more, and they stay open until the process ends.                    *)
JoinWorker ==
    /\ mpc = "join"
    /\ wpc[target] = "done"
    /\ wpc' = [wpc EXCEPT ![target] = "destroyed"]
    /\ Close(Elements(pending[target]))
    /\ pending' = [pending EXCEPT ![target] = <<>>]
    /\ pipe' = [pipe EXCEPT ![target] = 0]
    /\ IF target + 1 < started
         THEN target' = target + 1 /\ mpc' = mpc
         ELSE target' = 0 /\ mpc' = "returned"
    /\ left' = left \cup reg[target]
    /\ reg' = [reg EXCEPT ![target] = {}]
    /\ UNCHANGED <<signalled, stop, started, next, mfd, final, events, cur>>

Main ==
    \/ StartWorker \/ StartWorkerFails \/ Listen \/ ListenFails
    \/ CheckStop \/ EnterAccept \/ Accept \/ AcceptFails
    \/ SetNonblocking \/ SetNonblockingFails
    \/ EnqueuePendingFd \/ EnqueueFails \/ WakeWorker
    \/ StopWake \/ JoinWorker

-----------------------------------------------------------------------------
(* The worker threads *)

Goto(w, pc) == wpc' = [wpc EXCEPT ![w] = pc]

(* while (!g_stop_server), and the code after the loop *)
LoopHead(w) ==
    /\ wpc[w] = "loop"
    /\ Goto(w, IF stop THEN "drain" ELSE "wait")
    /\ final' = [final EXCEPT ![w] = stop]
    /\ UNCHANGED <<procVars, mainVars, events, cur, queueVars, kernelVars>>

Readable(f) == conn[f].sent > conn[f].got \/ conn[f].gone

(* level-triggered readiness, with the hang-up flags of this moment *)
Ready(w) ==
    {<<f, conn[f].gone>> : f \in {g \in reg[w] : Readable(g)}}
      \cup (IF pipe[w] > 0 THEN {<<Notifier, FALSE>>} ELSE {})

(* the kernel returns as many of the ready sources as fit in events[] *)
Batch(w) ==
    {S \in SUBSET Ready(w) :
        Cardinality(S) = IF Cardinality(Ready(w)) < MaxEvents
                           THEN Cardinality(Ready(w)) ELSE MaxEvents}

EpollWait(w) ==
    /\ wpc[w] = "wait"
    /\ Ready(w) # {}
    /\ \E S \in Batch(w) : events' = [events EXCEPT ![w] = S]
    /\ Goto(w, "dispatch")
    /\ UNCHANGED <<procVars, mainVars, final, cur, queueVars, kernelVars>>

(* Slip: epoll_wait with an infinite timeout *)
EpollNoTimeout(w) == FALSE /\ UNCHANGED vars

(* 1000 ms passed without an event *)
EpollTimeout(w) ==
    /\ wpc[w] = "wait"
    /\ Ready(w) = {}
    /\ Goto(w, "loop")
    /\ UNCHANGED <<procVars, mainVars, final, events, cur, queueVars, kernelVars>>

TakeEvent(w, e) == events' = [events EXCEPT ![w] = @ \ {e}]

DispatchNotifier(w) ==
    /\ wpc[w] = "dispatch"
    /\ \E e \in events[w] : e[1] = Notifier /\ TakeEvent(w, e)
    /\ Goto(w, "drain")
    /\ UNCHANGED <<procVars, mainVars, final, cur, queueVars, kernelVars>>

(* close_connection *)
CloseConnection(w, f) ==
    /\ Close({f})
    /\ reg' = [reg EXCEPT ![w] = @ \ {f}]

(* Slip: no return after close_connection on a hang-up *)
HangupFallsThrough(w) ==
    /\ wpc[w] = "dispatch"
    /\ \E e \in events[w] : e[1] # Notifier /\ e[2]
                            /\ TakeEvent(w, e) /\ CloseConnection(w, e[1])
                            /\ cur' = [cur EXCEPT ![w] = e[1]]
    /\ Goto(w, "recv")
    /\ UNCHANGED <<procVars, mainVars, final, queueVars>>

(* handle_client_event with EPOLLERR, EPOLLHUP or EPOLLRDHUP in the        *)
(* snapshot: the request is dropped, even if its bytes have arrived.       *)
DispatchHangup(w) ==
    /\ wpc[w] = "dispatch"
    /\ \E e \in events[w] : e[1] # Notifier /\ e[2]
                            /\ TakeEvent(w, e) /\ CloseConnection(w, e[1])
    /\ UNCHANGED <<procVars, mainVars, wpc, final, cur, queueVars>>

DispatchClient(w) ==
    /\ wpc[w] = "dispatch"
    /\ \E e \in events[w] : e[1] # Notifier /\ ~e[2]
                            /\ TakeEvent(w, e)
                            /\ cur' = [cur EXCEPT ![w] = e[1]]
    /\ Goto(w, "recv")
    /\ UNCHANGED <<procVars, mainVars, final, queueVars, kernelVars>>

DispatchEnd(w) ==
    /\ wpc[w] = "dispatch" /\ events[w] = {}
    /\ Goto(w, "loop")
    /\ UNCHANGED <<procVars, mainVars, final, events, cur, queueVars, kernelVars>>

(* Slip: a request is complete when more than its length has arrived *)
RecvStrict(w) ==
    LET f == cur[w] IN
    /\ wpc[w] = "recv"
    /\ conn[f].sent > conn[f].got
    /\ conn' = [conn EXCEPT ![f].got = @ + 1]
    /\ UNCHANGED <<procVars, mainVars, workerVars, queueVars, open, reg>>

(* recv returned bytes: the request is complete, or the loop reads on *)
Recv(w) ==
    LET f == cur[w] IN
    /\ wpc[w] = "recv"
    /\ conn[f].sent > conn[f].got
    /\ conn' = [conn EXCEPT ![f].got = @ + 1]
    /\ Goto(w, IF conn[f].got + 1 = RequestPieces THEN "process" ELSE "recv")
    /\ UNCHANGED <<procVars, mainVars, final, events, cur, queueVars,
                   open, reg>>

(* the bytes are no request, are too large or do not fit a buffer that can *)
(* grow: an error is sent on the still non-blocking socket.                *)
RecvRejects(w) ==
    LET f == cur[w] IN
    /\ wpc[w] = "recv"
    /\ conn[f].sent > 0
    /\ Goto(w, "send")
    /\ UNCHANGED <<procVars, mainVars, final, events, cur, queueVars, kernelVars>>

(* EAGAIN: the connection stays registered *)
RecvAgain(w) ==
    LET f == cur[w] IN
    /\ wpc[w] = "recv"
    /\ conn[f].sent = conn[f].got /\ ~conn[f].gone
    /\ cur' = [cur EXCEPT ![w] = NoFd]
    /\ Goto(w, "dispatch")
    /\ UNCHANGED <<procVars, mainVars, final, events, queueVars, kernelVars>>

FinishConnection(w) ==
    /\ CloseConnection(w, cur[w])
    /\ cur' = [cur EXCEPT ![w] = NoFd]
    /\ Goto(w, "dispatch")
    /\ UNCHANGED <<procVars, mainVars, final, events, queueVars>>

(* recv returned an error, or 0: end of stream, or a buffer with no room   *)
(* left for a header that does not end.                                    *)
RecvFails(w) ==
    /\ wpc[w] = "recv"
    /\ conn[cur[w]].gone \/ conn[cur[w]].got > 0
    /\ FinishConnection(w)

(* process_connection_request up to the response: the operation is applied *)
Process(w) ==
    /\ wpc[w] = "process"
    /\ Goto(w, "send")
    /\ UNCHANGED <<procVars, mainVars, final, events, cur, queueVars, kernelVars>>

(* fcntl(F_SETFL) fails before the request is processed *)
ProcessFails(w) == wpc[w] = "process" /\ FinishConnection(w)

(* send_all ends: everything was sent, or an error or a signal cut it short *)
SendAll(w) == wpc[w] = "send" /\ FinishConnection(w)

(* send() on a connection the peer has reset: SIGPIPE is not ignored *)
SendKilled(w) ==
    /\ wpc[w] = "send"
    /\ conn[cur[w]].gone
    /\ Kill

DrainNotifyPipe(w) ==
    /\ wpc[w] = "drain"
    /\ pipe' = [pipe EXCEPT ![w] = 0]
    /\ Goto(w, "dequeue")
    /\ UNCHANGED <<procVars, mainVars, final, events, cur, pending, kernelVars>>

(* dequeue_pending_fd, under queue_mutex *)
DequeuePendingFd(w) ==
    /\ wpc[w] = "dequeue" /\ pending[w] # <<>>
    /\ cur' = [cur EXCEPT ![w] = Head(pending[w])]
    /\ pending' = [pending EXCEPT ![w] = Tail(@)]
    /\ Goto(w, "add")
    /\ UNCHANGED <<procVars, mainVars, final, events, pipe, kernelVars>>

(* the queue is empty: back to the event loop, or the thread returns *)
DequeueEmpty(w) ==
    /\ wpc[w] = "dequeue" /\ pending[w] = <<>>
    /\ Goto(w, IF final[w] THEN "done" ELSE "dispatch")
    /\ UNCHANGED <<procVars, mainVars, final, events, cur, queueVars, kernelVars>>

(* Slip: one connection is adopted per wake-up *)
AddOnePerWakeup(w) ==
    /\ wpc[w] = "add"
    /\ reg' = [reg EXCEPT ![w] = @ \cup {cur[w]}]
    /\ cur' = [cur EXCEPT ![w] = NoFd]
    /\ Goto(w, IF final[w] THEN "done" ELSE "dispatch")
    /\ UNCHANGED <<procVars, mainVars, final, events, queueVars, open, conn>>

AddClientToWorker(w) ==
    /\ wpc[w] = "add"
    /\ reg' = [reg EXCEPT ![w] = @ \cup {cur[w]}]
    /\ cur' = [cur EXCEPT ![w] = NoFd]
    /\ Goto(w, "dequeue")
    /\ UNCHANGED <<procVars, mainVars, final, events, queueVars, open,
                   conn>>

(* Slip: add_pending_clients ignores the failure of add_client_to_worker *)
AddClientLeaks(w) ==
    /\ wpc[w] = "add"
    /\ cur' = [cur EXCEPT ![w] = NoFd]
    /\ Goto(w, "dequeue")
    /\ UNCHANGED <<procVars, mainVars, final, events, queueVars, kernelVars>>

(* calloc, the first buffer or EPOLL_CTL_ADD fails: close(client_fd) *)
AddClientFails(w) ==
    /\ wpc[w] = "add"
    /\ Close({cur[w]})
    /\ cur' = [cur EXCEPT ![w] = NoFd]
    /\ Goto(w, "dequeue")
    /\ UNCHANGED <<procVars, mainVars, final, events, queueVars, reg>>

Worker(w) ==
    \/ LoopHead(w) \/ EpollWait(w) \/ EpollTimeout(w)
    \/ DispatchNotifier(w) \/ DispatchHangup(w) \/ DispatchClient(w)
    \/ DispatchEnd(w)
    \/ Recv(w) \/ RecvRejects(w) \/ RecvAgain(w) \/ RecvFails(w)
    \/ Process(w) \/ ProcessFails(w) \/ SendAll(w) \/ SendKilled(w)
    \/ DrainNotifyPipe(w) \/ DequeuePendingFd(w) \/ DequeueEmpty(w)
    \/ AddClientToWorker(w) \/ AddClientFails(w)

-----------------------------------------------------------------------------
(* The environment: clients and signals *)

ClientSend(f) ==
    /\ f \in open /\ ~conn[f].gone /\ conn[f].sent < RequestPieces
    /\ conn' = [conn EXCEPT ![f].sent = @ + 1]
    /\ UNCHANGED <<procVars, mainVars, workerVars, queueVars, open, reg>>

(* a close, a crash or curl's timeout; a reset discards unread bytes *)
ClientGone(f) ==
    /\ f \in open /\ ~conn[f].gone
    /\ \E s \in {conn[f].sent, conn[f].got} :
          conn' = [conn EXCEPT ![f].sent = s, ![f].gone = TRUE]
    /\ UNCHANGED <<procVars, mainVars, workerVars, queueVars, open, reg>>

(* handle_signal runs on a thread of the kernel's choice.  It interrupts   *)
(* the accept or the epoll_wait that thread sleeps in (signal() without    *)
(* SA_RESTART), and nothing when the thread is not asleep yet; every other *)
(* interrupted call is retried, or is SendAll's early end.                 *)
SignalMain ==
    /\ signalled = "nobody" /\ ~Halted
    /\ signalled' = "main" /\ stop' = TRUE
    /\ mpc' = IF mpc = "accept" THEN "check" ELSE mpc
    /\ UNCHANGED <<left, started, next, mfd, target, workerVars, queueVars,
                   kernelVars>>

SignalWorker(w) ==
    /\ signalled = "nobody" /\ wpc[w] \notin {"none", "done", "destroyed"}
    /\ signalled' = "worker" /\ stop' = TRUE
    /\ Goto(w, IF wpc[w] = "wait" THEN "loop" ELSE wpc[w])
    /\ UNCHANGED <<left, mainVars, final, events, cur, queueVars, kernelVars>>

(* the handler is reset after its first use, so a second signal kills *)
SignalAgain ==
    /\ signalled # "nobody" /\ ~Halted
    /\ Kill

Environment ==
    \/ \E f \in Fd : ClientSend(f) \/ ClientGone(f)
    \/ SignalMain \/ SignalAgain
    \/ \E w \in Workers : SignalWorker(w)

Terminated ==
    /\ Halted
    /\ UNCHANGED vars

Next ==
    \/ Main
    \/ \E w \in Workers : Worker(w)
    \/ Environment
    \/ Terminated

Spec == Init /\ [][Next]_vars

(* Each thread runs when it can.  The kernel rotates its ready list, so a   *)
(* source that stays ready is returned in the end although events[] is     *)
(* bounded (strong fairness of the batches that hold it).  SendAll ends    *)
(* because a client reads its answer or goes away.  Nothing else is       *)
(* assumed of clients and signals: no client has to connect, so accept()   *)
(* may block for ever.                                                     *)
Returns(w, s) ==
    /\ EpollWait(w)
    /\ \E b \in BOOLEAN : <<s, b>> \in events'[w]

FairSpec ==
    /\ Spec
    /\ WF_vars(Main /\ mpc # "accept")
    /\ \A w \in Workers :
          /\ WF_vars(Worker(w))
          /\ \A s \in Fd \cup {Notifier} : SF_vars(Returns(w, s))

-----------------------------------------------------------------------------
(* Safety *)

Running(w) == wpc[w] \notin {"none", "done", "destroyed"}

(* A descriptor that waits in the queue of a running worker is never       *)
(* forgotten: the pipe holds a byte, or main is about to write one         *)
(* (enqueue_pending_fd comes before wake_worker), or the worker is between  *)
(* the drain and the empty queue (drain_notify_pipe comes before            *)
(* add_pending_clients).  epoll_wait's timeout does not look at the queue, *)
(* so a lost byte would leave the client waiting for the next connection.  *)
NoLostWakeup ==
    \A w \in Workers :
        pending[w] # <<>> /\ Running(w) =>
            \/ pipe[w] > 0
            \/ mpc = "wake" /\ target = w
            \/ wpc[w] \in {"drain", "dequeue", "add"}

(* who is responsible for closing descriptor f *)
Holders(f) ==
    {<<"main", x, 0>> : x \in {y \in {0} : mfd = f}}
      \cup (UNION {{<<"queue", w, i>> : i \in {j \in DOMAIN pending[w] :
                                            pending[w][j] = f}} : w \in Workers})
      \cup {<<"hand", w, 0>> : w \in {v \in Workers : wpc[v] = "add" /\ cur[v] = f}}
      \cup {<<"epoll", w, 0>> : w \in {v \in Workers : f \in reg[v]}}

(* While the server runs, an open client descriptor has exactly one owner  *)
(* among main's client_fd, the pending queues, a worker's local client_fd  *)
(* and the epoll sets, and a closed one has none: none is closed twice,    *)
(* which would close another client's recycled descriptor, and none is     *)
(* forgotten.  Only destroy_worker, once its thread is joined, leaves      *)
(* descriptors open that nobody owns.                                      *)
FdOwnership ==
    /\ \A f \in Fd :
          /\ f \in open <=> Holders(f) # {} \/ f \in left
          /\ \A h, k \in Holders(f) : h = k
          /\ f \in left => Holders(f) = {}
    /\ left # {} => mpc \in {"join", "returned"}

(* An event the worker has still to handle, and the connection it is       *)
(* handling, point to a connection_state that has not been freed: no two   *)
(* events of a batch name the same connection, and close_connection only   *)
(* frees the one just taken from the batch.                                *)
NoDanglingEvent ==
    \A w \in Workers :
        /\ \A e \in events[w] :
              /\ e[1] # Notifier => e[1] \in reg[w] /\ e[1] # cur[w]
              /\ \A d \in events[w] : d[1] = e[1] => d = e
        /\ wpc[w] \in {"recv", "process", "send"} => cur[w] \in reg[w]

(* main never touches the queue, pipe or thread of a worker that was not   *)
(* initialised or is already destroyed, on any of the ways to stop, and    *)
(* frees the workers only when no thread of theirs is left.                *)
WorkerLifetime ==
    /\ mpc = "enqueue" => wpc[next] \notin {"none", "destroyed"}
    /\ mpc \in {"wake", "stopwake", "join"} =>
          target < N /\ wpc[target] \notin {"none", "destroyed"}
    /\ mpc = "returned" => \A w \in Workers : wpc[w] \in {"none", "destroyed"}

(* When httpfs_server_run returns, a descriptor that is still open was     *)
(* registered with a worker's epoll_fd; one that was only accepted or      *)
(* queued - even after its worker's last add_pending_clients - is closed.  *)
NoOrphanAtReturn == mpc = "returned" => open \subseteq left

-----------------------------------------------------------------------------
(* Liveness, under FairSpec *)

(* A queued connection is adopted (or closed) although nobody else         *)
(* connects: the hand-over needs no further event.                         *)
QueueServed ==
    \A f \in Fd, w \in Workers :
        f \in Elements(pending[w]) ~> f \notin Elements(pending[w]) \/ Halted

(* A complete request on an adopted connection is answered and the         *)
(* connection closed, unless the server is told to stop.  One thing can    *)
(* starve it: connections that arrive so fast that the worker never finds  *)
(* its queue empty and never leaves add_pending_clients.                   *)
RequestServed ==
    \A f \in Fd, w \in Workers :
        [](f \in reg[w] /\ conn[f].sent = RequestPieces =>
             <>(\/ f \notin reg[w] \/ stop \/ Halted
                \/ [](wpc[w] \in {"dequeue", "add"})))

(* A signal reaches the idle workers within one epoll timeout, whichever   *)
(* thread it was delivered to, so that pthread_join does not block.        *)
WorkersStop ==
    stop ~> Halted \/ \A w \in Workers : ~Running(w)

(* Once main has left the accept loop, httpfs_server_run returns. *)
ShutdownCompletes == mpc = "stopwake" ~> Halted

(* A signal makes the server exit: what the cleanup of                     *)
(* scripts/run_provider_integration.sh relies on (`kill' and then `wait'). *)
(* Stated of a signal the kernel delivers to the main thread itself.       *)
SignalLeadsToExit == signalled = "main" ~> Halted

=============================================================================
