-------------------------- MODULE WorkerPoolProofs --------------------------
(* Theorems about the worker pool for every number of workers, descriptors, *)
(* pipe capacity, batch size and request length.                            *)
EXTENDS WorkerPoolService, SequenceTheorems, TLAPS

(* Where the code is about to use a descriptor, it holds one. *)
HoldsFd ==
    /\ mpc \in {"nonblock", "enqueue"} => mfd \in Fd
    /\ \A w \in Workers :
          wpc[w] \in {"add", "recv", "process", "send"} => cur[w] \in Fd

(* The inductive invariant for types: appending client_fd to a queue and    *)
(* registering it preserve types only because it is a real descriptor.      *)
TypeInv == TypeOK /\ HoldsFd

(* The round-robin index stays a worker's number. *)
LEMMA NextWorkerType ==
    ASSUME next \in Workers
    PROVE  NextWorker \in Workers
BY PoolAssumption, Z3 DEF NextWorker, Workers

(* A write to a notify pipe never exceeds its capacity. *)
LEMMA WritePipeType ==
    ASSUME pipe \in [Workers -> 0 .. PipeCap], NEW w, WritePipe(w)
    PROVE  pipe' \in [Workers -> 0 .. PipeCap]
<1>1. CASE w \in Workers
  <2>1. pipe[w] \in 0 .. PipeCap
    BY <1>1
  <2> QED
    BY <1>1, <2>1, PoolAssumption DEF WritePipe
<1>2. CASE w \notin Workers
  BY <1>2 DEF WritePipe
<1> QED
  BY <1>1, <1>2

(* Receiving a segment that was sent, and sending one more, keep a         *)
(* connection's counters within a request.                                 *)
LEMMA GotType ==
    ASSUME conn \in [Fd -> Conn], NEW f \in Fd, conn[f].sent > conn[f].got
    PROVE  [conn EXCEPT ![f].got = @ + 1] \in [Fd -> Conn]
<1>1. conn[f].got + 1 \in 0 .. RequestPieces
  BY PoolAssumption DEF Conn
<1>2. [conn[f] EXCEPT !.got = conn[f].got + 1] \in Conn
  BY <1>1 DEF Conn
<1> QED
  BY <1>2

(* A segment more sent, by ClientSend, keeps the connection's record. *)
LEMMA SentType ==
    ASSUME conn \in [Fd -> Conn], NEW f \in Fd, conn[f].sent < RequestPieces
    PROVE  [conn EXCEPT ![f].sent = @ + 1] \in [Fd -> Conn]
<1>1. conn[f].sent + 1 \in 0 .. RequestPieces
  BY PoolAssumption DEF Conn
<1>2. [conn[f] EXCEPT !.sent = conn[f].sent + 1] \in Conn
  BY <1>1 DEF Conn
<1> QED
  BY <1>2

(* Init establishes the inductive invariant. *)
LEMMA InitTypeInv == Init => TypeInv
<1> SUFFICES ASSUME Init PROVE TypeInv
  OBVIOUS
<1>1. Fresh \in Conn
  BY PoolAssumption DEF Fresh, Conn
<1>2. TypeOK
  <2>1. <<>> \in Seq(Fd)
    OBVIOUS
  <2>2. /\ next \in Workers /\ started \in 0 .. N /\ target \in 0 .. N
        /\ pipe \in [Workers -> 0 .. PipeCap]
    BY PoolAssumption DEF Init, Workers
  <2>3. /\ pending \in [Workers -> Seq(Fd)]
        /\ conn \in [Fd -> Conn]
    BY <1>1, <2>1 DEF Init
  <2> QED
    BY <2>2, <2>3 DEF Init, TypeOK, MainPC, WorkerPC
<1>3. HoldsFd
  BY DEF Init, HoldsFd
<1> QED
  BY <1>2, <1>3 DEF TypeInv

(* A killed process leaves a well-typed state. *)
LEMMA KillTypeInv ==
    ASSUME TypeInv, Kill
    PROVE  TypeInv'
<1>1. Fresh \in Conn /\ 0 \in 0 .. PipeCap /\ 0 \in 0 .. N
  BY PoolAssumption DEF Fresh, Conn
<1>2. <<>> \in Seq(Fd)
  OBVIOUS
<1>3. HoldsFd'
  BY DEF Kill, HoldsFd
<1>4. TypeOK'
  BY <1>1, <1>2 DEF TypeInv, Kill, TypeOK, MainPC, WorkerPC
<1> QED
  BY <1>3, <1>4 DEF TypeInv

(* The worker that stop_workers joins is one of workers[]. *)
JoinIndex == started \in 0 .. N /\ (mpc = "join" => target \in Workers)

(* It starts at 0 and stops before started_workers. *)
LEMMA JoinIndexInvariant == Spec => []JoinIndex
<1> USE PoolAssumption DEF JoinIndex, Workers
<1>1. Init => JoinIndex
  BY DEF Init
<1>2. ASSUME JoinIndex, Main PROVE JoinIndex'
  <2>1. CASE StartWorker
    BY <1>2, <2>1 DEF StartWorker
  <2>2. CASE StopWake
    BY <1>2, <2>2 DEF StopWake
  <2>3. CASE JoinWorker
    BY <1>2, <2>3 DEF JoinWorker
  <2>4. CASE ~StartWorker /\ ~StopWake /\ ~JoinWorker
    BY <1>2, <2>4 DEF Main, StartWorkerFails, Listen, ListenFails, CheckStop,
       EnterAccept, Accept, AcceptFails, SetNonblocking, SetNonblockingFails,
       EnqueuePendingFd, EnqueueFails, WakeWorker, BeginStop, DropAccepted
  <2> QED
    BY <2>1, <2>2, <2>3, <2>4
<1>3. ASSUME JoinIndex, NEW w \in Workers, Worker(w) PROVE JoinIndex'
  <2>1. CASE Kill
    BY <1>3, <2>1 DEF Kill
  <2>2. CASE ~Kill
    BY <1>3, <2>2 DEF Worker, LoopHead, EpollWait, EpollTimeout, DispatchNotifier,
       DispatchHangup, DispatchClient, DispatchEnd, Recv, RecvRejects, RecvAgain,
       RecvFails, Process, ProcessFails, SendAll, SendKilled, FinishConnection,
       DrainNotifyPipe, DequeuePendingFd, DequeueEmpty, AddClientToWorker,
       AddClientFails, mainVars
  <2> QED
    BY <2>1, <2>2
<1>4. ASSUME JoinIndex, Environment PROVE JoinIndex'
  BY <1>4 DEF Environment, ClientSend, ClientGone, SignalMain, SignalWorker,
     SignalAgain, Kill, mainVars
<1>5. JoinIndex /\ [Next]_vars => JoinIndex'
  BY <1>2, <1>3, <1>4 DEF Next, Terminated, vars, mainVars
<1> QED
  BY <1>1, <1>5, PTL DEF Spec

(* The main thread's steps preserve it. *)
LEMMA MainTypeInv ==
    ASSUME TypeInv, JoinIndex, Main
    PROVE  TypeInv'
<1> USE PoolAssumption DEF TypeInv
<1>f. Fresh \in Conn
  BY DEF Fresh, Conn
<1>0. TypeOK /\ HoldsFd
  OBVIOUS
<1>1. CASE StartWorker
  <2>1. /\ wpc' = [wpc EXCEPT ![started] = "loop"] /\ started' = started + 1
        /\ mpc' \in {"listen", "start"} /\ started < N
        /\ UNCHANGED <<signalled, stop, left, next, mfd, target, final, events, cur,
                       pending, pipe, open, reg, conn>>
    BY <1>1 DEF StartWorker, procVars, queueVars, kernelVars
  <2>2. started' \in 0 .. N
    BY <1>0, <2>1 DEF TypeOK
  <2>3. wpc' \in [Workers -> WorkerPC] /\ \A w \in Workers : wpc'[w] \in {"loop", wpc[w]}
    BY <1>0, <2>1 DEF TypeOK, WorkerPC
  <2>4. TypeOK'
    BY <1>0, <2>1, <2>2, <2>3 DEF TypeOK, MainPC
  <2>5. HoldsFd'
    BY <1>0, <2>1, <2>3 DEF HoldsFd
  <2> QED
    BY <2>4, <2>5
<1>2. CASE BeginStop
  BY <1>0, <1>2 DEF BeginStop, TypeOK, HoldsFd, MainPC, workerVars, queueVars,
     kernelVars
<1>3. CASE Listen
  BY <1>0, <1>3 DEF Listen, TypeOK, HoldsFd, MainPC, procVars, workerVars,
     queueVars, kernelVars
<1>4. CASE CheckStop
  BY <1>0, <1>4 DEF CheckStop, TypeOK, HoldsFd, MainPC, procVars, workerVars,
     queueVars, kernelVars
<1>5. CASE EnterAccept \/ Accept
  BY <1>0, <1>5 DEF EnterAccept, Accept, TypeOK, HoldsFd, MainPC, procVars,
     workerVars, queueVars, kernelVars
<1>6. CASE SetNonblocking
  BY <1>0, <1>6 DEF SetNonblocking, TypeOK, HoldsFd, MainPC, procVars,
     workerVars, queueVars, kernelVars
<1>7. CASE DropAccepted /\ next' \in {next, NextWorker}
  <2>1. next' \in Workers
    BY <1>0, <1>7, NextWorkerType DEF TypeOK
  <2> QED
    BY <1>0, <1>f, <1>7, <2>1 DEF DropAccepted, Close, TypeOK, HoldsFd, MainPC,
       procVars, workerVars, queueVars
<1>8. CASE EnqueuePendingFd
  <2>1. next' \in Workers
    BY <1>0, <1>8, NextWorkerType DEF TypeOK, EnqueuePendingFd
  <2>2. pending' \in [Workers -> Seq(Fd)]
    BY <1>0, <1>8 DEF EnqueuePendingFd, TypeOK, HoldsFd
  <2>3. target' \in 0 .. N
    BY <1>0, <1>8 DEF EnqueuePendingFd, TypeOK, Workers
  <2> QED
    BY <1>0, <1>8, <2>1, <2>2, <2>3 DEF EnqueuePendingFd, TypeOK, HoldsFd,
       MainPC, procVars, workerVars, kernelVars
<1>9. CASE WakeWorker
  <2>1. pipe' \in [Workers -> 0 .. PipeCap]
    BY <1>0, <1>9, WritePipeType DEF WakeWorker, TypeOK
  <2> QED
    BY <1>0, <1>9, <2>1 DEF WakeWorker, TypeOK, HoldsFd, MainPC, procVars,
       workerVars, kernelVars
<1>10. CASE StopWake
  <2>1. pipe' \in [Workers -> 0 .. PipeCap]
    BY <1>0, <1>10, WritePipeType DEF StopWake, TypeOK
  <2>2. target' \in 0 .. N /\ mpc' \in MainPC
    BY <1>0, <1>10 DEF StopWake, TypeOK, MainPC
  <2> QED
    BY <1>0, <1>10, <2>1, <2>2 DEF StopWake, TypeOK, HoldsFd, procVars,
       workerVars, kernelVars
<1>11. CASE JoinWorker
  <2>1. pipe' \in [Workers -> 0 .. PipeCap]
    <3>1. 0 \in 0 .. PipeCap
      OBVIOUS
    <3> QED
      BY <1>0, <1>11, <3>1 DEF JoinWorker, TypeOK
  <2>2. target' \in 0 .. N /\ mpc' \in MainPC
    BY <1>0, <1>11 DEF JoinWorker, TypeOK, MainPC
  <2>3. pending' \in [Workers -> Seq(Fd)]
    <3>1. <<>> \in Seq(Fd)
      OBVIOUS
    <3> QED
      BY <1>0, <1>11, <3>1 DEF JoinWorker, TypeOK
  <2>4. wpc' \in [Workers -> WorkerPC] /\ open' \in SUBSET Fd
        /\ conn' \in [Fd -> Conn] /\ reg' \in [Workers -> SUBSET Fd]
    BY <1>0, <1>f, <1>11 DEF JoinWorker, Close, TypeOK, WorkerPC
  <2>5. left' \in SUBSET Fd
    BY <1>0, <1>11 DEF JoinWorker, TypeOK, JoinIndex
  <2> QED
    BY <1>0, <1>11, <2>1, <2>2, <2>3, <2>4, <2>5 DEF JoinWorker, TypeOK, HoldsFd
<1> QED
  BY <1>1, <1>2, <1>3, <1>4, <1>5, <1>6, <1>7, <1>8, <1>9, <1>10, <1>11
     DEF Main, StartWorkerFails, ListenFails, AcceptFails, SetNonblockingFails,
         EnqueueFails

(* A worker's steps preserve it. *)
LEMMA WorkerTypeInv ==
    ASSUME TypeInv, NEW w \in Workers, Worker(w)
    PROVE  TypeInv'
<1> USE PoolAssumption DEF TypeInv
<1>f. Fresh \in Conn
  BY DEF Fresh, Conn
<1>0. TypeOK /\ HoldsFd
  OBVIOUS
<1>1. CASE LoopHead(w)
  BY <1>0, <1>1 DEF LoopHead, Goto, TypeOK, HoldsFd, WorkerPC, procVars,
     mainVars, queueVars, kernelVars
<1>2. CASE EpollWait(w)
  <2>1. Ready(w) \subseteq Event
    <3>1. \A f \in reg[w] : f \in Fd /\ conn[f].gone \in BOOLEAN
      BY <1>0 DEF TypeOK, Conn
    <3>2. <<Notifier, FALSE>> \in Event
      BY DEF Event
    <3>3. \A f \in reg[w] : <<f, conn[f].gone>> \in Event
      BY <3>1 DEF Event
    <3> QED
      BY <3>2, <3>3 DEF Ready
  <2>2. events' \in [Workers -> SUBSET Event]
    BY <1>0, <1>2, <2>1 DEF EpollWait, Batch, TypeOK
  <2> QED
    BY <1>0, <1>2, <2>2 DEF EpollWait, Goto, TypeOK, HoldsFd, WorkerPC,
       procVars, mainVars, queueVars, kernelVars
<1>3. CASE EpollTimeout(w)
  BY <1>0, <1>3 DEF EpollTimeout, Goto, TypeOK, HoldsFd, WorkerPC, procVars,
     mainVars, queueVars, kernelVars
<1>4. CASE DispatchNotifier(w)
  BY <1>0, <1>4 DEF DispatchNotifier, TakeEvent, Goto, TypeOK, HoldsFd,
     WorkerPC, procVars, mainVars, queueVars, kernelVars
<1>5. CASE DispatchHangup(w)
  BY <1>0, <1>f, <1>5 DEF DispatchHangup, TakeEvent, CloseConnection, Close,
     TypeOK, HoldsFd, procVars, mainVars, queueVars
<1>6. CASE DispatchClient(w)
  <2>1. PICK e \in events[w] : /\ e[1] # Notifier
                               /\ TakeEvent(w, e)
                               /\ cur' = [cur EXCEPT ![w] = e[1]]
    BY <1>6 DEF DispatchClient
  <2>2. e[1] \in Fd
    BY <1>0, <2>1 DEF TypeOK, Event
  <2> QED
    BY <1>0, <1>6, <2>1, <2>2 DEF DispatchClient, TakeEvent, Goto, TypeOK,
       HoldsFd, WorkerPC, procVars, mainVars, queueVars, kernelVars
<1>7. CASE DispatchEnd(w)
  BY <1>0, <1>7 DEF DispatchEnd, Goto, TypeOK, HoldsFd, WorkerPC, procVars,
     mainVars, queueVars, kernelVars
<1>8. CASE Recv(w)
  <2>1. conn' \in [Fd -> Conn]
    <3>1. /\ cur[w] \in Fd
          /\ conn[cur[w]].sent > conn[cur[w]].got
          /\ conn' = [conn EXCEPT ![cur[w]].got = @ + 1]
      BY <1>0, <1>8 DEF Recv, HoldsFd
    <3> QED
      BY <1>0, <3>1, GotType DEF TypeOK
  <2> QED
    BY <1>0, <1>8, <2>1 DEF Recv, Goto, TypeOK, HoldsFd, WorkerPC, procVars,
       mainVars, queueVars
<1>9. CASE RecvRejects(w)
  BY <1>0, <1>9 DEF RecvRejects, Goto, TypeOK, HoldsFd, WorkerPC, procVars,
     mainVars, queueVars, kernelVars
<1>10. CASE RecvAgain(w)
  BY <1>0, <1>10 DEF RecvAgain, Goto, TypeOK, HoldsFd, WorkerPC, procVars,
     mainVars, queueVars, kernelVars
<1>11. CASE FinishConnection(w)
  BY <1>0, <1>f, <1>11 DEF FinishConnection, CloseConnection, Close, Goto,
     TypeOK, HoldsFd, WorkerPC, procVars, mainVars, queueVars
<1>12. CASE Process(w)
  BY <1>0, <1>12 DEF Process, Goto, TypeOK, HoldsFd, WorkerPC, procVars,
     mainVars, queueVars, kernelVars
<1>13. CASE Kill
  BY <1>13, KillTypeInv
<1>14. CASE DrainNotifyPipe(w)
  <2>1. 0 \in 0 .. PipeCap
    OBVIOUS
  <2> QED
    BY <1>0, <1>14, <2>1 DEF DrainNotifyPipe, Goto, TypeOK, HoldsFd, WorkerPC,
       procVars, mainVars, kernelVars
<1>15. CASE DequeuePendingFd(w)
  <2>1. Head(pending[w]) \in Fd /\ Tail(pending[w]) \in Seq(Fd)
    BY <1>0, <1>15 DEF DequeuePendingFd, TypeOK
  <2> QED
    BY <1>0, <1>15, <2>1 DEF DequeuePendingFd, Goto, TypeOK, HoldsFd, WorkerPC,
       procVars, mainVars, kernelVars
<1>16. CASE DequeueEmpty(w)
  BY <1>0, <1>16 DEF DequeueEmpty, Goto, TypeOK, HoldsFd, WorkerPC, procVars,
     mainVars, queueVars, kernelVars
<1>17. CASE AddClientToWorker(w)
  BY <1>0, <1>17 DEF AddClientToWorker, Goto, TypeOK, HoldsFd, WorkerPC,
     procVars, mainVars, queueVars
<1>18. CASE AddClientFails(w)
  BY <1>0, <1>f, <1>18 DEF AddClientFails, Close, Goto, TypeOK, HoldsFd,
     WorkerPC, procVars, mainVars, queueVars
<1> QED
  BY <1>1, <1>2, <1>3, <1>4, <1>5, <1>6, <1>7, <1>8, <1>9, <1>10, <1>11,
     <1>12, <1>13, <1>14, <1>15, <1>16, <1>17, <1>18
     DEF Worker, RecvFails, ProcessFails, SendAll, SendKilled

(* Clients and signals preserve it. *)
LEMMA EnvironmentTypeInv ==
    ASSUME TypeInv, Environment
    PROVE  TypeInv'
<1> USE PoolAssumption DEF TypeInv
<1>0. TypeOK /\ HoldsFd
  OBVIOUS
<1>1. ASSUME NEW f \in Fd, ClientSend(f)
      PROVE  TypeInv'
  <2>1. conn' \in [Fd -> Conn]
    BY <1>0, <1>1, SentType DEF ClientSend, TypeOK
  <2> QED
    BY <1>0, <1>1, <2>1 DEF ClientSend, TypeOK, HoldsFd, procVars, mainVars,
       workerVars, queueVars
<1>2. ASSUME NEW f \in Fd, ClientGone(f)
      PROVE  TypeInv'
  <2>1. conn' \in [Fd -> Conn]
    <3>1. PICK s \in {conn[f].sent, conn[f].got} :
             conn' = [conn EXCEPT ![f].sent = s, ![f].gone = TRUE]
      BY <1>2 DEF ClientGone
    <3>2. s \in 0 .. RequestPieces
      BY <1>0 DEF TypeOK, Conn
    <3>3. [conn[f] EXCEPT !.sent = s, !.gone = TRUE] \in Conn
      BY <1>0, <3>2 DEF TypeOK, Conn
    <3>4. conn' = [conn EXCEPT ![f] = [conn[f] EXCEPT !.sent = s, !.gone = TRUE]]
      BY <1>0, <3>1 DEF TypeOK, Conn
    <3> QED
      BY <1>0, <3>3, <3>4 DEF TypeOK
  <2> QED
    BY <1>0, <1>2, <2>1 DEF ClientGone, TypeOK, HoldsFd, procVars, mainVars,
       workerVars, queueVars
<1>3. CASE SignalMain
  BY <1>0, <1>3 DEF SignalMain, TypeOK, HoldsFd, MainPC, workerVars, queueVars,
     kernelVars
<1>4. CASE SignalAgain
  BY <1>0, <1>4, KillTypeInv DEF SignalAgain
<1>5. ASSUME NEW w \in Workers, SignalWorker(w)
      PROVE  TypeInv'
  BY <1>0, <1>5 DEF SignalWorker, Goto, TypeOK, HoldsFd, WorkerPC, mainVars,
     queueVars, kernelVars
<1> QED
  BY <1>1, <1>2, <1>3, <1>4, <1>5 DEF Environment

(* Steps that change nothing preserve it. *)
LEMMA StutterTypeInv ==
    ASSUME TypeInv, UNCHANGED vars
    PROVE  TypeInv'
BY DEF TypeInv, TypeOK, HoldsFd, vars, procVars, mainVars, workerVars,
   queueVars, kernelVars

(* The type invariant and the descriptors in hand, for every instance of    *)
(* the pool: no step of main, of a worker, of a client or of a signal takes *)
(* a queue, a pipe or a descriptor variable out of its type.                *)
THEOREM TypeCorrect == Spec => [](TypeOK /\ HoldsFd)
<1>1. Init => TypeInv
  BY InitTypeInv
<1>2. TypeInv /\ JoinIndex /\ [Next]_vars => TypeInv'
  BY MainTypeInv, WorkerTypeInv, EnvironmentTypeInv, StutterTypeInv
     DEF Next, Terminated
<1>3. TypeInv => TypeOK /\ HoldsFd
  BY DEF TypeInv
<1> QED
  BY <1>1, <1>2, <1>3, JoinIndexInvariant, PTL DEF Spec

-----------------------------------------------------------------------------
(* Worker lifetimes *)

(* Which workers exist at each point of httpfs_server_run. *)
Lifecycle ==
    /\ mpc # "killed" => \A w \in Workers : wpc[w] = "none" <=> w >= started
    /\ mpc \in {"listen", "check", "enter", "accept", "nonblock", "enqueue", "wake"} =>
          started = N
    /\ mpc \in {"stopwake", "join"} => target < started
    /\ mpc = "wake" => target < N
    /\ mpc \notin {"join", "returned", "killed"} =>
          \A w \in Workers : wpc[w] # "destroyed"
    /\ mpc = "join" => \A w \in Workers : wpc[w] = "destroyed" <=> w < target
    /\ mpc = "returned" => \A w \in Workers : wpc[w] \in {"none", "destroyed"}
    /\ \A w \in Workers : wpc[w] = "none" => pending[w] = <<>>

(* What a step of worker w leaves alone: main's variables, the other       *)
(* workers, and an empty queue of its own.                                 *)
LEMMA WorkerFrame ==
    ASSUME TypeInv, NEW w \in Workers, Worker(w), ~Kill
    PROVE  /\ UNCHANGED <<mpc, started, next, target>>
           /\ wpc[w] \notin {"none", "done", "destroyed"}
           /\ wpc'[w] \notin {"none", "destroyed"}
           /\ \A v \in Workers : v # w => /\ wpc'[v] = wpc[v]
                                         /\ pending'[v] = pending[v]
                                         /\ pipe'[v] = pipe[v]
           /\ pending[w] = <<>> => pending'[w] = <<>>
<1> USE DEF TypeInv, TypeOK, Goto, procVars, mainVars, queueVars, kernelVars
<1>1. CASE LoopHead(w) \/ EpollWait(w) \/ EpollTimeout(w)
  BY <1>1 DEF LoopHead, EpollWait, EpollTimeout
<1>2. CASE DispatchNotifier(w) \/ DispatchHangup(w) \/ DispatchClient(w) \/ DispatchEnd(w)
  BY <1>2 DEF DispatchNotifier, DispatchHangup, DispatchClient, DispatchEnd
<1>3. CASE Recv(w) \/ RecvRejects(w) \/ RecvAgain(w) \/ RecvFails(w)
  BY <1>3 DEF Recv, RecvRejects, RecvAgain, RecvFails, FinishConnection
<1>4. CASE Process(w) \/ ProcessFails(w) \/ SendAll(w)
  BY <1>4 DEF Process, ProcessFails, SendAll, FinishConnection
<1>5. CASE DrainNotifyPipe(w) \/ DequeuePendingFd(w) \/ DequeueEmpty(w)
  BY <1>5 DEF DrainNotifyPipe, DequeuePendingFd, DequeueEmpty
<1>6. CASE AddClientToWorker(w) \/ AddClientFails(w)
  BY <1>6 DEF AddClientToWorker, AddClientFails
<1> QED
  BY <1>1, <1>2, <1>3, <1>4, <1>5, <1>6 DEF Worker, SendKilled

(* A killed process has no worker left. *)
LEMMA KillLifecycle == TypeInv /\ Kill => Lifecycle'
BY DEF TypeInv, TypeOK, Kill, Lifecycle

(* A worker's step creates and destroys no worker. *)
LEMMA WorkerLifecycle ==
    ASSUME TypeInv, Lifecycle, NEW w \in Workers, Worker(w)
    PROVE  Lifecycle'
<1>1. CASE Kill
  BY <1>1, KillLifecycle
<1>2. CASE ~Kill
  BY <1>2, WorkerFrame DEF Lifecycle
<1> QED
  BY <1>1, <1>2

(* Neither does a client or the signal handler. *)
LEMMA EnvironmentLifecycle ==
    ASSUME TypeInv, Lifecycle, Environment
    PROVE  Lifecycle'
<1> USE DEF TypeInv, TypeOK
<1>1. ASSUME NEW f \in Fd, ClientSend(f) \/ ClientGone(f)
      PROVE  Lifecycle'
  BY <1>1 DEF ClientSend, ClientGone, Lifecycle, mainVars, workerVars, queueVars
<1>2. CASE SignalMain
  BY <1>2 DEF SignalMain, Halted, Lifecycle, workerVars, queueVars
<1>3. CASE SignalAgain
  BY <1>3, KillLifecycle DEF SignalAgain
<1>4. ASSUME NEW w \in Workers, SignalWorker(w)
      PROVE  Lifecycle'
  BY <1>4 DEF SignalWorker, Goto, Lifecycle, mainVars, queueVars
<1> QED
  BY <1>1, <1>2, <1>3, <1>4 DEF Environment

(* Main starts them in order, and destroys them in order once joined. *)
LEMMA MainLifecycle ==
    ASSUME TypeInv, Lifecycle, Main
    PROVE  Lifecycle'
<1> USE PoolAssumption DEF TypeInv, TypeOK, Workers
<1>1. CASE StartWorker
  <2>1. /\ mpc = "start" /\ started' = started + 1 /\ started < N
        /\ wpc' = [wpc EXCEPT ![started] = "loop"]
        /\ mpc' = IF started + 1 = N THEN "listen" ELSE "start"
        /\ pending' = pending
    BY <1>1 DEF StartWorker, queueVars
  <2>2. ASSUME NEW w \in Workers
        PROVE  wpc'[w] = "none" <=> w >= started + 1
    <3>1. wpc[w] = "none" <=> w >= started
      BY <2>1 DEF Lifecycle
    <3>2. wpc'[w] = IF w = started THEN "loop" ELSE wpc[w]
      BY <2>1
    <3>3. w \in Int /\ started \in Int
      OBVIOUS
    <3> QED
      BY <3>1, <3>2, <3>3
  <2>3. \A w \in Workers : wpc'[w] # "destroyed"
    BY <2>1 DEF Lifecycle
  <2>4. \A w \in Workers : wpc'[w] = "none" => pending[w] = <<>>
    BY <2>1 DEF Lifecycle
  <2> QED
    BY <2>1, <2>2, <2>3, <2>4 DEF Lifecycle
<1>2. CASE StartWorkerFails \/ ListenFails \/ AcceptFails
  <2>1. /\ mpc \in {"start", "listen", "accept"}
        /\ target' = 0
        /\ mpc' = IF started = 0 THEN "returned" ELSE "stopwake"
        /\ UNCHANGED <<started, wpc, pending>>
    BY <1>2 DEF StartWorkerFails, ListenFails, AcceptFails, BeginStop,
       workerVars, queueVars
  <2>2. \A w \in Workers : wpc[w] = "none" <=> w >= started
    BY <2>1 DEF Lifecycle
  <2>3. CASE started = 0
    <3>1. \A w \in Workers : wpc[w] = "none"
      BY <2>2, <2>3
    <3> QED
      BY <2>1, <2>3, <3>1 DEF Lifecycle
  <2>4. CASE started # 0
    <3>1. target' < started /\ mpc' = "stopwake"
      BY <2>1, <2>4
    <3>2. \A w \in Workers : wpc[w] # "destroyed"
      BY <2>1 DEF Lifecycle
    <3> QED
      BY <2>1, <2>2, <3>1, <3>2 DEF Lifecycle
  <2> QED
    BY <2>3, <2>4
<1>3. CASE Listen \/ CheckStop \/ EnterAccept \/ Accept \/ SetNonblocking
  <2>1. /\ mpc \in {"listen", "check", "enter", "accept", "nonblock"}
        /\ mpc' \in {"check", "enter", "accept", "nonblock", "enqueue", "stopwake"}
        /\ mpc' = "stopwake" => target' = 0
        /\ UNCHANGED <<started, wpc, pending>>
    BY <1>3 DEF Listen, CheckStop, EnterAccept, Accept, SetNonblocking, workerVars,
       queueVars
  <2>2. /\ \A w \in Workers : wpc[w] = "none" <=> w >= started
        /\ \A w \in Workers : wpc[w] # "destroyed"
        /\ started = N /\ N > 0
    BY <2>1, PoolAssumption DEF Lifecycle
  <2> QED
    BY <2>1, <2>2 DEF Lifecycle
<1>4. CASE SetNonblockingFails \/ EnqueueFails
  <2>1. /\ mpc \in {"nonblock", "enqueue"} /\ mpc' = "check"
        /\ UNCHANGED <<started, wpc, pending>>
    BY <1>4 DEF SetNonblockingFails, EnqueueFails, DropAccepted, workerVars, queueVars
  <2> QED
    BY <2>1 DEF Lifecycle
<1>5. CASE EnqueuePendingFd
  BY <1>5 DEF EnqueuePendingFd, Lifecycle, workerVars
<1>6. CASE WakeWorker
  BY <1>6 DEF WakeWorker, Lifecycle, workerVars
<1>7. CASE StopWake
  <2>1. /\ mpc = "stopwake" /\ mpc' \in {"stopwake", "join"}
        /\ target' < started /\ (mpc' = "join" => target' = 0)
        /\ UNCHANGED <<started, wpc, pending>>
    BY <1>7 DEF StopWake, Lifecycle, workerVars
  <2> QED
    BY <2>1 DEF Lifecycle
<1>8. CASE JoinWorker
  <2>1. /\ mpc = "join" /\ wpc[target] = "done" /\ target < started
        /\ wpc' = [wpc EXCEPT ![target] = "destroyed"]
        /\ pending' = [pending EXCEPT ![target] = <<>>]
        /\ started' = started
        /\ IF target + 1 < started
             THEN target' = target + 1 /\ mpc' = "join"
             ELSE target' = 0 /\ mpc' = "returned"
    BY <1>8 DEF JoinWorker, Lifecycle
  <2>2. \A w \in Workers : wpc'[w] = "none" <=> w >= started
    BY <2>1 DEF Lifecycle
  <2>3. \A w \in Workers : wpc'[w] = "destroyed" <=> w < target + 1
    BY <2>1 DEF Lifecycle
  <2>4. \A w \in Workers : wpc'[w] = "none" => pending'[w] = <<>>
    BY <2>1 DEF Lifecycle
  <2>5. mpc' = "returned" => \A w \in Workers : wpc'[w] \in {"none", "destroyed"}
    BY <2>1, <2>2, <2>3
  <2>6. /\ mpc' \in {"join", "returned"} /\ started' = started
        /\ mpc' = "join" => target' < started /\ target' = target + 1
    BY <2>1
  <2> QED
    BY <2>2, <2>3, <2>4, <2>5, <2>6 DEF Lifecycle
<1> QED
  BY <1>1, <1>2, <1>3, <1>4, <1>5, <1>6, <1>7, <1>8 DEF Main

(* Lifecycle is an invariant. *)
LEMMA LifecycleInvariant == Spec => [](TypeInv /\ Lifecycle)
<1>1. Init => Lifecycle
  BY PoolAssumption DEF Init, Lifecycle, Workers
<1>2. TypeInv /\ Lifecycle /\ [Next]_vars => Lifecycle'
  <2>1. ASSUME Lifecycle, UNCHANGED vars PROVE Lifecycle'
    BY <2>1 DEF Lifecycle, vars, mainVars, workerVars, queueVars
  <2> QED
    BY <2>1, MainLifecycle, WorkerLifecycle, EnvironmentLifecycle
       DEF Next, Terminated
<1>3. Spec => []TypeInv
  BY TypeCorrect, PTL DEF TypeInv
<1> QED
  BY <1>1, <1>2, <1>3, PTL DEF Spec

(* Where a worker has no event left to handle: outside a batch, and from    *)
(* the test that ends its loop on.                                          *)
Rounds ==
    \A w \in Workers :
        /\ wpc[w] \in {"none", "loop", "wait", "done"} => events[w] = {}
        /\ final[w] => /\ events[w] = {}
                       /\ wpc[w] \in {"drain", "dequeue", "add", "done", "destroyed"}

(* A worker leaves its loop only between two batches. *)
LEMMA WorkerRounds ==
    ASSUME TypeInv, Rounds, NEW w \in Workers, Worker(w), ~Kill
    PROVE  Rounds'
<1> USE DEF TypeInv, TypeOK, Goto, TakeEvent, Rounds
<1>1. CASE LoopHead(w) \/ EpollWait(w) \/ EpollTimeout(w)
  BY <1>1 DEF LoopHead, EpollWait, EpollTimeout
<1>2. CASE DispatchNotifier(w) \/ DispatchHangup(w) \/ DispatchClient(w) \/ DispatchEnd(w)
  BY <1>2 DEF DispatchNotifier, DispatchHangup, DispatchClient, DispatchEnd
<1>3. CASE Recv(w) \/ RecvRejects(w) \/ RecvAgain(w) \/ RecvFails(w)
  BY <1>3 DEF Recv, RecvRejects, RecvAgain, RecvFails, FinishConnection
<1>4. CASE Process(w) \/ ProcessFails(w) \/ SendAll(w)
  BY <1>4 DEF Process, ProcessFails, SendAll, FinishConnection
<1>5. CASE DrainNotifyPipe(w) \/ DequeuePendingFd(w) \/ DequeueEmpty(w)
  BY <1>5 DEF DrainNotifyPipe, DequeuePendingFd, DequeueEmpty
<1>6. CASE AddClientToWorker(w) \/ AddClientFails(w)
  BY <1>6 DEF AddClientToWorker, AddClientFails
<1> QED
  BY <1>1, <1>2, <1>3, <1>4, <1>5, <1>6 DEF Worker, SendKilled

(* Rounds is an invariant. *)
LEMMA RoundsInvariant == Spec => []Rounds
<1>1. Init => Rounds
  BY DEF Init, Rounds
<1>k. Kill => Rounds'
  BY DEF Kill, Rounds
<1>2. ASSUME TypeInv, Lifecycle, Rounds, Main PROVE Rounds'
  <2>1. UNCHANGED <<events, final>>
    BY <1>2 DEF Main, StartWorker, StartWorkerFails, Listen, ListenFails,
       CheckStop, EnterAccept, Accept, AcceptFails, SetNonblocking,
       SetNonblockingFails, EnqueuePendingFd, EnqueueFails, WakeWorker, StopWake,
       JoinWorker, BeginStop, DropAccepted, workerVars
  <2>2. \A w \in Workers : \/ wpc'[w] = wpc[w]
                           \/ wpc[w] = "none" /\ wpc'[w] = "loop"
                           \/ wpc[w] = "done" /\ wpc'[w] = "destroyed"
    <3>1. CASE StartWorker
      <4>0. started \in Workers /\ started \in Int /\ mpc = "start"
        BY <1>2, <3>1, PoolAssumption DEF StartWorker, TypeInv, TypeOK, Workers
      <4>1. wpc[started] = "none"
        BY <1>2, <4>0 DEF Lifecycle
      <4> QED
        BY <1>2, <3>1, <4>0, <4>1 DEF StartWorker, TypeInv, TypeOK
    <3>2. CASE JoinWorker
      BY <1>2, <3>2 DEF JoinWorker, TypeInv, TypeOK
    <3>3. CASE ~StartWorker /\ ~JoinWorker
      BY <1>2, <3>3 DEF Main, StartWorkerFails, Listen, ListenFails,
         CheckStop, EnterAccept, Accept, AcceptFails, SetNonblocking,
         SetNonblockingFails, EnqueuePendingFd, EnqueueFails, WakeWorker, StopWake,
         BeginStop, DropAccepted, workerVars
    <3> QED
      BY <3>1, <3>2, <3>3
  <2> QED
    BY <1>2, <2>1, <2>2 DEF Rounds
<1>3. ASSUME TypeInv, Rounds, Environment PROVE Rounds'
  <2>1. CASE SignalAgain
    BY <1>k, <2>1 DEF SignalAgain
  <2>2. ASSUME NEW f \in Fd, ClientSend(f) \/ ClientGone(f) PROVE Rounds'
    BY <1>3, <2>2 DEF ClientSend, ClientGone, workerVars, Rounds
  <2>3. CASE SignalMain
    BY <1>3, <2>3 DEF SignalMain, workerVars, Rounds
  <2>4. ASSUME NEW w \in Workers, SignalWorker(w) PROVE Rounds'
    BY <1>3, <2>4 DEF SignalWorker, Goto, TypeInv, TypeOK, Rounds
  <2> QED
    BY <1>3, <2>1, <2>2, <2>3, <2>4 DEF Environment
<1>4. TypeInv /\ Lifecycle /\ Rounds /\ [Next]_vars => Rounds'
  <2>1. ASSUME Rounds, UNCHANGED vars PROVE Rounds'
    BY <2>1 DEF Rounds, vars, workerVars
  <2>2. ASSUME TypeInv, Rounds, NEW w \in Workers, Worker(w) PROVE Rounds'
    BY <1>k, <2>2, WorkerRounds
  <2> QED
    BY <1>2, <1>3, <2>1, <2>2 DEF Next, Terminated
<1> QED
  BY <1>1, <1>4, LifecycleInvariant, PTL DEF Spec

(* The workers main touches exist, whichever way the server starts, fails  *)
(* to start or stops: what stop_workers and httpfs_server_run rely on.     *)
THEOREM LifetimeCorrect == Spec => []WorkerLifetime
<1>1. TypeInv /\ Lifecycle => WorkerLifetime
  <2> SUFFICES ASSUME TypeInv, Lifecycle PROVE WorkerLifetime
    OBVIOUS
  <2>1. started \in 0 .. N /\ target \in 0 .. N /\ next \in 0 .. N - 1
    BY DEF TypeInv, TypeOK, Workers
  <2>2. mpc = "enqueue" => wpc[next] \notin {"none", "destroyed"}
    BY <2>1, PoolAssumption DEF Lifecycle, Workers
  <2>3. mpc \in {"wake", "stopwake", "join"} => target < N /\ target \in Workers
    BY <2>1, PoolAssumption DEF Lifecycle, Workers
  <2>4. mpc \in {"wake", "stopwake", "join"} =>
          wpc[target] \notin {"none", "destroyed"}
    BY <2>1, <2>3, PoolAssumption DEF Lifecycle, Workers
  <2> QED
    BY <2>2, <2>3, <2>4 DEF Lifecycle, WorkerLifetime
<1> QED
  BY <1>1, LifecycleInvariant, PTL

-----------------------------------------------------------------------------
(* No lost wake-up *)

(* After wake_worker the pipe holds a byte, whether or not it was full. *)
LEMMA WritePipeFills ==
    ASSUME pipe \in [Workers -> 0 .. PipeCap], NEW t, WritePipe(t)
    PROVE  /\ \A w \in Workers : pipe[w] > 0 => pipe'[w] > 0
           /\ t \in Workers => pipe'[t] > 0
<1>1. ASSUME NEW w \in Workers, w # t
      PROVE  pipe'[w] = pipe[w]
  BY <1>1 DEF WritePipe
<1>2. ASSUME t \in Workers
      PROVE  pipe'[t] > 0
  <2>1. pipe[t] \in 0 .. PipeCap
    BY <1>2
  <2>2. pipe'[t] = IF pipe[t] < PipeCap THEN pipe[t] + 1 ELSE pipe[t]
    BY <1>2 DEF WritePipe
  <2> QED
    BY <2>1, <2>2, PoolAssumption
<1> QED
  BY <1>1, <1>2

(* Main appends before it writes to the pipe, and a worker that starts     *)
(* finds its queue empty.                                                  *)
LEMMA MainWakeup ==
    ASSUME TypeInv, Lifecycle, NoLostWakeup, Main
    PROVE  NoLostWakeup'
<1> USE PoolAssumption DEF TypeInv, TypeOK, NoLostWakeup, Running
<1>1. CASE StartWorker
  <2>1. started \in Workers
    BY <1>1 DEF StartWorker, Workers
  <2>2. pending[started] = <<>>
    BY <1>1, <2>1 DEF StartWorker, Lifecycle
  <2> QED
    BY <1>1, <2>1, <2>2 DEF StartWorker, queueVars
<1>2. CASE StartWorkerFails \/ ListenFails \/ AcceptFails
  BY <1>2 DEF StartWorkerFails, ListenFails, AcceptFails, BeginStop,
     workerVars, queueVars
<1>3. CASE Listen \/ CheckStop \/ EnterAccept \/ Accept \/ SetNonblocking
  BY <1>3 DEF Listen, CheckStop, EnterAccept, Accept, SetNonblocking, workerVars,
     queueVars
<1>4. CASE SetNonblockingFails \/ EnqueueFails
  BY <1>4 DEF SetNonblockingFails, EnqueueFails, DropAccepted, workerVars,
     queueVars
<1>5. CASE EnqueuePendingFd
  BY <1>5 DEF EnqueuePendingFd, workerVars
<1>6. CASE WakeWorker \/ StopWake
  <2>1. /\ \A w \in Workers : pipe[w] > 0 => pipe'[w] > 0
        /\ target \in Workers => pipe'[target] > 0
    BY <1>6, WritePipeFills DEF WakeWorker, StopWake
  <2> QED
    BY <1>6, <2>1 DEF WakeWorker, StopWake, workerVars
<1>7. CASE JoinWorker
  <2>1. /\ mpc = "join" /\ target \in Workers
        /\ \A w \in Workers : w # target => /\ wpc'[w] = wpc[w]
                                         /\ pipe'[w] = pipe[w]
                                         /\ pending'[w] = pending[w]
        /\ pending'[target] = <<>>
    BY <1>7 DEF JoinWorker, Lifecycle, Workers
  <2> QED
    BY <2>1
<1> QED
  BY <1>1, <1>2, <1>3, <1>4, <1>5, <1>6, <1>7 DEF Main

(* A worker drains before it looks at the queue, and looks until it is      *)
(* empty.                                                                   *)
LEMMA WorkerWakeup ==
    ASSUME TypeInv, NoLostWakeup, NEW w \in Workers, Worker(w)
    PROVE  NoLostWakeup'
<1>1. CASE Kill
  BY <1>1 DEF Kill, NoLostWakeup
<1>2. CASE ~Kill
  <2>1. \A v \in Workers : v # w => /\ wpc'[v] = wpc[v]
                                   /\ pending'[v] = pending[v]
                                   /\ pipe'[v] = pipe[v]
    BY <1>2, WorkerFrame
  <2>2. mpc' = mpc /\ target' = target
    BY <1>2, WorkerFrame
  <2> DEFINE Safe == \/ pending[w] = <<>> \/ ~Running(w)
                     \/ pipe[w] > 0 \/ (mpc = "wake" /\ target = w)
                     \/ wpc[w] \in {"drain", "dequeue", "add"}
  <2>3. Safe
    BY DEF NoLostWakeup
  <2>4. Safe'
    <3> USE <2>2, <2>3 DEF Running, TypeInv, TypeOK, Goto, procVars, mainVars,
            queueVars, kernelVars
    <3>1. CASE LoopHead(w) \/ EpollWait(w) \/ EpollTimeout(w)
      BY <3>1 DEF LoopHead, EpollWait, EpollTimeout
    <3>2. CASE DispatchNotifier(w) \/ DispatchHangup(w) \/ DispatchClient(w)
               \/ DispatchEnd(w)
      BY <3>2 DEF DispatchNotifier, DispatchHangup, DispatchClient, DispatchEnd
    <3>3. CASE Recv(w) \/ RecvRejects(w) \/ RecvAgain(w) \/ RecvFails(w)
      BY <3>3 DEF Recv, RecvRejects, RecvAgain, RecvFails, FinishConnection
    <3>4. CASE Process(w) \/ ProcessFails(w) \/ SendAll(w)
      BY <3>4 DEF Process, ProcessFails, SendAll, FinishConnection
    <3>5. CASE DrainNotifyPipe(w) \/ DequeuePendingFd(w) \/ DequeueEmpty(w)
      BY <3>5 DEF DrainNotifyPipe, DequeuePendingFd, DequeueEmpty
    <3>6. CASE AddClientToWorker(w) \/ AddClientFails(w)
      BY <3>6 DEF AddClientToWorker, AddClientFails
    <3> QED
      BY <1>2, <3>1, <3>2, <3>3, <3>4, <3>5, <3>6 DEF Worker, SendKilled
  <2> QED
    BY <2>1, <2>2, <2>4 DEF NoLostWakeup, Running
<1> QED
  BY <1>1, <1>2

(* A signal that interrupts epoll_wait or accept loses no wake-up. *)
LEMMA EnvironmentWakeup ==
    ASSUME TypeInv, NoLostWakeup, Environment
    PROVE  NoLostWakeup'
<1> USE DEF TypeInv, TypeOK, NoLostWakeup, Running
<1>1. ASSUME NEW f \in Fd, ClientSend(f) \/ ClientGone(f)
      PROVE  NoLostWakeup'
  BY <1>1 DEF ClientSend, ClientGone, mainVars, workerVars, queueVars
<1>2. CASE SignalMain
  BY <1>2 DEF SignalMain, workerVars, queueVars
<1>3. CASE SignalAgain
  BY <1>3 DEF SignalAgain, Kill
<1>4. ASSUME NEW w \in Workers, SignalWorker(w)
      PROVE  NoLostWakeup'
  BY <1>4 DEF SignalWorker, Goto, mainVars, queueVars
<1> QED
  BY <1>1, <1>2, <1>3, <1>4 DEF Environment

(* No queued descriptor is ever forgotten, for every number of workers and *)
(* every pipe capacity: in particular the write to a full pipe that        *)
(* wake_worker ignores is harmless.                                        *)
THEOREM WakeupCorrect == Spec => []NoLostWakeup
<1>1. Init => NoLostWakeup
  BY DEF Init, NoLostWakeup
<1>2. TypeInv /\ Lifecycle /\ NoLostWakeup /\ [Next]_vars => NoLostWakeup'
  <2>1. ASSUME NoLostWakeup, UNCHANGED vars PROVE NoLostWakeup'
    BY <2>1 DEF NoLostWakeup, Running, vars, mainVars, workerVars, queueVars
  <2> QED
    BY <2>1, MainWakeup, WorkerWakeup, EnvironmentWakeup DEF Next, Terminated
<1> QED
  BY <1>1, <1>2, LifecycleInvariant, PTL DEF Spec

-----------------------------------------------------------------------------
(* Who owns a client descriptor, and which connections an event may name. *)

(* A queue never holds a descriptor twice. *)
Distinct(s) == \A i, j \in 1 .. Len(s) : s[i] = s[j] => i = j

(* The descriptor a worker has taken from its queue and not yet added. *)
Hand(w) == IF wpc[w] = "add" THEN {cur[w]} ELSE {}

(* What worker w has to close: its queue, its client_fd, its connections. *)
Mine(w) == Elements(pending[w]) \cup Hand(w) \cup reg[w]

(* The three places of one worker are disjoint. *)
Sorted(w) ==
    /\ Distinct(pending[w])
    /\ Elements(pending[w]) \cap reg[w] = {}
    /\ Elements(pending[w]) \cap Hand(w) = {}
    /\ Hand(w) \cap reg[w] = {}

(* The workers' and main's descriptors are disjoint, and with those that   *)
(* destroyed workers left behind they are the open ones.                   *)
Ownership ==
    /\ \A w \in Workers : Sorted(w)
    /\ \A v, w \in Workers : v # w => Mine(v) \cap Mine(w) = {}
    /\ \A w \in Workers : mfd \notin Mine(w) /\ left \cap Mine(w) = {}
    /\ mfd \notin left
    /\ \A f \in Fd : f \in open <=> \/ mfd = f \/ f \in left
                                    \/ \E w \in Workers : f \in Mine(w)

(* main holds a descriptor only between accept and the end of the hand-over,*)
(* a worker that does not run has no descriptor, and one can be left behind *)
(* only once main joins the workers.                                        *)
MainTidy ==
    /\ mpc \notin {"nonblock", "enqueue"} => mfd = NoFd
    /\ \A w \in Workers : wpc[w] = "destroyed" => pending[w] = <<>>
    /\ \A w \in Workers : wpc[w] \in {"none", "destroyed"} => reg[w] = {}
    /\ left # {} => mpc \in {"join", "returned"}

(* The events worker w has still to handle name distinct connections of its *)
(* own, other than the one it is working on.                                *)
EventsTidy(w) ==
    /\ \A e \in events[w] :
          /\ e[1] # Notifier => e[1] \in reg[w] /\ e[1] # cur[w]
          /\ \A d \in events[w] : d[1] = e[1] => d = e
    /\ wpc[w] \in {"recv", "process", "send"} => cur[w] \in reg[w]
    /\ wpc[w] \notin {"recv", "process", "send", "add"} => cur[w] = NoFd

OwnInv == Ownership /\ MainTidy /\ \A w \in Workers : EventsTidy(w)

-----------------------------------------------------------------------------
(* Queues *)

(* What enqueue_pending_fd does to the descriptors in a queue. *)
LEMMA ElementsAppend ==
    ASSUME NEW s \in Seq(Fd), NEW f \in Fd
    PROVE  /\ Elements(Append(s, f)) = Elements(s) \cup {f}
           /\ Distinct(s) /\ f \notin Elements(s) => Distinct(Append(s, f))
<1>1. /\ Len(Append(s, f)) = Len(s) + 1 /\ Len(s) \in Nat
      /\ Append(s, f)[Len(s) + 1] = f
      /\ \A i \in 1 .. Len(s) : Append(s, f)[i] = s[i]
  OBVIOUS
<1>2. Elements(Append(s, f)) = Elements(s) \cup {f}
  BY <1>1 DEF Elements
<1>3. ASSUME Distinct(s), f \notin Elements(s) PROVE Distinct(Append(s, f))
  BY <1>1, <1>3 DEF Distinct, Elements
<1> QED
  BY <1>2, <1>3

(* What dequeue_pending_fd does to them. *)
LEMMA ElementsTail ==
    ASSUME NEW s \in Seq(Fd), s # <<>>, Distinct(s)
    PROVE  /\ Head(s) \in Elements(s)
           /\ Elements(Tail(s)) = Elements(s) \ {Head(s)}
           /\ Distinct(Tail(s))
<1>1. /\ Len(s) \in Nat /\ Len(s) > 0 /\ Len(Tail(s)) = Len(s) - 1
      /\ Head(s) = s[1]
      /\ \A i \in 1 .. Len(s) - 1 : Tail(s)[i] = s[i + 1]
  OBVIOUS
<1>2. Head(s) \in Elements(s)
  BY <1>1 DEF Elements
<1>3. ASSUME NEW f \in Elements(Tail(s)) PROVE f \in Elements(s) \ {Head(s)}
  <2>1. PICK i \in 1 .. Len(s) - 1 : f = s[i + 1]
    BY <1>1, <1>3 DEF Elements
  <2>2. i + 1 \in 1 .. Len(s) /\ i + 1 # 1 /\ 1 \in 1 .. Len(s)
    BY <1>1
  <2> QED
    BY <1>1, <2>1, <2>2 DEF Elements, Distinct
<1>4. ASSUME NEW f \in Elements(s) \ {Head(s)} PROVE f \in Elements(Tail(s))
  <2>1. PICK i \in 1 .. Len(s) : f = s[i] /\ i # 1
    BY <1>1, <1>4 DEF Elements
  <2>2. i - 1 \in 1 .. Len(s) - 1 /\ Tail(s)[i - 1] = f
    BY <1>1, <2>1
  <2> QED
    BY <1>1, <2>2 DEF Elements
<1>5. Distinct(Tail(s))
  <2> SUFFICES ASSUME NEW i \in 1 .. Len(s) - 1, NEW j \in 1 .. Len(s) - 1,
                      s[i + 1] = s[j + 1]
               PROVE  i = j
    BY <1>1 DEF Distinct
  <2>1. i + 1 \in 1 .. Len(s) /\ j + 1 \in 1 .. Len(s)
    BY <1>1
  <2>2. i + 1 = j + 1
    BY <2>1 DEF Distinct
  <2> QED
    BY <2>2
<1> QED
  BY <1>2, <1>3, <1>4, <1>5

(* An empty queue holds nothing. *)
LEMMA ElementsEmpty == Elements(<<>>) = {} /\ Distinct(<<>>)
BY DEF Elements, Distinct

-----------------------------------------------------------------------------
(* The pointwise invariant says what FdOwnership says *)

(* Ownership implies FdOwnership: the places of a descriptor are disjoint. *)
LEMMA OwnershipMeansHolders ==
    ASSUME TypeInv, Ownership, MainTidy
    PROVE  FdOwnership
<1> SUFFICES ASSUME NEW f \in Fd
             PROVE  /\ f \in open <=> Holders(f) # {} \/ f \in left
                    /\ \A h, k \in Holders(f) : h = k
                    /\ f \in left => Holders(f) = {}
  BY DEF FdOwnership, MainTidy
<1>0. /\ \A w \in Workers : pending[w] \in Seq(Fd) /\ reg[w] \subseteq Fd
      /\ \A w \in Workers : DOMAIN pending[w] = 1 .. Len(pending[w])
  BY DEF TypeInv, TypeOK
<1> DEFINE IsMain(h)  == h = <<"main", 0, 0>> /\ mfd = f
           IsQueue(h) == \E w \in Workers : \E i \in 1 .. Len(pending[w]) :
                            h = <<"queue", w, i>> /\ pending[w][i] = f
           IsHand(h)  == \E w \in Workers :
                            h = <<"hand", w, 0>> /\ wpc[w] = "add" /\ cur[w] = f
           IsEpoll(h) == \E w \in Workers : h = <<"epoll", w, 0>> /\ f \in reg[w]
<1>1. ASSUME NEW h
      PROVE  h \in Holders(f) <=> IsMain(h) \/ IsQueue(h) \/ IsHand(h) \/ IsEpoll(h)
  <2> DEFINE M == {<<"main", x, 0>> : x \in {y \in {0} : mfd = f}}
             Q == UNION {{<<"queue", w, i>> : i \in {j \in DOMAIN pending[w] :
                                     pending[w][j] = f}} : w \in Workers}
             H == {<<"hand", w, 0>> :
                      w \in {v \in Workers : wpc[v] = "add" /\ cur[v] = f}}
             E == {<<"epoll", w, 0>> : w \in {v \in Workers : f \in reg[v]}}
  <2>0. h \in Holders(f) <=> h \in M \/ h \in Q \/ h \in H \/ h \in E
    BY DEF Holders
  <2>1. h \in M <=> IsMain(h)
    OBVIOUS
  <2>2. h \in Q <=> IsQueue(h)
    BY <1>0
  <2>3. h \in H <=> IsHand(h)
    OBVIOUS
  <2>4. h \in E <=> IsEpoll(h)
    OBVIOUS
  <2> HIDE DEF M, Q, H, E, IsMain, IsQueue, IsHand, IsEpoll
  <2> QED
    BY <2>0, <2>1, <2>2, <2>3, <2>4
<1>2. (\E h : IsMain(h) \/ IsQueue(h) \/ IsHand(h) \/ IsEpoll(h))
         <=> mfd = f \/ \E w \in Workers : f \in Mine(w)
  <2>2. ASSUME NEW w \in Workers
        PROVE  f \in Mine(w) <=>
                  \/ \E i \in 1 .. Len(pending[w]) : pending[w][i] = f
                  \/ wpc[w] = "add" /\ cur[w] = f
                  \/ f \in reg[w]
    <3>1. f \in Elements(pending[w]) <=>
             \E i \in 1 .. Len(pending[w]) : pending[w][i] = f
      BY DEF Elements
    <3>2. f \in Hand(w) <=> wpc[w] = "add" /\ cur[w] = f
      BY DEF Hand
    <3> QED
      BY <3>1, <3>2 DEF Mine
  <2>3. (\E h : IsMain(h)) <=> mfd = f
    OBVIOUS
  <2>4. (\E h : IsQueue(h)) <=>
           \E w \in Workers : \E i \in 1 .. Len(pending[w]) : pending[w][i] = f
    OBVIOUS
  <2>5. (\E h : IsHand(h)) <=> \E w \in Workers : wpc[w] = "add" /\ cur[w] = f
    OBVIOUS
  <2>6. (\E h : IsEpoll(h)) <=> \E w \in Workers : f \in reg[w]
    OBVIOUS
  <2> HIDE DEF IsMain, IsQueue, IsHand, IsEpoll
  <2> QED
    BY <2>2, <2>3, <2>4, <2>5, <2>6
<1>o. /\ f \in open <=> mfd = f \/ f \in left \/ \E w \in Workers : f \in Mine(w)
      /\ f \in left => mfd # f /\ \A w \in Workers : f \notin Mine(w)
  BY DEF Ownership
<1>n. Holders(f) # {} <=> \E h : IsMain(h) \/ IsQueue(h) \/ IsHand(h) \/ IsEpoll(h)
  BY <1>1
<1>3. ASSUME NEW h, NEW k, h \in Holders(f), k \in Holders(f) PROVE h = k
  <2>0. \A w \in Workers : /\ IsMain(h) \/ IsMain(k) => f \notin Mine(w)
    BY DEF Ownership
  <2>q. \A w \in Workers : \A i \in 1 .. Len(pending[w]) :
           pending[w][i] = f => f \in Elements(pending[w]) /\ f \in Mine(w)
    BY DEF Elements, Mine
  <2>h. \A w \in Workers : wpc[w] = "add" /\ cur[w] = f => f \in Hand(w) /\ f \in Mine(w)
    BY DEF Hand, Mine
  <2>e. \A w \in Workers : f \in reg[w] => f \in Mine(w)
    BY DEF Mine
  <2>s. \A v, w \in Workers : f \in Mine(v) /\ f \in Mine(w) => v = w
    BY DEF Ownership
  <2>d. \A w \in Workers :
           /\ ~(f \in Elements(pending[w]) /\ f \in Hand(w))
           /\ ~(f \in Elements(pending[w]) /\ f \in reg[w])
           /\ ~(f \in Hand(w) /\ f \in reg[w])
    BY DEF Ownership, Sorted
  <2>i. \A w \in Workers : \A i, j \in 1 .. Len(pending[w]) :
           pending[w][i] = f /\ pending[w][j] = f => i = j
    BY DEF Ownership, Sorted, Distinct
  <2>1. CASE IsMain(h)
    BY <1>1, <1>3, <2>1, <2>0, <2>q, <2>h, <2>e
  <2>2. CASE IsQueue(h)
    BY <1>1, <1>3, <2>2, <2>0, <2>q, <2>h, <2>e, <2>s, <2>d, <2>i
  <2>3. CASE IsHand(h)
    BY <1>1, <1>3, <2>3, <2>0, <2>q, <2>h, <2>e, <2>s, <2>d
  <2>4. CASE IsEpoll(h)
    BY <1>1, <1>3, <2>4, <2>0, <2>q, <2>h, <2>e, <2>s, <2>d
  <2> QED
    BY <1>1, <1>3, <2>1, <2>2, <2>3, <2>4
<1> HIDE DEF IsMain, IsQueue, IsHand, IsEpoll
<1> QED
  BY <1>2, <1>3, <1>n, <1>o

-----------------------------------------------------------------------------
(* A worker's steps *)

(* What a step of worker w leaves alone of main and of the other workers. *)
LEMMA WorkerLocality ==
    ASSUME TypeInv, NEW w \in Workers, Worker(w), ~Kill
    PROVE  /\ mfd' = mfd /\ mpc' = mpc /\ left' = left
           /\ \A v \in Workers : v # w => /\ wpc'[v] = wpc[v] /\ cur'[v] = cur[v]
                                         /\ pending'[v] = pending[v]
                                         /\ reg'[v] = reg[v]
                                         /\ events'[v] = events[v]
<1>0. \A v \in Workers : v # w => wpc'[v] = wpc[v] /\ pending'[v] = pending[v]
  BY WorkerFrame
<1> USE DEF TypeInv, TypeOK, procVars, mainVars, kernelVars, TakeEvent,
        CloseConnection, FinishConnection
<1>1. CASE LoopHead(w) \/ EpollWait(w) \/ EpollTimeout(w)
  BY <1>0, <1>1 DEF LoopHead, EpollWait, EpollTimeout
<1>2. CASE DispatchNotifier(w) \/ DispatchHangup(w) \/ DispatchClient(w) \/ DispatchEnd(w)
  BY <1>0, <1>2 DEF DispatchNotifier, DispatchHangup, DispatchClient, DispatchEnd
<1>3. CASE Recv(w) \/ RecvRejects(w) \/ RecvAgain(w) \/ RecvFails(w)
  BY <1>0, <1>3 DEF Recv, RecvRejects, RecvAgain, RecvFails
<1>4. CASE Process(w) \/ ProcessFails(w) \/ SendAll(w)
  BY <1>0, <1>4 DEF Process, ProcessFails, SendAll
<1>5. CASE DrainNotifyPipe(w) \/ DequeuePendingFd(w) \/ DequeueEmpty(w)
  BY <1>0, <1>5 DEF DrainNotifyPipe, DequeuePendingFd, DequeueEmpty
<1>6. CASE AddClientToWorker(w) \/ AddClientFails(w)
  BY <1>0, <1>6 DEF AddClientToWorker, AddClientFails
<1> QED
  BY <1>1, <1>2, <1>3, <1>4, <1>5, <1>6 DEF Worker, SendKilled

(* What happens to a worker whose variables do not change. *)
LEMMA SameWorker ==
    ASSUME NEW v \in Workers, wpc'[v] = wpc[v], cur'[v] = cur[v],
           pending'[v] = pending[v], reg'[v] = reg[v], events'[v] = events[v]
    PROVE  /\ Mine(v)' = Mine(v) /\ Sorted(v)' = Sorted(v)
           /\ EventsTidy(v)' = EventsTidy(v)
<1>1. Hand(v)' = Hand(v) /\ Elements(pending[v])' = Elements(pending[v])
  BY DEF Hand, Elements
<1>2. Mine(v)' = Mine(v)
  BY <1>1 DEF Mine
<1>3. Sorted(v)' = Sorted(v)
  BY <1>1 DEF Sorted, Distinct
<1>4. EventsTidy(v)' = EventsTidy(v)
  BY DEF EventsTidy
<1> QED
  BY <1>2, <1>3, <1>4

(* A worker may only close descriptors of its own. *)
LEMMA ReleaseOwnership ==
    ASSUME TypeInv, Ownership, NEW w \in Workers, NEW S, S \subseteq Mine(w),
           Mine(w)' = Mine(w) \ S, open' = open \ S, Sorted(w)', mfd' = mfd,
           left' = left,
           \A v \in Workers : v # w => Mine(v)' = Mine(v) /\ Sorted(v)'
    PROVE  Ownership'
<1>1. \A v \in Workers : Sorted(v)'
  OBVIOUS
<1>2. \A v \in Workers : Mine(v)' \subseteq Mine(v)
  OBVIOUS
<1>3. \A u, v \in Workers : u # v => Mine(u)' \cap Mine(v)' = {}
  BY <1>2 DEF Ownership
<1>4. /\ \A v \in Workers : mfd' \notin Mine(v)' /\ left' \cap Mine(v)' = {}
      /\ mfd' \notin left'
  BY <1>2 DEF Ownership
<1>5. ASSUME NEW f \in Fd
      PROVE  f \in open' <=> \/ mfd' = f \/ f \in left'
                             \/ \E v \in Workers : f \in Mine(v)'
  <2>1. CASE f \in S
    <3>1. f \in Mine(w) /\ mfd # f /\ f \notin left
      BY <2>1 DEF Ownership
    <3>2. \A v \in Workers : v # w => f \notin Mine(v)
      BY <3>1 DEF Ownership
    <3> QED
      BY <2>1, <3>1, <3>2
  <2>2. CASE f \notin S
    <3>1. \A v \in Workers : f \in Mine(v)' <=> f \in Mine(v)
      BY <2>2
    <3> QED
      BY <2>2, <3>1 DEF Ownership
  <2> QED
    BY <2>1, <2>2
<1> QED
  BY <1>1, <1>3, <1>4, <1>5 DEF Ownership

(* Steps that touch neither a queue nor a registration move no descriptor. *)
LEMMA QuietStep ==
    ASSUME NEW w \in Workers, Sorted(w), wpc[w] # "add", wpc'[w] # "add",
           pending'[w] = pending[w], reg'[w] = reg[w]
    PROVE  Mine(w)' = Mine(w) /\ Sorted(w)'
<1>1. Hand(w) = {} /\ Hand(w)' = {}
  BY DEF Hand
<1>2. Elements(pending[w])' = Elements(pending[w])
  BY DEF Elements
<1> QED
  BY <1>1, <1>2 DEF Mine, Sorted, Distinct

(* An event's first component is its source. *)
LEMMA EventSource == ASSUME NEW s, NEW b PROVE <<s, b>>[1] = s
OBVIOUS

(* The events epoll_wait returns name distinct connections of the worker. *)
LEMMA EpollWaitTidy ==
    ASSUME TypeInv, NEW w \in Workers, EventsTidy(w), EpollWait(w)
    PROVE  EventsTidy(w)'
<1>0. /\ reg[w] \subseteq Fd /\ NoFd \notin Fd /\ Notifier \notin Fd
      /\ w \in DOMAIN wpc /\ w \in DOMAIN events
  BY PoolAssumption DEF TypeInv, TypeOK
<1>1. PICK S \in SUBSET Ready(w) : events' = [events EXCEPT ![w] = S]
  BY DEF EpollWait, Batch
<1>2. /\ cur' = cur /\ reg' = reg /\ wpc[w] = "wait" /\ wpc'[w] = "dispatch"
      /\ cur[w] = NoFd /\ events'[w] = S
  BY <1>0, <1>1 DEF EpollWait, Goto, EventsTidy, kernelVars
<1>3. ASSUME NEW e \in Ready(w)
      PROVE  \/ \E f \in reg[w] : e = <<f, conn[f].gone>>
             \/ e = <<Notifier, FALSE>>
  BY DEF Ready
<1>4. ASSUME NEW e \in S, NEW d \in S, d[1] = e[1] PROVE d = e
  <2>1. CASE e = <<Notifier, FALSE>>
    <3>1. \A f \in reg[w] : d # <<f, conn[f].gone>>
      BY <1>0, <1>4, <2>1
    <3> QED
      BY <1>3, <2>1, <3>1
  <2>2. ASSUME NEW f \in reg[w], e = <<f, conn[f].gone>> PROVE d = e
    <3>1. d[1] = f /\ f # Notifier
      BY <1>0, <1>4, <2>2
    <3>2. PICK g \in reg[w] : d = <<g, conn[g].gone>>
      <4>1. d # <<Notifier, FALSE>>
        BY <3>1, EventSource
      <4> QED
        BY <1>3, <4>1
    <3>3. g = f
      BY <3>1, <3>2
    <3> QED
      BY <2>2, <3>2, <3>3
  <2> QED
    BY <1>3, <2>1, <2>2
<1>5. ASSUME NEW e \in S, e[1] # Notifier PROVE e[1] \in reg[w] /\ e[1] # NoFd
  <2>1. PICK f \in reg[w] : e = <<f, conn[f].gone>>
    <3>1. e # <<Notifier, FALSE>>
      BY <1>5, EventSource
    <3> QED
      BY <1>3, <3>1
  <2> QED
    BY <1>0, <2>1
<1> QED
  BY <1>2, <1>4, <1>5 DEF EventsTidy

(* Handling an event, or waiting for the next, keeps the rest of the batch. *)
LEMMA DispatchTidy ==
    ASSUME TypeInv, NEW w \in Workers, EventsTidy(w),
           DispatchNotifier(w) \/ DispatchClient(w)
    PROVE  EventsTidy(w)'
<1> USE DEF TypeInv, TypeOK, kernelVars, Goto, TakeEvent
<1>1. PICK e \in events[w] : TakeEvent(w, e) /\ cur'[w] \in {cur[w], e[1]}
                             /\ (DispatchClient(w) => e[1] # Notifier /\ cur'[w] = e[1])
  BY DEF DispatchNotifier, DispatchClient
<1>2. /\ events'[w] = events[w] \ {e} /\ reg' = reg /\ wpc[w] = "dispatch"
      /\ wpc'[w] = IF DispatchClient(w) THEN "recv" ELSE "drain"
      /\ ~DispatchClient(w) => cur' = cur
  BY <1>1 DEF DispatchNotifier, DispatchClient
<1>3. \A d \in events[w] \ {e} : d[1] # e[1]
  BY DEF EventsTidy
<1>4. CASE DispatchClient(w)
  BY <1>1, <1>2, <1>3, <1>4 DEF EventsTidy
<1>5. CASE ~DispatchClient(w)
  BY <1>2, <1>5 DEF EventsTidy
<1> QED
  BY <1>4, <1>5

(* Every step of a worker closes at most a descriptor of its own, and keeps *)
(* its places disjoint and its events valid.                                *)
LEMMA WorkerReleases ==
    ASSUME TypeInv, NEW w \in Workers, Sorted(w), EventsTidy(w), Worker(w), ~Kill
    PROVE  /\ \E S \in SUBSET Mine(w) : Mine(w)' = Mine(w) \ S /\ open' = open \ S
           /\ Sorted(w)' /\ EventsTidy(w)'
<1> USE DEF TypeInv, TypeOK, Goto
<1>t. reg[w] \subseteq Fd /\ pending[w] \in Seq(Fd) /\ NoFd \notin Fd
  BY PoolAssumption
<1>1. CASE \/ LoopHead(w) \/ EpollTimeout(w) \/ DispatchEnd(w) \/ Recv(w)
           \/ RecvRejects(w) \/ RecvAgain(w) \/ Process(w) \/ DrainNotifyPipe(w)
           \/ DequeueEmpty(w)
  <2>1. /\ wpc[w] # "add" /\ wpc'[w] # "add" /\ open' = open
        /\ UNCHANGED <<pending, reg, events>>
    BY <1>1 DEF LoopHead, EpollTimeout, DispatchEnd, Recv, RecvRejects,
       RecvAgain, Process, DrainNotifyPipe, DequeueEmpty, queueVars, kernelVars
  <2>2. EventsTidy(w)'
    <3>1. CASE RecvAgain(w)
      <4>1. cur'[w] = NoFd /\ wpc'[w] = "dispatch" /\ \A e \in events[w] :
              e[1] # Notifier => e[1] \in reg[w] /\ e[1] # NoFd
        BY <1>t, <3>1 DEF RecvAgain, EventsTidy
      <4> QED
        BY <2>1, <4>1 DEF EventsTidy
    <3>2. CASE ~RecvAgain(w)
      <4>1. /\ cur' = cur
            /\ wpc[w] \in {"recv", "process", "send"} <=> wpc'[w] \in {"recv", "process", "send"}
        BY <1>1, <3>2 DEF LoopHead, EpollTimeout, DispatchEnd, Recv, RecvRejects,
           Process, DrainNotifyPipe, DequeueEmpty
      <4> QED
        BY <2>1, <4>1 DEF EventsTidy
    <3> QED
      BY <3>1, <3>2
  <2>3. Mine(w)' = Mine(w) /\ Sorted(w)'
    BY <2>1, QuietStep
  <2>4. Mine(w)' = Mine(w) \ {} /\ open' = open \ {}
    BY <2>1, <2>3
  <2> QED
    BY <2>2, <2>3, <2>4
<1>2. CASE EpollWait(w) \/ DispatchNotifier(w) \/ DispatchClient(w)
  <2>1. /\ wpc[w] # "add" /\ wpc'[w] # "add" /\ open' = open
        /\ UNCHANGED <<pending, reg>>
    BY <1>2 DEF EpollWait, DispatchNotifier, DispatchClient, queueVars, kernelVars
  <2>2. Mine(w)' = Mine(w) /\ Sorted(w)'
    BY <2>1, QuietStep
  <2>3. Mine(w)' = Mine(w) \ {} /\ open' = open \ {}
    BY <2>1, <2>2
  <2>4. EventsTidy(w)'
    BY <1>2, EpollWaitTidy, DispatchTidy
  <2> QED
    BY <2>2, <2>3, <2>4
<1>3. CASE DispatchHangup(w) \/ RecvFails(w) \/ ProcessFails(w) \/ SendAll(w)
  <2>1. PICK f \in reg[w] :
           /\ reg'[w] = reg[w] \ {f} /\ open' = open \ {f}
           /\ \A e \in events'[w] : e \in events[w] /\ e[1] # f
           /\ wpc'[w] = "dispatch" /\ wpc[w] # "add"
           /\ cur'[w] = NoFd
    <3>1. CASE DispatchHangup(w)
      <4>1. PICK e \in events[w] : e[1] # Notifier /\ TakeEvent(w, e)
                                   /\ CloseConnection(w, e[1])
        BY <3>1 DEF DispatchHangup
      <4>2. e[1] \in reg[w] /\ \A d \in events[w] : d[1] = e[1] => d = e
        BY <4>1 DEF EventsTidy
      <4>3. wpc' = wpc /\ wpc[w] = "dispatch" /\ cur' = cur /\ cur[w] = NoFd
        BY <3>1 DEF DispatchHangup, EventsTidy
      <4>4. /\ events'[w] = events[w] \ {e} /\ open' = open \ {e[1]}
            /\ reg'[w] = reg[w] \ {e[1]}
        BY <4>1 DEF TakeEvent, CloseConnection, Close
      <4> QED
        BY <4>2, <4>3, <4>4
    <3>2. CASE RecvFails(w) \/ ProcessFails(w) \/ SendAll(w)
      <4>1. wpc[w] \in {"recv", "process", "send"} /\ FinishConnection(w)
        BY <3>2 DEF RecvFails, ProcessFails, SendAll
      <4>2. cur[w] \in reg[w] /\ \A e \in events[w] : e[1] # cur[w]
        BY <1>t, <4>1, PoolAssumption DEF EventsTidy
      <4>3. /\ events' = events /\ open' = open \ {cur[w]}
            /\ reg'[w] = reg[w] \ {cur[w]} /\ cur'[w] = NoFd
            /\ wpc'[w] = "dispatch"
        BY <4>1 DEF FinishConnection, CloseConnection, Close
      <4> QED
        BY <4>1, <4>2, <4>3
    <3> QED
      BY <1>3, <3>1, <3>2
  <2>2. pending' = pending
    BY <1>3 DEF DispatchHangup, RecvFails, ProcessFails, SendAll,
       FinishConnection, queueVars
  <2>3. /\ Hand(w) = {} /\ Hand(w)' = {}
        /\ Elements(pending[w])' = Elements(pending[w])
    BY <2>1, <2>2 DEF Hand, Elements
  <2>4. f \notin Elements(pending[w])
    BY <2>1 DEF Sorted
  <2>5. Mine(w)' = Mine(w) \ {f} /\ {f} \subseteq Mine(w)
    BY <2>1, <2>3, <2>4 DEF Mine
  <2>6. Sorted(w)'
    BY <2>1, <2>2, <2>3 DEF Sorted, Distinct
  <2>7. EventsTidy(w)'
    <3>1. \A e \in events'[w] : e[1] # Notifier => e[1] \in reg'[w] /\ e[1] # NoFd
      BY <1>t, <2>1 DEF EventsTidy
    <3>2. \A e, d \in events'[w] : d[1] = e[1] => d = e
      BY <2>1 DEF EventsTidy
    <3> QED
      BY <2>1, <3>1, <3>2 DEF EventsTidy
  <2> QED
    BY <2>1, <2>5, <2>6, <2>7
<1>4. CASE DequeuePendingFd(w)
  <2>1. /\ wpc[w] = "dequeue" /\ wpc'[w] = "add" /\ pending[w] # <<>>
        /\ cur'[w] = Head(pending[w]) /\ pending'[w] = Tail(pending[w])
        /\ UNCHANGED <<events, reg, open>>
    BY <1>4 DEF DequeuePendingFd, kernelVars
  <2>2. /\ Head(pending[w]) \in Elements(pending[w])
        /\ Elements(Tail(pending[w])) = Elements(pending[w]) \ {Head(pending[w])}
        /\ Distinct(Tail(pending[w]))
    BY <1>t, <2>1, ElementsTail DEF Sorted
  <2>3. /\ Hand(w) = {} /\ Hand(w)' = {Head(pending[w])}
        /\ Elements(pending[w])' = Elements(Tail(pending[w]))
        /\ Distinct(pending[w])' = Distinct(Tail(pending[w]))
    BY <2>1 DEF Hand, Elements, Distinct
  <2>4. Mine(w)' = Mine(w) \ {} /\ open' = open \ {}
    BY <2>1, <2>2, <2>3 DEF Mine
  <2>5. Sorted(w)'
    BY <2>1, <2>2, <2>3 DEF Sorted
  <2>6. EventsTidy(w)'
    <3>1. Head(pending[w]) \notin reg[w]
      BY <2>2 DEF Sorted
    <3> QED
      BY <2>1, <3>1 DEF EventsTidy
  <2> QED
    BY <2>4, <2>5, <2>6
<1>5. CASE AddClientToWorker(w) \/ AddClientFails(w)
  <2>1. /\ wpc[w] = "add" /\ wpc'[w] = "dequeue" /\ cur'[w] = NoFd
        /\ UNCHANGED <<events, pending>>
    BY <1>5 DEF AddClientToWorker, AddClientFails, queueVars
  <2>2. /\ Hand(w) = {cur[w]} /\ Hand(w)' = {}
        /\ Elements(pending[w])' = Elements(pending[w])
    BY <2>1 DEF Hand, Elements
  <2>3. EventsTidy(w)'
    <3>1. reg[w] \subseteq reg'[w]
      BY <1>5 DEF AddClientToWorker, AddClientFails
    <3>2. \A e \in events[w] : e[1] # Notifier => e[1] \in reg'[w] /\ e[1] # NoFd
      BY <1>t, <3>1 DEF EventsTidy
    <3> QED
      BY <2>1, <3>2 DEF EventsTidy
  <2>4. CASE AddClientToWorker(w)
    <3>1. reg'[w] = reg[w] \cup {cur[w]} /\ open' = open
      BY <2>4 DEF AddClientToWorker
    <3>2. Mine(w)' = Mine(w) \ {} /\ open' = open \ {}
      BY <2>2, <3>1 DEF Mine
    <3>3. Sorted(w)'
      BY <2>1, <2>2, <3>1 DEF Sorted, Distinct
    <3> QED
      BY <2>3, <3>2, <3>3
  <2>5. CASE AddClientFails(w)
    <3>1. reg' = reg /\ open' = open \ {cur[w]}
      BY <2>5 DEF AddClientFails, Close
    <3>2. Mine(w)' = Mine(w) \ {cur[w]} /\ {cur[w]} \subseteq Mine(w)
      BY <2>2, <3>1 DEF Mine, Sorted
    <3>3. Sorted(w)'
      BY <2>1, <2>2, <3>1 DEF Sorted, Distinct
    <3> QED
      BY <2>3, <3>1, <3>2, <3>3
  <2> QED
    BY <1>5, <2>4, <2>5
<1> QED
  BY <1>1, <1>2, <1>3, <1>4, <1>5 DEF Worker, SendKilled

(* A killed process leaves nothing open. *)
LEMMA KillOwn == ASSUME Kill PROVE OwnInv'
<1>1. \A w \in Workers : /\ pending'[w] = <<>> /\ reg'[w] = {} /\ events'[w] = {}
                         /\ cur'[w] = NoFd /\ wpc'[w] = "destroyed"
  BY DEF Kill
<1>2. mfd' = NoFd /\ open' = {} /\ left' = {}
  BY DEF Kill
<1>3. ASSUME NEW w \in Workers PROVE Mine(w)' = {} /\ Sorted(w)'
  <2>1. Hand(w)' = {} /\ Elements(pending'[w]) = {} /\ Distinct(pending'[w])
    BY <1>1, ElementsEmpty DEF Hand
  <2>2. Elements(pending[w])' = Elements(pending'[w])
    BY DEF Elements
  <2> QED
    BY <1>1, <2>1, <2>2 DEF Mine, Sorted, Distinct
<1>4. Ownership'
  BY <1>2, <1>3, PoolAssumption DEF Ownership
<1>5. MainTidy'
  BY <1>1, <1>2 DEF MainTidy
<1>6. \A w \in Workers : EventsTidy(w)'
  BY <1>1 DEF EventsTidy
<1> QED
  BY <1>4, <1>5, <1>6 DEF OwnInv

(* A worker's step keeps the invariant. *)
LEMMA WorkerOwn ==
    ASSUME TypeInv, OwnInv, NEW w \in Workers, Worker(w)
    PROVE  OwnInv'
<1>1. CASE Kill
  BY <1>1, KillOwn
<1>2. CASE ~Kill
  <2>0. Sorted(w) /\ EventsTidy(w) /\ Ownership
    BY DEF OwnInv, Ownership
  <2>1. /\ \E S \in SUBSET Mine(w) : Mine(w)' = Mine(w) \ S /\ open' = open \ S
        /\ Sorted(w)' /\ EventsTidy(w)'
    BY <1>2, <2>0, WorkerReleases
  <2>2. \A v \in Workers : v # w => /\ Mine(v)' = Mine(v) /\ Sorted(v)' = Sorted(v)
                                   /\ EventsTidy(v)' = EventsTidy(v)
    BY <1>2, WorkerLocality, SameWorker
  <2>3. mfd' = mfd /\ mpc' = mpc /\ left' = left
    BY <1>2, WorkerLocality
  <2>4. Ownership'
    BY <2>0, <2>1, <2>2, <2>3, ReleaseOwnership DEF Ownership
  <2>5. MainTidy'
    <3>1. /\ wpc'[w] \notin {"none", "destroyed"}
          /\ \A v \in Workers : v # w => /\ wpc'[v] = wpc[v] /\ reg'[v] = reg[v]
                                         /\ pending'[v] = pending[v]
      BY <1>2, WorkerFrame, WorkerLocality
    <3> QED
      BY <2>3, <3>1 DEF OwnInv, MainTidy
  <2> QED
    BY <2>1, <2>2, <2>4, <2>5 DEF OwnInv
<1> QED
  BY <1>1, <1>2

-----------------------------------------------------------------------------
(* The main thread's and the environment's steps *)

(* Steps that move no descriptor keep the owners. *)
LEMMA QuietOwn ==
    ASSUME OwnInv, UNCHANGED <<mfd, open, left, pending, reg>>,
           \A w \in Workers : /\ Mine(w)' = Mine(w) /\ Sorted(w)'
                              /\ EventsTidy(w)'
    PROVE  Ownership' /\ \A w \in Workers : EventsTidy(w)'
BY DEF OwnInv, Ownership

(* Every descriptor a worker holds is a client descriptor. *)
LEMMA MineType ==
    ASSUME TypeInv, NEW w \in Workers
    PROVE  Mine(w) \subseteq Fd
<1>1. pending[w] \in Seq(Fd) /\ reg[w] \subseteq Fd
  BY DEF TypeInv, TypeOK
<1>2. Elements(pending[w]) \subseteq Fd
  BY <1>1 DEF Elements
<1>3. Hand(w) \subseteq Fd
  BY DEF TypeInv, HoldsFd, Hand
<1> QED
  BY <1>1, <1>2, <1>3 DEF Mine

(* The main thread's steps keep the invariant. *)
LEMMA MainOwn ==
    ASSUME TypeInv, Lifecycle, Rounds, OwnInv, Main
    PROVE  OwnInv'
<1>0. Ownership /\ MainTidy /\ \A w \in Workers : Sorted(w) /\ EventsTidy(w)
  BY DEF OwnInv, Ownership
<1>m. \A w \in Workers : Mine(w) \subseteq Fd
  BY MineType
<1>1. CASE StartWorker
  <2>1. /\ started \in Workers /\ wpc[started] = "none"
        /\ wpc' = [wpc EXCEPT ![started] = "loop"]
        /\ UNCHANGED <<mfd, open, left, pending, reg, cur, events>>
    BY <1>1, PoolAssumption DEF StartWorker, Lifecycle, TypeInv, TypeOK, Workers,
       procVars, queueVars, kernelVars
  <2>2. /\ wpc'[started] = "loop"
        /\ \A w \in Workers : w # started => wpc'[w] = wpc[w]
    BY <2>1 DEF TypeInv, TypeOK
  <2>3. ASSUME NEW w \in Workers
        PROVE  Mine(w)' = Mine(w) /\ Sorted(w)' /\ EventsTidy(w)'
    <3>1. CASE w # started
      BY <1>0, <2>1, <2>2, <3>1, SameWorker
    <3>2. CASE w = started
      <4>1. Mine(w)' = Mine(w) /\ Sorted(w)'
        BY <1>0, <2>1, <2>2, <3>2, QuietStep
      <4>2. EventsTidy(w)'
        BY <1>0, <2>1, <2>2, <3>2 DEF EventsTidy
      <4> QED
        BY <4>1, <4>2
    <3> QED
      BY <3>1, <3>2
  <2>4. MainTidy'
    BY <1>0, <1>1, <2>1, <2>2 DEF MainTidy, StartWorker
  <2> QED
    BY <2>1, <2>3, <2>4, QuietOwn DEF OwnInv
<1>2. CASE \/ StartWorkerFails \/ Listen \/ ListenFails \/ CheckStop \/ EnterAccept
           \/ AcceptFails \/ SetNonblocking \/ WakeWorker \/ StopWake
  <2>1. UNCHANGED <<mfd, open, left, pending, reg, cur, events, wpc>>
    BY <1>2 DEF StartWorkerFails, Listen, ListenFails, CheckStop, EnterAccept,
       AcceptFails, SetNonblocking, WakeWorker, StopWake, BeginStop, procVars,
       workerVars, queueVars, kernelVars
  <2>2. /\ mpc' \notin {"nonblock", "enqueue"} => mpc \notin {"nonblock", "enqueue"}
        /\ mpc \notin {"join", "returned"}
    BY <1>2 DEF StartWorkerFails, Listen, ListenFails, CheckStop, EnterAccept,
       AcceptFails, SetNonblocking, WakeWorker, StopWake, BeginStop
  <2>3. \A w \in Workers : Mine(w)' = Mine(w) /\ Sorted(w)' /\ EventsTidy(w)'
    BY <1>0, <2>1, SameWorker
  <2>4. MainTidy'
    BY <1>0, <2>1, <2>2 DEF MainTidy
  <2> QED
    BY <2>1, <2>3, <2>4, QuietOwn DEF OwnInv
<1>3. CASE Accept
  <2>1. PICK f \in Fd \ open : mfd' = f /\ open' = open \cup {f}
    BY <1>3 DEF Accept
  <2>2. /\ mfd = NoFd /\ mpc' = "nonblock"
        /\ left = {} /\ left' = {}
        /\ UNCHANGED <<pending, reg, cur, events, wpc>>
    BY <1>0, <1>3 DEF Accept, MainTidy, procVars, workerVars, queueVars
  <2>3. \A w \in Workers : Mine(w)' = Mine(w) /\ Sorted(w)' /\ EventsTidy(w)'
    BY <1>0, <2>2, SameWorker
  <2>4. \A w \in Workers : f \notin Mine(w)
    BY <1>0, <2>1 DEF Ownership
  <2>5. Ownership'
    BY <1>0, <2>1, <2>2, <2>3, <2>4, PoolAssumption DEF Ownership
  <2>6. MainTidy'
    BY <1>0, <2>2 DEF MainTidy
  <2> QED
    BY <2>3, <2>5, <2>6 DEF OwnInv
<1>4. CASE SetNonblockingFails \/ EnqueueFails
  <2>1. /\ open' = open \ {mfd} /\ mfd' = NoFd /\ left = {} /\ left' = {}
        /\ UNCHANGED <<pending, reg, cur, events, wpc>>
    BY <1>0, <1>4 DEF SetNonblockingFails, EnqueueFails, DropAccepted, Close,
       MainTidy, procVars, workerVars, queueVars
  <2>2. \A w \in Workers : Mine(w)' = Mine(w) /\ Sorted(w)' /\ EventsTidy(w)'
    BY <1>0, <2>1, SameWorker
  <2>3. Ownership'
    BY <1>0, <1>m, <2>1, <2>2, PoolAssumption DEF Ownership
  <2>4. MainTidy'
    BY <1>0, <2>1 DEF MainTidy
  <2> QED
    BY <2>2, <2>3, <2>4 DEF OwnInv
<1>5. CASE EnqueuePendingFd
  <2>0. PICK t \in Workers : t = next
    BY DEF TypeInv, TypeOK
  <2>1. /\ mfd \in Fd /\ mfd' = NoFd /\ mpc = "enqueue" /\ left = {} /\ left' = {}
        /\ pending'[t] = Append(pending[t], mfd)
        /\ \A w \in Workers : w # t => pending'[w] = pending[w]
        /\ UNCHANGED <<reg, cur, events, wpc, open>>
    BY <1>0, <1>5, <2>0 DEF EnqueuePendingFd, TypeInv, TypeOK, HoldsFd, MainTidy,
       procVars, workerVars, kernelVars
  <2>2. /\ Elements(pending'[t]) = Elements(pending[t]) \cup {mfd}
        /\ Distinct(pending'[t])
    <3>1. pending[t] \in Seq(Fd) /\ Distinct(pending[t])
          /\ mfd \notin Elements(pending[t])
      BY <1>0, <2>1 DEF Ownership, Sorted, Mine, TypeInv, TypeOK
    <3> QED
      BY <2>1, <3>1, ElementsAppend
  <2>3. \A w \in Workers : w # t =>
           Mine(w)' = Mine(w) /\ Sorted(w)' /\ EventsTidy(w)'
    BY <1>0, <2>1, SameWorker
  <2>4. /\ Hand(t)' = Hand(t)
        /\ Elements(pending[t])' = Elements(pending[t]) \cup {mfd}
        /\ Distinct(pending[t])'
    BY <2>1, <2>2 DEF Hand, Elements, Distinct
  <2>5. /\ \A w \in Workers : mfd \notin Mine(w)
        /\ mfd \notin Hand(t) /\ mfd \notin reg[t]
    BY <1>0 DEF Ownership, Mine
  <2>6. Mine(t)' = Mine(t) \cup {mfd} /\ Sorted(t)'
    BY <1>0, <2>1, <2>4, <2>5 DEF Mine, Sorted
  <2>7. EventsTidy(t)'
    BY <1>0, <2>1 DEF EventsTidy
  <2>8. Ownership'
    <3>1. \A v, w \in Workers : v # w => Mine(v)' \cap Mine(w)' = {}
      BY <1>0, <2>3, <2>5, <2>6 DEF Ownership
    <3>2. \A w \in Workers : Sorted(w)' /\ mfd' \notin Mine(w)'
      BY <1>m, <2>1, <2>3, <2>6, PoolAssumption
    <3>3. \A f \in Fd : (\E w \in Workers : f \in Mine(w)') <=>
                         mfd = f \/ \E w \in Workers : f \in Mine(w)
      BY <2>3, <2>6
    <3> QED
      BY <1>0, <2>1, <3>1, <3>2, <3>3, PoolAssumption DEF Ownership
  <2>9. MainTidy'
    <3>1. wpc[t] # "destroyed"
      BY <2>1 DEF Lifecycle
    <3> QED
      BY <1>0, <2>1, <3>1 DEF MainTidy
  <2> QED
    BY <2>3, <2>7, <2>8, <2>9 DEF OwnInv
<1>6. CASE JoinWorker
  <2>0. PICK t \in Workers : t = target
    BY <1>6, PoolAssumption DEF JoinWorker, Lifecycle, TypeInv, TypeOK, Workers
  <2>1. /\ wpc[t] = "done" /\ wpc'[t] = "destroyed" /\ pending'[t] = <<>>
        /\ reg'[t] = {} /\ left' = left \cup reg[t]
        /\ \A w \in Workers : w # t => /\ wpc'[w] = wpc[w] /\ reg'[w] = reg[w]
                                       /\ pending'[w] = pending[w]
        /\ open' = open \ Elements(pending[t])
        /\ UNCHANGED <<cur, events, mfd>>
        /\ mpc = "join" /\ mpc' \in {"join", "returned"}
    BY <1>6, <2>0 DEF JoinWorker, Close, TypeInv, TypeOK
  <2>2. \A w \in Workers : w # t =>
           Mine(w)' = Mine(w) /\ Sorted(w)' /\ EventsTidy(w)'
    BY <1>0, <2>1, SameWorker
  <2>3. /\ Hand(t) = {} /\ Hand(t)' = {}
        /\ Elements(pending[t])' = {} /\ Distinct(pending[t])'
    <3>1. Elements(pending'[t]) = {} /\ Distinct(pending'[t])
      BY <2>1, ElementsEmpty
    <3> QED
      BY <2>1, <3>1 DEF Hand, Elements, Distinct
  <2>4. /\ Mine(t) = Elements(pending[t]) \cup reg[t]
        /\ Elements(pending[t]) \cap reg[t] = {}
        /\ Mine(t)' = {} /\ Sorted(t)'
    BY <1>0, <2>1, <2>3 DEF Mine, Sorted
  <2>5. EventsTidy(t)'
    BY <1>0, <2>1 DEF EventsTidy, Rounds
  <2>6. Ownership'
    <3>1. mfd = NoFd /\ mfd \notin left' /\ \A w \in Workers : mfd \notin Mine(w)'
      BY <1>0, <2>1, <2>2, <2>4 DEF MainTidy, Ownership
    <3>2. \A v, w \in Workers : v # w => Mine(v)' \cap Mine(w)' = {}
      BY <1>0, <2>2, <2>4 DEF Ownership
    <3>3. \A w \in Workers : left' \cap Mine(w)' = {}
      BY <1>0, <2>1, <2>2, <2>4 DEF Ownership
    <3>4. ASSUME NEW f \in Fd
          PROVE  f \in open' <=> \/ mfd' = f \/ f \in left'
                                 \/ \E w \in Workers : f \in Mine(w)'
      <4>1. CASE f \in Mine(t)
        <5>1. f \in open /\ mfd # f /\ f \notin left
              /\ \A w \in Workers : w # t => f \notin Mine(w)
          BY <1>0, <4>1 DEF Ownership
        <5> QED
          BY <2>1, <2>2, <2>4, <4>1, <5>1
      <4>2. CASE f \notin Mine(t)
        BY <1>0, <2>1, <2>2, <2>4, <4>2 DEF Ownership
      <4> QED
        BY <4>1, <4>2
    <3>5. \A w \in Workers : Sorted(w)'
      BY <2>2, <2>4
    <3> QED
      BY <2>1, <3>1, <3>2, <3>3, <3>4, <3>5 DEF Ownership
  <2>7. MainTidy'
    BY <1>0, <2>1 DEF MainTidy
  <2> QED
    BY <2>2, <2>5, <2>6, <2>7 DEF OwnInv
<1> QED
  BY <1>1, <1>2, <1>3, <1>4, <1>5, <1>6 DEF Main

(* Clients and signals keep the invariant. *)
LEMMA EnvironmentOwn ==
    ASSUME TypeInv, OwnInv, Environment
    PROVE  OwnInv'
<1>0. MainTidy /\ \A w \in Workers : Sorted(w) /\ EventsTidy(w)
  BY DEF OwnInv, Ownership
<1>1. ASSUME NEW f \in Fd, ClientSend(f) \/ ClientGone(f)
      PROVE  OwnInv'
  <2>1. UNCHANGED <<mfd, open, left, pending, reg, cur, events, wpc, mpc>>
    BY <1>1 DEF ClientSend, ClientGone, procVars, mainVars, workerVars, queueVars
  <2>2. \A w \in Workers : Mine(w)' = Mine(w) /\ Sorted(w)' /\ EventsTidy(w)'
    BY <1>0, <2>1, SameWorker
  <2>3. MainTidy'
    BY <1>0, <2>1 DEF MainTidy
  <2> QED
    BY <2>1, <2>2, <2>3, QuietOwn DEF OwnInv
<1>2. CASE SignalMain
  <2>1. /\ UNCHANGED <<mfd, open, left, pending, reg, cur, events, wpc>>
        /\ mpc' = mpc \/ mpc = "accept"
    BY <1>2 DEF SignalMain, workerVars, queueVars, kernelVars
  <2>2. \A w \in Workers : Mine(w)' = Mine(w) /\ Sorted(w)' /\ EventsTidy(w)'
    BY <1>0, <2>1, SameWorker
  <2>3. MainTidy'
    BY <1>0, <2>1 DEF MainTidy
  <2> QED
    BY <2>1, <2>2, <2>3, QuietOwn DEF OwnInv
<1>3. CASE SignalAgain
  BY <1>3, KillOwn DEF SignalAgain
<1>4. ASSUME NEW w \in Workers, SignalWorker(w)
      PROVE  OwnInv'
  <2>1. /\ UNCHANGED <<mfd, open, left, pending, reg, cur, events, mpc>>
        /\ \A v \in Workers : v # w => wpc'[v] = wpc[v]
        /\ wpc'[w] = wpc[w] \/ (wpc[w] = "wait" /\ wpc'[w] = "loop")
    BY <1>4 DEF SignalWorker, Goto, TypeInv, TypeOK, mainVars, queueVars, kernelVars
  <2>2. ASSUME NEW v \in Workers
        PROVE  Mine(v)' = Mine(v) /\ Sorted(v)' /\ EventsTidy(v)'
    <3>1. CASE wpc'[v] = wpc[v]
      BY <1>0, <2>1, <3>1, SameWorker
    <3>2. CASE wpc[v] = "wait" /\ wpc'[v] = "loop"
      <4>1. EventsTidy(v)'
        BY <1>0, <2>1, <3>2 DEF EventsTidy
      <4> QED
        BY <1>0, <2>1, <3>2, <4>1, QuietStep
    <3> QED
      BY <2>1, <3>1, <3>2
  <2>3. MainTidy'
    BY <1>0, <2>1 DEF MainTidy
  <2> QED
    BY <2>1, <2>2, <2>3, QuietOwn DEF OwnInv
<1> QED
  BY <1>1, <1>2, <1>3, <1>4 DEF Environment

(* At start nobody owns anything. *)
LEMMA InitOwn == Init => OwnInv
<1> SUFFICES ASSUME Init PROVE OwnInv
  OBVIOUS
<1>1. ASSUME NEW w \in Workers PROVE Mine(w) = {} /\ Sorted(w) /\ EventsTidy(w)
  <2>1. /\ pending[w] = <<>> /\ reg[w] = {} /\ events[w] = {} /\ cur[w] = NoFd
        /\ wpc[w] = "none"
    BY DEF Init
  <2>2. Elements(pending[w]) = {} /\ Hand(w) = {} /\ Distinct(pending[w])
    BY <2>1, ElementsEmpty DEF Hand
  <2> QED
    BY <2>1, <2>2 DEF Mine, Sorted, EventsTidy
<1>2. MainTidy /\ mfd = NoFd /\ open = {} /\ left = {}
  BY DEF Init, MainTidy
<1> QED
  BY <1>1, <1>2, PoolAssumption DEF OwnInv, Ownership

(* OwnInv is an invariant. *)
LEMMA OwnershipInvariant == Spec => [](TypeInv /\ Lifecycle /\ OwnInv)
<1>1. Init => OwnInv
  BY InitOwn
<1>2. TypeInv /\ Lifecycle /\ Rounds /\ OwnInv /\ [Next]_vars => OwnInv'
  <2>1. ASSUME OwnInv, UNCHANGED vars PROVE OwnInv'
    <3>1. UNCHANGED <<mfd, mpc, open, left, pending, reg, cur, events, wpc>>
      BY <2>1 DEF vars, procVars, mainVars, workerVars, queueVars, kernelVars
    <3>2. \A w \in Workers : Mine(w)' = Mine(w) /\ Sorted(w)' /\ EventsTidy(w)'
      BY <2>1, <3>1, SameWorker DEF OwnInv, Ownership
    <3>3. MainTidy'
      BY <2>1, <3>1 DEF OwnInv, MainTidy
    <3> QED
      BY <2>1, <3>1, <3>2, <3>3, QuietOwn DEF OwnInv
  <2> QED
    BY <2>1, MainOwn, WorkerOwn, EnvironmentOwn DEF Next, Terminated
<1> QED
  BY <1>1, <1>2, LifecycleInvariant, RoundsInvariant, PTL DEF Spec

(* Until main joins the workers, every open client descriptor has exactly   *)
(* one owner and a closed one has none, for every number of workers and     *)
(* descriptors: accept, the hand-over queues, add_client_to_worker and      *)
(* close_connection neither leak a descriptor nor close one twice, whatever *)
(* call fails.  From then on the only descriptors without an owner are      *)
(* those of connections destroy_worker leaves open.                         *)
THEOREM OwnershipCorrect == Spec => []FdOwnership
<1>1. TypeInv /\ OwnInv => FdOwnership
  BY OwnershipMeansHolders DEF OwnInv
<1> QED
  BY <1>1, OwnershipInvariant, PTL

(* An event still to be handled points to a connection_state that has not   *)
(* been freed, for every size of the epoll batch.                           *)
THEOREM EventsCorrect == Spec => []NoDanglingEvent
<1>1. OwnInv => NoDanglingEvent
  BY DEF OwnInv, EventsTidy, NoDanglingEvent
<1> QED
  BY <1>1, OwnershipInvariant, PTL

(* When httpfs_server_run returns, only connections a worker had adopted    *)
(* are still open, whatever was queued when the workers ended.              *)
THEOREM ReturnCorrect == Spec => []NoOrphanAtReturn
<1>1. TypeInv /\ Lifecycle /\ OwnInv => NoOrphanAtReturn
  <2> SUFFICES ASSUME TypeInv, Lifecycle, OwnInv, mpc = "returned", NEW f \in open
               PROVE  f \in left
    BY DEF NoOrphanAtReturn
  <2>1. \A w \in Workers : /\ wpc[w] \in {"none", "destroyed"}
                           /\ pending[w] = <<>> /\ reg[w] = {}
    BY DEF Lifecycle, OwnInv, MainTidy
  <2>2. \A w \in Workers : Mine(w) = {}
    BY <2>1, ElementsEmpty DEF Mine, Hand
  <2>3. mfd = NoFd /\ f \in Fd
    BY DEF OwnInv, MainTidy, TypeInv, TypeOK
  <2> QED
    BY <2>2, <2>3, PoolAssumption DEF OwnInv, Ownership
<1> QED
  BY <1>1, OwnershipInvariant, PTL

-----------------------------------------------------------------------------
(* What the mapping shows of one worker *)

(* The stages by program counter. *)
LEMMA StageValue ==
    ASSUME NEW w
    PROVE  /\ wpc[w] = "recv" => Stage(w) = "reading"
           /\ wpc[w] = "process" => Stage(w) = "applying"
           /\ wpc[w] = "send" => Stage(w) = "replying"
           /\ wpc[w] \notin {"recv", "process", "send"} => Stage(w) = "idle"
BY DEF Stage

(* A step of worker w changes the picture of w at most. *)
LEMMA OneWorkerPicture ==
    ASSUME NEW w \in Workers,
           \A v \in Workers : v # w => /\ wpc'[v] = wpc[v] /\ cur'[v] = cur[v]
                                       /\ pending'[v] = pending[v]
    PROVE  /\ Lines' = [Lines EXCEPT ![w] = Line(w)']
           /\ Servings' = [Servings EXCEPT ![w] = Serving(w)']
           /\ Stages' = [Stages EXCEPT ![w] = Stage(w)']
<1>1. \A v \in Workers : v # w => /\ Line(v)' = Line(v) /\ Serving(v)' = Serving(v)
                                  /\ Stage(v)' = Stage(v)
  BY DEF Line, Serving, Stage
<1> QED
  BY <1>1 DEF Lines, Servings, Stages

(* What does not change in it stays as it is. *)
LEMMA SamePicture ==
    ASSUME NEW w \in Workers
    PROVE  /\ [Lines EXCEPT ![w] = Line(w)] = Lines
           /\ [Servings EXCEPT ![w] = Serving(w)] = Servings
           /\ [Stages EXCEPT ![w] = Stage(w)] = Stages
           /\ Lines[w] = Line(w) /\ Servings[w] = Serving(w) /\ Stages[w] = Stage(w)
BY DEF Lines, Servings, Stages

(* A step of a worker that was not killed hires and dismisses nobody. *)
LEMMA SameStaff ==
    ASSUME TypeInv, NEW w \in Workers, Worker(w), ~Kill
    PROVE  Staff' = Staff /\ w \in Staff
<1>1. /\ wpc[w] \notin {"none", "destroyed"} /\ wpc'[w] \notin {"none", "destroyed"}
      /\ \A v \in Workers : v # w => wpc'[v] = wpc[v]
  BY WorkerFrame
<1> QED
  BY <1>1 DEF Staff

(* The first in line. *)
LEMMA FirstInLine ==
    ASSUME NEW s \in Seq(Fd), NEW f \in Fd
    PROVE  /\ Head(<<f>> \o s) = f /\ Tail(<<f>> \o s) = s /\ <<f>> \o s # <<>>
           /\ \A g \in Fd : Append(<<f>> \o s, g) = <<f>> \o Append(s, g)
           /\ s # <<>> => <<Head(s)>> \o Tail(s) = s
<1>1. Head(<<f>> \o s) = f /\ Tail(<<f>> \o s) = s /\ <<f>> \o s # <<>>
  OBVIOUS
<1>2. \A g \in Fd : Append(<<f>> \o s, g) = <<f>> \o Append(s, g)
  OBVIOUS
<1>3. s # <<>> => <<Head(s)>> \o Tail(s) = s
  OBVIOUS
<1> QED
  BY <1>1, <1>2, <1>3

(* Who holds a descriptor in the picture holds it in the pool. *)
LEMMA HeldIsOpen ==
    ASSUME TypeInv, OwnInv, NEW f \in Fd \ open
    PROVE  f \notin Service!Held
<1>1. mfd # f /\ f \notin left /\ \A w \in Workers : f \notin Mine(w)
  BY DEF OwnInv, Ownership
<1>2. ASSUME NEW w \in Workers PROVE f \notin Service!Waiting(w) /\ f \notin reg[w]
  <2>1. f \notin Elements(pending[w]) /\ f \notin Hand(w) /\ f \notin reg[w]
    BY <1>1 DEF Mine
  <2>2. pending[w] \in Seq(Fd)
    BY DEF TypeInv, TypeOK
  <2>3. \A i \in DOMAIN pending[w] : pending[w][i] # f
    BY <2>1, <2>2 DEF Elements
  <2>4. \A i \in DOMAIN Line(w) : Line(w)[i] # f
    <3>1. CASE wpc[w] = "add"
      <4>1. cur[w] # f /\ cur[w] \in Fd
        BY <2>1, <3>1 DEF Hand, TypeInv, HoldsFd
      <4> QED
        BY <2>2, <2>3, <3>1, <4>1 DEF Line
    <3>2. CASE wpc[w] # "add"
      BY <2>3, <3>2 DEF Line
    <3> QED
      BY <3>1, <3>2
  <2>5. Lines[w] = Line(w)
    BY DEF Lines
  <2> QED
    BY <2>1, <2>4, <2>5 DEF Service!Waiting
<1> QED
  BY <1>1, <1>2 DEF Service!Held

-----------------------------------------------------------------------------
(* Step simulation *)

(* A step that no worker's picture shows. *)
LEMMA HiddenStep ==
    ASSUME mfd' = mfd, reg' = reg, left' = left,
           \A w \in Workers : /\ cur'[w] = cur[w] /\ pending'[w] = pending[w]
                              /\ wpc'[w] = wpc[w] \/ (wpc[w] = "wait" /\ wpc'[w] = "loop")
    PROVE  UNCHANGED Service!svars
<1>1. \A w \in Workers : /\ Line(w)' = Line(w) /\ Stage(w)' = Stage(w)
                         /\ Serving(w)' = Serving(w)
  BY DEF Line, Stage, Serving
<1>2. Lines' = Lines /\ Stages' = Stages /\ Servings' = Servings
  BY <1>1 DEF Lines, Stages, Servings
<1>3. Staff' = Staff
  BY DEF Staff
<1> QED
  BY <1>2, <1>3 DEF Service!svars

(* A killed process. *)
LEMMA KillCollapses == ASSUME Kill PROVE Service!Collapse
<1>1. \A w \in Workers : /\ wpc'[w] = "destroyed" /\ pending'[w] = <<>>
                         /\ cur'[w] = NoFd
  BY DEF Kill
<1>2. \A w \in Workers : Line(w)' = <<>> /\ Stage(w)' = "idle" /\ Serving(w)' = NoFd
  BY <1>1 DEF Line, Stage, Serving
<1>3. /\ Lines' = [w \in Workers |-> <<>>] /\ Stages' = [w \in Workers |-> "idle"]
      /\ Servings' = [w \in Workers |-> NoFd]
  BY <1>2 DEF Lines, Stages, Servings
<1>4. Staff' = {}
  BY <1>1 DEF Staff
<1> QED
  BY <1>3, <1>4 DEF Kill, Service!Collapse, Service!Empty

(* The steps of a worker that the service does not show: the event loop,    *)
(* the drain, and taking the first of the queue in hand.                    *)
LEMMA WorkerStutters ==
    ASSUME TypeInv, OwnInv, NEW w \in Workers,
           \/ LoopHead(w) \/ EpollWait(w) \/ EpollTimeout(w)
           \/ DispatchNotifier(w) \/ DispatchEnd(w) \/ DrainNotifyPipe(w)
           \/ DequeuePendingFd(w) \/ DequeueEmpty(w)
    PROVE  UNCHANGED Service!svars
<1> USE DEF TypeInv, TypeOK, Goto
<1>1. /\ wpc[w] \in {"loop", "wait", "dispatch", "drain", "dequeue"}
      /\ wpc'[w] \in {"loop", "wait", "dispatch", "drain", "dequeue", "add", "done"}
      /\ \A v \in Workers : v # w => wpc'[v] = wpc[v] /\ cur'[v] = cur[v]
                                     /\ pending'[v] = pending[v]
      /\ mfd' = mfd /\ reg' = reg /\ left' = left
  BY DEF LoopHead, EpollWait, EpollTimeout, DispatchNotifier, DispatchEnd,
     DrainNotifyPipe, DequeuePendingFd, DequeueEmpty, procVars, mainVars,
     queueVars, kernelVars
<1>2. Stage(w) = "idle" /\ Stage(w)' = "idle"
  BY <1>1 DEF Stage
<1>3. Serving(w)' = Serving(w)
  BY <1>2 DEF Serving
<1>4. Line(w)' = Line(w)
  <2>1. CASE DequeuePendingFd(w)
    <3>1. /\ pending[w] \in Seq(Fd) /\ pending[w] # <<>> /\ wpc[w] = "dequeue"
          /\ wpc'[w] = "add" /\ cur'[w] = Head(pending[w])
          /\ pending'[w] = Tail(pending[w])
      BY <2>1 DEF DequeuePendingFd
    <3>2. <<Head(pending[w])>> \o Tail(pending[w]) = pending[w]
      BY <3>1
    <3> QED
      BY <3>1, <3>2 DEF Line
  <2>2. CASE ~DequeuePendingFd(w)
    <3>1. pending' = pending /\ wpc[w] # "add" /\ wpc'[w] # "add"
      BY <2>2 DEF LoopHead, EpollWait, EpollTimeout, DispatchNotifier,
         DispatchEnd, DrainNotifyPipe, DequeueEmpty, queueVars
    <3> QED
      BY <3>1 DEF Line
  <2> QED
    BY <2>1, <2>2
<1>5. Staff' = Staff
  BY <1>1 DEF Staff
<1>6. /\ Lines' = [Lines EXCEPT ![w] = Line(w)']
      /\ Servings' = [Servings EXCEPT ![w] = Serving(w)']
      /\ Stages' = [Stages EXCEPT ![w] = Stage(w)']
  BY <1>1, OneWorkerPicture
<1>7. Lines' = Lines /\ Servings' = Servings /\ Stages' = Stages
  BY <1>2, <1>3, <1>4, <1>6, SamePicture
<1> QED
  BY <1>1, <1>5, <1>7 DEF Service!svars

(* The steps on a connection: a turn, its progress and its end. *)
LEMMA WorkerServes ==
    ASSUME TypeInv, OwnInv, NEW w \in Workers, Worker(w), ~Kill,
           \/ DispatchHangup(w) \/ DispatchClient(w)
           \/ Recv(w) \/ RecvRejects(w) \/ RecvAgain(w) \/ RecvFails(w)
           \/ Process(w) \/ ProcessFails(w) \/ SendAll(w)
    PROVE  Service!SNext \/ UNCHANGED Service!svars
<1> USE DEF TypeInv, TypeOK, Goto
<1>0. EventsTidy(w) /\ reg[w] \subseteq Fd
  BY DEF OwnInv
<1>1. /\ Lines' = [Lines EXCEPT ![w] = Line(w)']
      /\ Servings' = [Servings EXCEPT ![w] = Serving(w)']
      /\ Stages' = [Stages EXCEPT ![w] = Stage(w)']
  BY WorkerLocality, OneWorkerPicture
<1>2. Staff' = Staff /\ w \in Staff /\ mfd' = mfd /\ left' = left
  BY SameStaff, WorkerLocality
<1>3. Lines' = Lines
  <2>1. pending'[w] = pending[w] /\ wpc[w] # "add" /\ wpc'[w] # "add"
    BY DEF DispatchHangup, DispatchClient, Recv, RecvRejects, RecvAgain,
       RecvFails, Process, ProcessFails, SendAll, FinishConnection, queueVars
  <2>2. Line(w)' = Line(w)
    BY <2>1 DEF Line
  <2> QED
    BY <1>1, <2>2, SamePicture
<1>4. /\ Lines[w] = Line(w) /\ Servings[w] = Serving(w) /\ Stages[w] = Stage(w)
  BY SamePicture
<1>5. CASE DispatchHangup(w)
  <2>1. PICK e \in events[w] : e[1] # Notifier /\ CloseConnection(w, e[1])
    BY <1>5 DEF DispatchHangup
  <2>2. e[1] \in reg[w] /\ e[1] \in Fd
    BY <1>0, <2>1 DEF EventsTidy
  <2>3. Stage(w) = "idle" /\ Stage(w)' = Stage(w) /\ Serving(w)' = Serving(w)
    BY <1>5 DEF DispatchHangup, Stage, Serving
  <2>4. Service!Discard(w, e[1])
    BY <1>1, <1>2, <1>3, <1>4, <2>1, <2>2, <2>3, SamePicture
       DEF Service!Discard, CloseConnection
  <2> QED
    BY <2>2, <2>4 DEF Service!SNext
<1>6. CASE DispatchClient(w)
  <2>1. PICK e \in events[w] : e[1] # Notifier /\ cur' = [cur EXCEPT ![w] = e[1]]
    BY <1>6 DEF DispatchClient
  <2>2. e[1] \in reg[w] /\ e[1] \in Fd
    BY <1>0, <2>1 DEF EventsTidy
  <2>3. /\ Stage(w) = "idle" /\ Stage(w)' = "reading" /\ Serving(w)' = e[1]
        /\ reg' = reg
    BY <1>6, <2>1 DEF DispatchClient, Stage, Serving, kernelVars
  <2>4. Service!Turn(w, e[1])
    BY <1>1, <1>2, <1>3, <1>4, <2>2, <2>3 DEF Service!Turn, Service!Busy
  <2> QED
    BY <2>2, <2>4 DEF Service!SNext
<1>7. CASE Recv(w) \/ RecvRejects(w) \/ Process(w)
  <2>1. cur' = cur /\ reg' = reg
    BY <1>7 DEF Recv, RecvRejects, Process, kernelVars
  <2>2. \/ wpc[w] = "recv" /\ wpc'[w] \in {"recv", "process", "send"}
        \/ wpc[w] = "process" /\ wpc'[w] = "send"
    BY <1>7 DEF Recv, RecvRejects, Process
  <2>3. Serving(w) = cur[w] /\ Serving(w)' = cur[w]
    BY <2>1, <2>2 DEF Serving, Stage
  <2>4. \/ Stage(w)' = Stage(w)
        \/ Stage(w) = "reading" /\ Stage(w)' = "applying"
        \/ Stage(w) \in {"reading", "applying"} /\ Stage(w)' = "replying"
    BY <2>2 DEF Stage
  <2>5. CASE Stage(w)' = Stage(w)
    BY <1>1, <1>2, <1>3, <2>1, <2>3, <2>5, SamePicture DEF Service!svars
  <2>6. CASE Stage(w)' # Stage(w)
    <3>1. Service!Advance(w)
      BY <1>1, <1>2, <1>3, <1>4, <2>1, <2>3, <2>4, <2>6
         DEF Service!Advance, Service!Busy
    <3> QED
      BY <3>1 DEF Service!SNext
  <2> QED
    BY <2>5, <2>6
<1>8. CASE RecvAgain(w)
  <2>1. Stage(w) = "reading" /\ Stage(w)' = "idle" /\ Serving(w)' = NoFd /\ reg' = reg
    BY <1>8 DEF RecvAgain, Stage, Serving, kernelVars
  <2>2. Service!Leave(w)
    BY <1>1, <1>2, <1>3, <1>4, <2>1 DEF Service!Leave, Service!Busy
  <2> QED
    BY <2>2 DEF Service!SNext
<1>9. CASE RecvFails(w) \/ ProcessFails(w) \/ SendAll(w)
  <2>1. wpc[w] \in {"recv", "process", "send"} /\ FinishConnection(w)
    BY <1>9 DEF RecvFails, ProcessFails, SendAll
  <2>2. /\ Stage(w) # "idle" /\ Stage(w)' = "idle" /\ Serving(w) = cur[w]
        /\ Serving(w)' = NoFd /\ reg' = [reg EXCEPT ![w] = @ \ {cur[w]}]
    BY <2>1 DEF FinishConnection, CloseConnection, Stage, Serving
  <2>3. Service!Hangup(w)
    BY <1>1, <1>2, <1>3, <1>4, <2>2 DEF Service!Hangup, Service!Busy
  <2> QED
    BY <2>3 DEF Service!SNext
<1> QED
  BY <1>5, <1>6, <1>7, <1>8, <1>9

(* Adding the connection in hand, or failing to. *)
LEMMA WorkerAdopts ==
    ASSUME TypeInv, OwnInv, NEW w \in Workers, Worker(w), ~Kill,
           AddClientToWorker(w) \/ AddClientFails(w)
    PROVE  Service!SNext
<1> USE DEF TypeInv, TypeOK, Goto
<1>1. /\ Lines' = [Lines EXCEPT ![w] = Line(w)']
      /\ Servings' = [Servings EXCEPT ![w] = Serving(w)']
      /\ Stages' = [Stages EXCEPT ![w] = Stage(w)']
  BY WorkerLocality, OneWorkerPicture
<1>2. Staff' = Staff /\ w \in Staff /\ mfd' = mfd /\ left' = left
  BY SameStaff, WorkerLocality
<1>3. /\ Lines[w] = Line(w) /\ wpc[w] = "add" /\ wpc'[w] = "dequeue"
      /\ pending' = pending /\ cur[w] \in Fd /\ pending[w] \in Seq(Fd)
  <2>1. Lines[w] = Line(w)
    BY SamePicture
  <2>2. wpc[w] = "add" /\ wpc'[w] = "dequeue" /\ pending' = pending
    BY DEF AddClientToWorker, AddClientFails, queueVars
  <2> QED
    BY <2>1, <2>2 DEF HoldsFd
<1>4. Line(w) = <<cur[w]>> \o pending[w] /\ Line(w)' = pending[w]
  <2>1. wpc[w] = "add" /\ wpc'[w] # "add" /\ pending' = pending
    BY <1>3
  <2> QED
    BY <2>1, Zenon DEF Line
<1>5. Head(Line(w)) = cur[w] /\ Tail(Line(w)) = Line(w)' /\ Line(w) # <<>>
  <2>1. cur[w] \in Fd /\ pending[w] \in Seq(Fd)
    BY <1>3
  <2>2. /\ Head(<<cur[w]>> \o pending[w]) = cur[w] /\ Tail(<<cur[w]>> \o pending[w]) = pending[w]
        /\ <<cur[w]>> \o pending[w] # <<>>
    BY <2>1, FirstInLine
  <2> QED
    BY <1>4, <2>2, Zenon
<1>6. Stages' = Stages /\ Servings' = Servings
  <2>1. Stage(w)' = Stage(w) /\ Serving(w)' = Serving(w)
    BY <1>3 DEF Stage, Serving
  <2> QED
    BY <1>1, <2>1, SamePicture
<1>7. CASE AddClientToWorker(w)
  <2>1. Service!Adopt(w)
    BY <1>1, <1>2, <1>3, <1>5, <1>6, <1>7 DEF Service!Adopt, AddClientToWorker
  <2> QED
    BY <2>1 DEF Service!SNext
<1>8. CASE AddClientFails(w)
  <2>1. Service!DropFirst(w)
    BY <1>1, <1>2, <1>3, <1>5, <1>6, <1>8 DEF Service!DropFirst, AddClientFails
  <2> QED
    BY <2>1 DEF Service!SNext
<1> QED
  BY <1>7, <1>8

(* Every step of a worker is a step of the service or is hidden. *)
LEMMA WorkerSimulated ==
    ASSUME TypeInv, OwnInv, NEW w \in Workers, Worker(w)
    PROVE  Service!SNext \/ UNCHANGED Service!svars
<1>1. CASE Kill
  BY <1>1, KillCollapses DEF Service!SNext
<1>2. CASE ~Kill
  BY <1>2, WorkerStutters, WorkerServes, WorkerAdopts DEF Worker, SendKilled
<1> QED
  BY <1>1, <1>2

(* Every step of the main thread is one, too. *)
LEMMA MainSimulated ==
    ASSUME TypeInv, Lifecycle, OwnInv, Main
    PROVE  Service!SNext \/ UNCHANGED Service!svars
<1> USE DEF TypeInv, TypeOK
<1>1. CASE StartWorker
  <2>0. PICK t \in Workers : t = started
    BY <1>1, PoolAssumption DEF StartWorker, Workers
  <2>1. /\ wpc[t] = "none" /\ wpc'[t] = "loop"
        /\ \A w \in Workers : w # t => wpc'[w] = wpc[w]
        /\ UNCHANGED <<mfd, left, pending, cur, reg>>
    BY <1>1, <2>0 DEF StartWorker, Lifecycle, procVars, queueVars, kernelVars
  <2>2. t \notin Staff /\ Staff' = Staff \cup {t}
    BY <2>1 DEF Staff
  <2>3. \A w \in Workers : /\ Line(w)' = Line(w) /\ Stage(w)' = Stage(w)
                           /\ Serving(w)' = Serving(w)
    BY <2>1 DEF Line, Stage, Serving
  <2>4. Lines' = Lines /\ Stages' = Stages /\ Servings' = Servings
    BY <2>3 DEF Lines, Stages, Servings
  <2>5. Service!Hire(t)
    BY <2>1, <2>2, <2>4 DEF Service!Hire
  <2> QED
    BY <2>5 DEF Service!SNext
<1>2. CASE \/ StartWorkerFails \/ Listen \/ ListenFails \/ CheckStop \/ EnterAccept
           \/ AcceptFails \/ SetNonblocking \/ WakeWorker \/ StopWake
  <2>1. UNCHANGED <<mfd, left, pending, reg, cur, wpc>>
    BY <1>2 DEF StartWorkerFails, Listen, ListenFails, CheckStop, EnterAccept,
       AcceptFails, SetNonblocking, WakeWorker, StopWake, BeginStop, procVars,
       workerVars, queueVars, kernelVars
  <2> QED
    BY <2>1, HiddenStep
<1>3. CASE Accept \/ SetNonblockingFails \/ EnqueueFails
  <2>1. UNCHANGED <<left, pending, reg, cur, wpc>>
    BY <1>3 DEF Accept, SetNonblockingFails, EnqueueFails, DropAccepted,
       procVars, workerVars, queueVars
  <2>2. Staff' = Staff /\ Lines' = Lines /\ Stages' = Stages /\ Servings' = Servings
    BY <2>1 DEF Staff, Lines, Line, Stages, Stage, Servings, Serving
  <2>3. CASE Accept
    <3>1. PICK f \in Fd \ open : mfd' = f
      BY <2>3 DEF Accept
    <3>2. mfd = NoFd
      BY <2>3 DEF Accept, OwnInv, MainTidy
    <3>3. f \notin Service!Held
      BY HeldIsOpen
    <3>4. Service!Admit(f)
      BY <2>1, <2>2, <3>1, <3>2, <3>3 DEF Service!Admit
    <3> QED
      BY <3>4 DEF Service!SNext
  <2>4. CASE SetNonblockingFails \/ EnqueueFails
    <3>1. mfd # NoFd /\ mfd' = NoFd
      BY <2>4, PoolAssumption DEF SetNonblockingFails, EnqueueFails,
         DropAccepted, HoldsFd
    <3>2. Service!Refuse
      BY <2>1, <2>2, <3>1 DEF Service!Refuse
    <3> QED
      BY <3>2 DEF Service!SNext
  <2> QED
    BY <1>3, <2>3, <2>4
<1>4. CASE EnqueuePendingFd
  <2>0. PICK t \in Workers : t = next
    OBVIOUS
  <2>1. /\ mfd \in Fd /\ mfd # NoFd /\ mfd' = NoFd /\ mpc = "enqueue"
        /\ pending[t] \in Seq(Fd) /\ pending'[t] = Append(pending[t], mfd)
        /\ \A w \in Workers : w # t => pending'[w] = pending[w]
        /\ UNCHANGED <<left, reg, cur, wpc>>
    BY <1>4, <2>0, PoolAssumption DEF EnqueuePendingFd, HoldsFd, procVars,
       workerVars, kernelVars
  <2>2. wpc[t] \notin {"none", "destroyed"}
    BY <2>1, PoolAssumption DEF Lifecycle, Workers
  <2>3. Line(t)' = Append(Line(t), mfd)
    <3>1. CASE wpc[t] = "add"
      BY <2>1, <3>1, FirstInLine DEF Line, HoldsFd
    <3>2. CASE wpc[t] # "add"
      BY <2>1, <3>2 DEF Line
    <3> QED
      BY <3>1, <3>2
  <2>4. Lines' = [Lines EXCEPT ![t] = Append(@, mfd)]
    BY <2>1, <2>3, OneWorkerPicture, SamePicture
  <2>5. Staff' = Staff /\ Stages' = Stages /\ Servings' = Servings /\ t \in Staff
    BY <2>1, <2>2 DEF Staff, Stages, Stage, Servings, Serving
  <2>6. Service!Assign(t)
    BY <2>1, <2>4, <2>5 DEF Service!Assign
  <2> QED
    BY <2>6 DEF Service!SNext
<1>5. CASE JoinWorker
  <2>0. PICK t \in Workers : t = target
    BY <1>5, PoolAssumption DEF JoinWorker, Lifecycle, Workers
  <2>1. /\ wpc[t] = "done" /\ wpc'[t] = "destroyed" /\ pending'[t] = <<>>
        /\ \A w \in Workers : w # t => wpc'[w] = wpc[w] /\ pending'[w] = pending[w]
        /\ reg' = [reg EXCEPT ![t] = {}] /\ left' = left \cup reg[t]
        /\ UNCHANGED <<cur, mfd>>
    BY <1>5, <2>0 DEF JoinWorker
  <2>2. /\ Line(t)' = <<>> /\ Stage(t) = "idle" /\ Stage(t)' = Stage(t)
        /\ Serving(t)' = Serving(t)
    BY <2>1 DEF Line, Stage, Serving
  <2>3. /\ Lines' = [Lines EXCEPT ![t] = <<>>] /\ Stages' = Stages
        /\ Servings' = Servings /\ Stages[t] = "idle"
    BY <2>1, <2>2, OneWorkerPicture, SamePicture
  <2>4. t \in Staff /\ Staff' = Staff \ {t}
    BY <2>1 DEF Staff
  <2>5. Service!Dismiss(t)
    BY <2>1, <2>3, <2>4 DEF Service!Dismiss
  <2> QED
    BY <2>5 DEF Service!SNext
<1> QED
  BY <1>1, <1>2, <1>3, <1>4, <1>5 DEF Main

(* So is every step of a client or a signal. *)
LEMMA EnvironmentSimulated ==
    ASSUME TypeInv, Environment
    PROVE  Service!SNext \/ UNCHANGED Service!svars
<1>1. ASSUME NEW f \in Fd, ClientSend(f) \/ ClientGone(f)
      PROVE  UNCHANGED Service!svars
  BY <1>1, HiddenStep DEF ClientSend, ClientGone, procVars, mainVars, workerVars,
     queueVars
<1>2. CASE SignalMain
  BY <1>2, HiddenStep DEF SignalMain, workerVars, queueVars, kernelVars
<1>3. CASE SignalAgain
  BY <1>3, KillCollapses DEF SignalAgain, Service!SNext
<1>4. ASSUME NEW w \in Workers, SignalWorker(w)
      PROVE  UNCHANGED Service!svars
  <2>1. /\ mfd' = mfd /\ reg' = reg /\ left' = left
        /\ cur' = cur /\ pending' = pending
        /\ \A v \in Workers :
              wpc'[v] = wpc[v] \/ (wpc[v] = "wait" /\ wpc'[v] = "loop")
    BY <1>4 DEF SignalWorker, Goto, TypeInv, TypeOK, mainVars, queueVars, kernelVars
  <2> QED
    BY <2>1, HiddenStep
<1> QED
  BY <1>1, <1>2, <1>3, <1>4 DEF Environment

(* The initial state shows an empty service. *)
LEMMA InitSimulated == Init => Service!SInit
<1> SUFFICES ASSUME Init PROVE Service!SInit
  OBVIOUS
<1>1. \A w \in Workers : Line(w) = <<>> /\ Stage(w) = "idle" /\ Serving(w) = NoFd
  BY DEF Init, Line, Stage, Serving
<1>2. /\ Lines = [w \in Workers |-> <<>>] /\ Stages = [w \in Workers |-> "idle"]
      /\ Servings = [w \in Workers |-> NoFd] /\ Staff = {}
  BY <1>1 DEF Lines, Stages, Servings, Staff, Init
<1> QED
  BY <1>2 DEF Init, Service!SInit, Service!Empty

(* The threads of httpfs_server.c implement the connection service, for     *)
(* every number of workers: order of adoption, one worker per connection,   *)
(* one request at a time, at most one application of a request, and no      *)
(* reuse of a descriptor number that somebody still holds.                  *)
THEOREM ServiceImplemented == Spec => ImplementsService
<1>1. Init => Service!SInit
  BY InitSimulated
<1>2. TypeInv /\ Lifecycle /\ OwnInv /\ [Next]_vars => [Service!SNext]_(Service!svars)
  <2> SUFFICES ASSUME TypeInv, Lifecycle, OwnInv, [Next]_vars
               PROVE  Service!SNext \/ UNCHANGED Service!svars
    OBVIOUS
  <2>1. CASE UNCHANGED vars
    BY <2>1, HiddenStep DEF vars, procVars, mainVars, workerVars, queueVars,
       kernelVars
  <2>2. CASE Main
    BY <2>2, MainSimulated
  <2>3. CASE \E w \in Workers : Worker(w)
    BY <2>3, WorkerSimulated
  <2>4. CASE Environment
    BY <2>4, EnvironmentSimulated
  <2> QED
    BY <2>1, <2>2, <2>3, <2>4 DEF Next, Terminated
<1> QED
  BY <1>1, <1>2, OwnershipInvariant, PTL DEF Spec, ImplementsService, Service!SSpec

=============================================================================
