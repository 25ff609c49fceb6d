----------------------------- MODULE Connection -----------------------------
(***************************************************************************)
(* One client connection of the C service provider: the growing receive    *)
(* buffer, the framing of a request and the way the connection ends        *)
(* (add_client_to_worker, handle_client_event,                             *)
(* connection_has_complete_request, ensure_connection_capacity and         *)
(* process_request_buffer in demo/service_provider/c/httpfs_server.c).     *)
(*                                                                         *)
(* The bytes of a request are abstracted to the numbers the code computes  *)
(* from them; size_t is Word values wide and content_length is a long.     *)
(***************************************************************************)
EXTENDS Integers

CONSTANTS
    InitSize,   \* SERVER_INITIAL_REQUEST_BUFFER_SIZE
    MaxSize,    \* SERVER_MAX_REQUEST_SIZE
    Word,       \* the number of values of a size_t, 2^w
    Headers,    \* where a request's header may end; 0: it never does
    Lengths,    \* what strtol may return for Content-Length
    Extra       \* how many bytes a client may send after the body

LongMax == Word \div 2 - 1

ASSUME SizeAssumption ==
    /\ InitSize \in Nat /\ MaxSize \in Nat /\ Word \in Nat
    /\ 2 <= InitSize /\ InitSize <= MaxSize
    /\ MaxSize <= LongMax

ASSUME InputAssumption ==
    /\ Headers \subseteq Nat
    /\ Lengths \subseteq -LongMax - 1 .. LongMax
    /\ Extra \subseteq Nat

VARIABLES
    \* What the client does
    req,            \* the request: see Request
    total,          \* bytes the client will send in all
    sent,           \* bytes that have reached the socket
    gone,           \* the client has closed or reset the connection
    \* connection_state
    received, capacity, header_bytes, content_length,
    \* The worker
    pc,
    need,           \* required_size, in ensure_connection_capacity
    new_capacity,   \* new_capacity, in ensure_connection_capacity
    caller,         \* who called ensure_connection_capacity
    \* How it went
    reply,          \* what the client is answered
    fault           \* an allocation or fcntl has failed

clientVars == <<req, total, sent, gone>>
connVars   == <<received, capacity, header_bytes, content_length>>
growVars   == <<need, new_capacity, caller>>
vars == <<clientVars, connVars, growVars, pc, reply, fault>>

(* header: where the header ends; length: Content-Length as the framing     *)
(* code finds it (0 when the header has none); again: as                   *)
(* process_request_buffer, which also searches the body, finds it;         *)
(* line: the request line is well-formed.                                  *)
Request ==
    {r \in [header : Headers, length : Lengths, again : Lengths, line : BOOLEAN] :
        r.length # 0 => r.again = r.length}

PC == {"ensure", "double", "realloc", "idle", "room", "recv", "frame",
       "process", "closed"}

Reply == {"none", "enobufs", "einval", "dispatched"}

(* Every variable keeps its type; in particular the bytes received, the    *)
(* capacity and the capacity ensure_connection_capacity is about to        *)
(* allocate never pass SERVER_MAX_REQUEST_SIZE, however often it doubles.  *)
TypeOK ==
    /\ req \in Request
    /\ total \in Nat /\ sent \in 0 .. total /\ gone \in BOOLEAN
    /\ received \in 0 .. MaxSize /\ capacity \in 0 .. MaxSize
    /\ header_bytes \in 0 .. MaxSize
    /\ content_length \in -LongMax - 1 .. LongMax
    /\ need \in 0 .. Word - 1 /\ new_capacity \in 0 .. MaxSize
    /\ caller \in {"add", "room", "frame"}
    /\ pc \in PC /\ reply \in Reply /\ fault \in BOOLEAN

(* the bytes a well-behaved client sends, before any Extra *)
Whole(r) == r.header + (IF r.length > 0 THEN r.length ELSE 0)

(* add_client_to_worker: calloc, then the first buffer *)
Init ==
    /\ req \in Request
    /\ \E x \in Extra :
          total = IF req.header = 0 THEN MaxSize + x ELSE Whole(req) + x
    /\ sent = 0 /\ gone = FALSE
    /\ received = 0 /\ capacity = 0 /\ header_bytes = 0 /\ content_length = -1
    /\ pc = "ensure" /\ need = InitSize /\ new_capacity = 0 /\ caller = "add"
    /\ reply = "none" /\ fault = FALSE

-----------------------------------------------------------------------------
(* ensure_connection_capacity(conn, need), one step per loop iteration *)

CallEnsure(size, who) ==
    /\ pc' = "ensure" /\ need' = size /\ caller' = who
    /\ new_capacity' = new_capacity

(* the connection ends with an answer r, "none" for a silent close *)
Finish(r) == pc' = "closed" /\ reply' = r

(* header_bytes + (size_t) content_length, in a size_t *)
TotalRequired == (header_bytes + content_length) % Word

(* Slip: a request is complete one byte late *)
CompleteLate == received > TotalRequired

(* Slip: the header is not counted *)
CompleteBodyOnly == received >= content_length

(* conn->received >= total_required *)
Complete == received >= TotalRequired

(* where the caller goes on when the capacity is there *)
EnsureOk ==
    /\ CASE caller = "add"   -> pc' = "idle"
         [] caller = "room"  -> pc' = "recv"
         [] caller = "frame" -> pc' = IF Complete THEN "process" ELSE "room"
    /\ reply' = reply

(* ... and when it is not; a client that could not be added gets no answer *)
EnsureFailed == Finish(IF caller = "add" THEN "none" ELSE "enobufs")

EnsureEnough ==
    /\ pc = "ensure" /\ need <= capacity
    /\ EnsureOk
    /\ UNCHANGED <<clientVars, connVars, growVars, fault>>

EnsureGrow ==
    /\ pc = "ensure" /\ need > capacity
    /\ IF need > MaxSize
         THEN EnsureFailed /\ new_capacity' = new_capacity
         ELSE /\ new_capacity' = IF capacity > 0 THEN capacity ELSE InitSize
              /\ pc' = "double" /\ reply' = reply
    /\ UNCHANGED <<clientVars, connVars, need, caller, fault>>

(* Slip: the doubling does not stop at SERVER_MAX_REQUEST_SIZE *)
DoubleNoCap ==
    /\ pc = "double" /\ new_capacity < need
    /\ new_capacity' = new_capacity * 2
    /\ pc' = IF new_capacity' >= need THEN "realloc" ELSE "double"
    /\ UNCHANGED <<clientVars, connVars, need, caller, reply, fault>>

(* one iteration of the doubling loop *)
Double ==
    /\ pc = "double" /\ new_capacity < need
    /\ IF new_capacity >= MaxSize \div 2
         THEN new_capacity' = MaxSize /\ pc' = "realloc"
         ELSE new_capacity' = new_capacity * 2 /\ pc' = pc
    /\ UNCHANGED <<clientVars, connVars, need, caller, reply, fault>>

DoubleEnd ==
    /\ pc = "double" /\ new_capacity >= need
    /\ pc' = "realloc"
    /\ UNCHANGED <<clientVars, connVars, growVars, reply, fault>>

Realloc ==
    /\ pc = "realloc"
    /\ IF need <= new_capacity /\ new_capacity <= MaxSize
         THEN capacity' = new_capacity /\ EnsureOk
         ELSE capacity' = capacity /\ EnsureFailed
    /\ UNCHANGED <<clientVars, received, header_bytes, content_length, growVars,
                   fault>>

(* realloc returns NULL: the old buffer and capacity stay *)
ReallocFails ==
    /\ pc = "realloc"
    /\ EnsureFailed
    /\ fault' = TRUE
    /\ UNCHANGED <<clientVars, connVars, growVars>>

-----------------------------------------------------------------------------
(* handle_client_event *)

(* epoll_wait reports the connection without a hang-up *)
Event ==
    /\ pc = "idle" /\ sent > received /\ ~gone
    /\ pc' = "room"
    /\ UNCHANGED <<clientVars, connVars, growVars, reply, fault>>

(* ... with EPOLLERR, EPOLLHUP or EPOLLRDHUP: unread bytes are not looked at *)
EventHangup ==
    /\ pc = "idle" /\ gone
    /\ Finish("none")
    /\ UNCHANGED <<clientVars, connVars, growVars, fault>>

(* Slip: the buffer grows only once it is completely full *)
RoomLate ==
    /\ pc = "room"
    /\ IF capacity - received <= 0
         THEN CallEnsure(IF capacity * 2 > MaxSize THEN MaxSize ELSE capacity * 2,
                         "room")
         ELSE pc' = "recv" /\ UNCHANGED growVars
    /\ UNCHANGED <<clientVars, connVars, reply, fault>>

(* is there room for one byte and the terminating NUL? *)
Room ==
    /\ pc = "room"
    /\ IF capacity - received <= 1
         THEN CallEnsure(IF capacity * 2 > MaxSize THEN MaxSize ELSE capacity * 2,
                         "room")
         ELSE pc' = "recv" /\ UNCHANGED growVars
    /\ UNCHANGED <<clientVars, connVars, reply, fault>>

(* Slip: no byte is kept for the NUL *)
RecvLengthNoNul == (capacity - received) % Word

(* the length given to recv: conn->capacity - conn->received - 1U *)
RecvLength == (capacity - received - 1) % Word

Recv ==
    /\ pc = "recv" /\ RecvLength > 0
    /\ \E n \in 1 .. sent - received :
          /\ n <= RecvLength
          /\ received' = received + n
    /\ pc' = "frame"
    /\ UNCHANGED <<clientVars, capacity, header_bytes, content_length, growVars,
                   reply, fault>>

(* recv returns 0: the peer is gone, or no room was left in a full buffer *)
RecvZero ==
    /\ pc = "recv"
    /\ RecvLength = 0 \/ (gone /\ sent = received)
    /\ Finish("none")
    /\ UNCHANGED <<clientVars, connVars, growVars, fault>>

(* EAGAIN: wait for the next event *)
RecvAgain ==
    /\ pc = "recv" /\ RecvLength > 0
    /\ sent = received /\ ~gone
    /\ pc' = "idle"
    /\ UNCHANGED <<clientVars, connVars, growVars, reply, fault>>

-----------------------------------------------------------------------------
(* connection_has_complete_request *)

HeaderSeen == req.header > 0 /\ received >= req.header

(* no end of header yet *)
FrameNoHeader ==
    /\ pc = "frame" /\ header_bytes = 0 /\ ~HeaderSeen
    /\ pc' = "room"
    /\ UNCHANGED <<clientVars, connVars, growVars, reply, fault>>

(* a negative Content-Length *)
FrameNegative ==
    /\ pc = "frame" /\ header_bytes = 0 /\ HeaderSeen
    /\ req.length < 0
    /\ header_bytes' = req.header
    /\ content_length' = req.length
    /\ Finish("einval")
    /\ UNCHANGED <<clientVars, received, capacity, growVars, fault>>

(* Slip: a negative length is used like any other *)
FrameHeaderUnchecked ==
    /\ pc = "frame" /\ header_bytes = 0 /\ HeaderSeen
    /\ header_bytes' = req.header
    /\ content_length' = req.length
    /\ UNCHANGED <<clientVars, received, capacity, growVars, pc, reply, fault>>

FrameHeader ==
    /\ pc = "frame" /\ header_bytes = 0 /\ HeaderSeen
    /\ req.length >= 0
    /\ header_bytes' = req.header
    /\ content_length' = req.length
    /\ UNCHANGED <<clientVars, received, capacity, growVars, pc, reply, fault>>

FrameBody ==
    /\ pc = "frame" /\ header_bytes > 0
    /\ IF (TotalRequired + 1) % Word > MaxSize
         THEN Finish("enobufs") /\ UNCHANGED growVars
         ELSE CallEnsure((TotalRequired + 1) % Word, "frame") /\ reply' = reply
    /\ UNCHANGED <<clientVars, connVars, fault>>

-----------------------------------------------------------------------------
(* process_connection_request *)

(* the socket cannot be made blocking *)
ProcessNoFcntl ==
    /\ pc = "process"
    /\ Finish("none") /\ fault' = TRUE
    /\ UNCHANGED <<clientVars, connVars, growVars>>

(* process_request_buffer: a bad request line, a truncated body, or the     *)
(* request goes to its handler                                              *)
Process ==
    /\ pc = "process"
    /\ Finish(IF ~req.line \/ received - req.header < req.again
                THEN "einval" ELSE "dispatched")
    /\ UNCHANGED <<clientVars, connVars, growVars, fault>>

-----------------------------------------------------------------------------
(* The client *)

ClientSend ==
    /\ ~gone /\ pc # "closed"
    /\ \E n \in sent + 1 .. total : sent' = n
    /\ UNCHANGED <<req, total, gone, connVars, growVars, pc, reply, fault>>

(* a close or a reset; a reset discards what was not read *)
ClientGone ==
    /\ ~gone /\ pc # "closed"
    /\ gone' = TRUE
    /\ sent' \in {sent, received}
    /\ UNCHANGED <<req, total, connVars, growVars, pc, reply, fault>>

Server ==
    \/ EnsureEnough \/ EnsureGrow \/ Double \/ DoubleEnd
    \/ Realloc \/ ReallocFails
    \/ Event \/ EventHangup \/ Room \/ Recv \/ RecvZero \/ RecvAgain
    \/ FrameNoHeader \/ FrameNegative \/ FrameHeader \/ FrameBody
    \/ Process \/ ProcessNoFcntl

Done == pc = "closed" /\ UNCHANGED vars

Next == Server \/ ClientSend \/ ClientGone \/ Done

Spec == Init /\ [][Next]_vars

(* The worker handles the connection whenever it can (WorkerPool), and a    *)
(* client sends its whole request.                                          *)
FairSpec == Spec /\ WF_vars(Server) /\ WF_vars(ClientSend)

-----------------------------------------------------------------------------
(* Properties *)

(* Wherever the code indexes the buffer there is one byte more than was    *)
(* received: buffer[received] = 0 stays inside the allocation, and         *)
(* capacity - received - 1U does not wrap to a huge recv length.           *)
BufferSafe ==
    pc \in {"idle", "room", "recv", "frame", "process"} =>
        received < capacity /\ capacity <= MaxSize

(* recv is given a zero length - and its 0 taken for an end of stream -     *)
(* only when a header has filled the largest buffer without ending.  A      *)
(* request whose length is known always has room for its next byte.         *)
ZeroRecvOnlyWhenFull ==
    pc = "recv" /\ RecvLength = 0 =>
        header_bytes = 0 /\ received = MaxSize - 1 /\ ~HeaderSeen

(* A request is processed only when all of it has arrived and fits with     *)
(* its NUL, as true integers: no Content-Length makes the size_t sum wrap.  *)
FramingSound ==
    pc = "process" =>
        /\ HeaderSeen /\ req.length >= 0
        /\ Whole(req) <= received
        /\ Whole(req) + 1 <= MaxSize

(* Every way a connection ends is the client's doing or a failed call:      *)
(* "request too large" only for a request that is, EINVAL only for a        *)
(* malformed one - or one without a length whose body has the text of a     *)
(* header, which process_request_buffer then takes for it - and a close     *)
(* without an answer only when the client left, a call failed, or the       *)
(* header did not end within the largest buffer.                            *)
AnswerJustified ==
    pc = "closed" =>
        CASE reply = "enobufs"    -> fault \/ Whole(req) + 1 > MaxSize
          [] reply = "einval"     -> \/ req.length < 0 \/ ~req.line
                                     \/ /\ req.length = 0
                                        /\ req.again > received - req.header
          [] reply = "dispatched" -> req.line /\ received >= Whole(req)
          [] reply = "none"       -> gone \/ fault \/ req.header = 0
                                     \/ req.header >= MaxSize

(* A connection whose client sends its request is closed in the end; there  *)
(* is no timeout, so nothing is said of a client that stops half-way.       *)
RequestEnds == <>(pc = "closed")

=============================================================================
