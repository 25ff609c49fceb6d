-------------------------- MODULE ConnectionProofs --------------------------
(* The receive buffer and the framing are safe for every initial and        *)
(* maximal buffer size, every width of size_t and every request.            *)
EXTENDS Connection, TLAPS

InEnsure == pc \in {"ensure", "double", "realloc"}

(* While ensure_connection_capacity runs: what its caller has established.  *)
EnsureInv ==
    /\ InEnsure /\ caller = "add" =>
          capacity = 0 /\ received = 0 /\ header_bytes = 0 /\ need = InitSize
    /\ InEnsure /\ caller = "room" =>
          /\ received + 1 = capacity
          /\ header_bytes = 0 /\ ~HeaderSeen
          /\ need <= MaxSize
          /\ need > capacity \/ capacity = MaxSize
    /\ InEnsure /\ caller = "frame" =>
          /\ received < capacity
          /\ header_bytes > 0
          /\ need = header_bytes + content_length + 1 /\ need <= MaxSize
    /\ pc \in {"double", "realloc"} =>
          /\ need > capacity /\ need <= MaxSize
          /\ new_capacity >= capacity
          /\ pc = "realloc" => new_capacity >= need

(* The buffer always has room for the NUL; a full buffer is the largest.    *)
BufferInv ==
    /\ received <= sent
    /\ pc \in {"idle", "room", "recv", "frame", "process"} => received < capacity
    /\ pc = "recv" => received + 1 < capacity \/ capacity = MaxSize

(* What is known of the request once its header has been found.             *)
FrameInv ==
    /\ header_bytes > 0 =>
          /\ header_bytes = req.header /\ content_length = req.length
          /\ header_bytes <= received
          /\ pc # "closed" => content_length >= 0
    /\ header_bytes = 0 /\ pc \in {"idle", "room", "recv"} => ~HeaderSeen
    /\ header_bytes > 0 /\ pc \in {"idle", "room", "recv"} =>
          /\ received < header_bytes + content_length
          /\ header_bytes + content_length + 1 <= capacity
    /\ pc = "process" =>
          /\ header_bytes > 0
          /\ header_bytes + content_length <= received
          /\ header_bytes + content_length + 1 <= MaxSize

Inv == TypeOK /\ EnsureInv /\ BufferInv /\ FrameInv

(* Reduction modulo the word size leaves a value that fits alone. *)
LEMMA ModSmall ==
    ASSUME NEW a \in Nat, a < Word
    PROVE  a % Word = a
BY SizeAssumption

(* The size_t arithmetic on a request whose header fits never wraps. *)
LEMMA NoWrap ==
    ASSUME header_bytes \in 0 .. MaxSize, content_length \in 0 .. LongMax
    PROVE  /\ TotalRequired = header_bytes + content_length
           /\ (TotalRequired + 1) % Word = header_bytes + content_length + 1
<1>1. /\ header_bytes + content_length \in Nat
      /\ header_bytes + content_length + 1 \in Nat
      /\ header_bytes + content_length + 1 < Word
  BY SizeAssumption DEF LongMax
<1>2. TotalRequired = header_bytes + content_length
  BY <1>1, ModSmall, SizeAssumption DEF TotalRequired
<1> QED
  BY <1>1, <1>2, ModSmall

(* Nor does the length given to recv. *)
LEMMA RecvLengthExact ==
    ASSUME capacity \in 0 .. MaxSize, received \in 0 .. MaxSize, received < capacity
    PROVE  RecvLength = capacity - received - 1
<1>1. /\ capacity - received - 1 \in Nat
      /\ capacity - received - 1 < Word
  BY SizeAssumption DEF LongMax
<1> QED
  BY <1>1, ModSmall DEF RecvLength

(* What the code computes from a request's bytes. *)
LEMMA RequestType ==
    ASSUME req \in Request
    PROVE  /\ req.header \in Nat
           /\ req.length \in -LongMax - 1 .. LongMax
           /\ req.length \in Int
<1>1. req.header \in Headers /\ req.length \in Lengths
  BY DEF Request
<1>2. LongMax \in Int
  BY SizeAssumption DEF LongMax
<1>3. req.header \in Nat
  BY <1>1, InputAssumption
<1>4. req.length \in -LongMax - 1 .. LongMax
  BY <1>1, InputAssumption
<1>5. req.length \in Int
  BY <1>2, <1>4
<1> QED
  BY <1>3, <1>4, <1>5

(* Init establishes the inductive invariant. *)
LEMMA InitInv == Init => Inv
<1> SUFFICES ASSUME Init PROVE Inv
  OBVIOUS
<1>1. req.header \in Nat /\ req.length \in Int
  BY RequestType DEF Init
<1>2. total \in Nat
  BY <1>1, InputAssumption, SizeAssumption DEF Init, Whole
<1>3. TypeOK
  <2>1. /\ LongMax \in Nat /\ -1 \in -LongMax - 1 .. LongMax
        /\ 0 \in 0 .. MaxSize /\ InitSize \in 0 .. Word - 1
    BY SizeAssumption DEF LongMax
  <2>2. 0 \in 0 .. total
    BY <1>2
  <2> QED
    BY <1>2, <2>1, <2>2 DEF Init, TypeOK, PC, Reply
<1>4. EnsureInv /\ BufferInv /\ FrameInv
  BY <1>1, SizeAssumption DEF Init, EnsureInv, BufferInv, FrameInv, InEnsure
<1> QED
  BY <1>3, <1>4 DEF Inv

(* The facts about numbers that the steps below use. *)
LEMMA Numbers ==
    ASSUME TypeOK
    PROVE  /\ received \in Nat /\ capacity \in Nat /\ need \in Nat
           /\ new_capacity \in Nat /\ header_bytes \in Nat
           /\ content_length \in Int /\ sent \in Nat /\ total \in Nat
           /\ req.header \in Nat /\ req.length \in Int
           /\ received <= MaxSize /\ capacity <= MaxSize
           /\ new_capacity <= MaxSize /\ header_bytes <= MaxSize
           /\ content_length <= LongMax
<1>1. LongMax \in Int
  BY SizeAssumption DEF LongMax
<1>2. req.header \in Nat /\ req.length \in Int
  BY RequestType DEF TypeOK
<1>3. content_length \in Int /\ content_length <= LongMax
  BY <1>1 DEF TypeOK
<1> QED
  BY <1>2, <1>3, SizeAssumption DEF TypeOK

(* The return of ensure_connection_capacity with the capacity granted.     *)
LEMMA EnsureOkInv ==
    ASSUME Inv, InEnsure, EnsureOk,
           capacity' \in 0 .. MaxSize, capacity' >= need, capacity' >= capacity,
           UNCHANGED <<clientVars, received, header_bytes, content_length,
                       growVars, fault>>
    PROVE  Inv'
<1> USE SizeAssumption
<1>0. TypeOK /\ EnsureInv /\ BufferInv /\ FrameInv
  BY DEF Inv
<1>n. /\ received \in Nat /\ capacity \in Nat /\ need \in Nat
      /\ header_bytes \in Nat /\ content_length \in Int
      /\ req.header \in Nat /\ capacity' \in Nat
      /\ header_bytes <= MaxSize /\ content_length <= LongMax
  BY <1>0, Numbers
<1>1. CASE caller = "add"
  <2>1. pc' = "idle" /\ capacity' > 0 /\ received = 0 /\ header_bytes = 0
    BY <1>0, <1>1, <1>n DEF EnsureOk, EnsureInv
  <2>2. TypeOK'
    BY <1>0, <2>1 DEF TypeOK, EnsureOk, clientVars, growVars, PC
  <2> QED
    BY <1>0, <1>n, <2>1, <2>2 DEF Inv, EnsureInv, BufferInv, FrameInv, InEnsure,
       HeaderSeen, clientVars, growVars
<1>2. CASE caller = "room"
  <2>1. /\ pc' = "recv" /\ received + 1 = capacity
        /\ header_bytes = 0 /\ ~HeaderSeen
        /\ received + 1 < capacity' \/ capacity' = MaxSize
    BY <1>0, <1>2, <1>n DEF EnsureOk, EnsureInv
  <2>2. TypeOK'
    BY <1>0, <2>1 DEF TypeOK, EnsureOk, clientVars, growVars, PC
  <2> QED
    BY <1>0, <1>n, <2>1, <2>2 DEF Inv, EnsureInv, BufferInv, FrameInv, InEnsure,
       HeaderSeen, clientVars, growVars
<1>3. CASE caller = "frame"
  <2>1. /\ received < capacity /\ header_bytes > 0
        /\ need = header_bytes + content_length + 1 /\ need <= MaxSize
        /\ content_length >= 0 /\ pc # "closed"
    BY <1>0, <1>3 DEF EnsureInv, FrameInv, InEnsure
  <2>2. TotalRequired = header_bytes + content_length
    <3>1. header_bytes \in 0 .. MaxSize /\ content_length \in 0 .. LongMax
      BY <1>n, <2>1
    <3> QED
      BY <3>1, NoWrap
  <2>3. pc' = IF received >= header_bytes + content_length THEN "process"
                                                         ELSE "room"
    BY <1>3, <2>2 DEF EnsureOk, Complete
  <2>4. TypeOK'
    BY <1>0, <2>3 DEF TypeOK, EnsureOk, clientVars, growVars, PC
  <2> QED
    BY <1>0, <1>n, <2>1, <2>3, <2>4 DEF Inv, EnsureInv, BufferInv, FrameInv,
       InEnsure, clientVars, growVars
<1> QED
  BY <1>0, <1>1, <1>2, <1>3 DEF TypeOK

(* A connection that ends keeps its last state. *)
LEMMA FinishInv ==
    ASSUME Inv, NEW r \in Reply, Finish(r), fault' \in BOOLEAN,
           UNCHANGED <<clientVars, connVars, growVars>>
    PROVE  Inv'
<1>1. TypeOK'
  BY DEF Inv, TypeOK, Finish, clientVars, connVars, growVars, PC
<1> QED
  BY <1>1 DEF Inv, EnsureInv, BufferInv, FrameInv, InEnsure, HeaderSeen, Finish,
     clientVars, connVars, growVars

(* The steps of ensure_connection_capacity. *)
LEMMA EnsureStepInv ==
    ASSUME Inv, EnsureEnough \/ EnsureGrow \/ Double \/ DoubleEnd \/ Realloc
                \/ ReallocFails
    PROVE  Inv'
<1> USE SizeAssumption
<1>0. TypeOK /\ EnsureInv /\ BufferInv /\ FrameInv
  BY DEF Inv
<1>n. /\ received \in Nat /\ capacity \in Nat /\ need \in Nat
      /\ new_capacity \in Nat /\ capacity <= MaxSize /\ new_capacity <= MaxSize
  BY <1>0, Numbers
<1>1. CASE EnsureEnough
  <2>1. /\ InEnsure /\ EnsureOk /\ capacity' = capacity /\ capacity >= need
        /\ UNCHANGED <<clientVars, received, header_bytes, content_length,
                       growVars, fault>>
    BY <1>1, <1>n DEF EnsureEnough, InEnsure, connVars
  <2> QED
    BY <2>1, <1>n, EnsureOkInv
<1>2. CASE EnsureGrow
  <2>1. CASE need > MaxSize
    <3>1. PICK r \in Reply : Finish(r)
      BY <1>2, <2>1 DEF EnsureGrow, EnsureFailed, Reply
    <3>2. UNCHANGED <<clientVars, connVars, growVars>> /\ fault' \in BOOLEAN
      BY <1>0, <1>2, <2>1 DEF EnsureGrow, TypeOK, growVars
    <3> QED
      BY <3>1, <3>2, FinishInv
  <2>2. CASE need <= MaxSize
    <3>1. /\ pc = "ensure" /\ pc' = "double" /\ need > capacity
          /\ new_capacity' = IF capacity > 0 THEN capacity ELSE InitSize
          /\ UNCHANGED <<clientVars, connVars, need, caller, reply, fault>>
      BY <1>2, <2>2, <1>n DEF EnsureGrow
    <3>2. new_capacity' \in 0 .. MaxSize /\ new_capacity' >= capacity
      BY <3>1, <1>n
    <3>3. TypeOK'
      BY <1>0, <3>1, <3>2 DEF TypeOK, PC, clientVars, connVars
    <3> QED
      BY <1>0, <2>2, <3>1, <3>2, <3>3 DEF Inv, EnsureInv, BufferInv, FrameInv,
         InEnsure, HeaderSeen, clientVars, connVars
  <2> QED
    BY <2>1, <2>2, <1>n
<1>3. CASE Double \/ DoubleEnd
  <2>1. /\ pc = "double" /\ pc' \in {"double", "realloc"}
        /\ UNCHANGED <<clientVars, connVars, need, caller, reply, fault>>
    BY <1>3 DEF Double, DoubleEnd, growVars
  <2>2. /\ new_capacity' \in 0 .. MaxSize /\ new_capacity' >= capacity
        /\ pc' = "realloc" => new_capacity' >= need
    BY <1>0, <1>3, <1>n DEF Double, DoubleEnd, EnsureInv, growVars
  <2>3. TypeOK'
    BY <1>0, <2>1, <2>2 DEF TypeOK, PC, clientVars, connVars
  <2> QED
    BY <1>0, <2>1, <2>2, <2>3 DEF Inv, EnsureInv, BufferInv, FrameInv, InEnsure,
       HeaderSeen, clientVars, connVars
<1>4. CASE Realloc
  <2>1. need <= new_capacity /\ new_capacity <= MaxSize /\ new_capacity >= capacity
    BY <1>0, <1>4, <1>n DEF Realloc, EnsureInv
  <2>2. /\ InEnsure /\ EnsureOk /\ capacity' = new_capacity
        /\ UNCHANGED <<clientVars, received, header_bytes, content_length,
                       growVars, fault>>
    BY <1>4, <2>1 DEF Realloc, InEnsure
  <2> QED
    BY <2>1, <2>2, <1>n, EnsureOkInv
<1>5. CASE ReallocFails
  <2>1. PICK r \in Reply : Finish(r)
    BY <1>5 DEF ReallocFails, EnsureFailed, Reply
  <2> QED
    BY <1>5, <2>1, FinishInv DEF ReallocFails
<1> QED
  BY <1>1, <1>2, <1>3, <1>4, <1>5

(* The steps of handle_client_event. *)
LEMMA EventStepInv ==
    ASSUME Inv, Event \/ EventHangup \/ Room \/ Recv \/ RecvZero \/ RecvAgain
    PROVE  Inv'
<1> USE SizeAssumption
<1>0. TypeOK /\ EnsureInv /\ BufferInv /\ FrameInv
  BY DEF Inv
<1>n. /\ received \in Nat /\ capacity \in Nat /\ need \in Nat /\ sent \in Nat
      /\ header_bytes \in Nat /\ content_length \in Int /\ req.header \in Nat
      /\ received <= MaxSize /\ capacity <= MaxSize
  BY <1>0, Numbers
<1>1. CASE Event \/ RecvAgain
  <2>1. /\ pc \in {"idle", "recv"} /\ pc' \in {"idle", "room"}
        /\ UNCHANGED <<clientVars, connVars, growVars, reply, fault>>
    BY <1>1 DEF Event, RecvAgain
  <2>2. TypeOK'
    BY <1>0, <2>1 DEF TypeOK, PC, clientVars, connVars, growVars
  <2> QED
    BY <1>0, <2>1, <2>2 DEF Inv, EnsureInv, BufferInv, FrameInv, InEnsure,
       HeaderSeen, clientVars, connVars, growVars
<1>2. CASE EventHangup \/ RecvZero
  <2>1. "none" \in Reply
    BY DEF Reply
  <2>2. /\ Finish("none") /\ fault' \in BOOLEAN
        /\ UNCHANGED <<clientVars, connVars, growVars>>
    BY <1>0, <1>2 DEF EventHangup, RecvZero, TypeOK
  <2> QED
    BY <2>1, <2>2, FinishInv
<1>3. CASE Room
  <2>0. received < capacity
    BY <1>0, <1>3 DEF Room, BufferInv
  <2>1. CASE capacity - received <= 1
    <3>1. /\ pc' = "ensure" /\ caller' = "room"
          /\ need' = IF capacity * 2 > MaxSize THEN MaxSize ELSE capacity * 2
          /\ UNCHANGED <<clientVars, connVars, new_capacity, reply, fault>>
      BY <1>3, <2>1 DEF Room, CallEnsure
    <3>2. /\ received + 1 = capacity
          /\ need' \in 0 .. MaxSize /\ need' \in 0 .. Word - 1
          /\ need' > capacity \/ capacity = MaxSize
      BY <1>n, <2>0, <2>1, <3>1 DEF LongMax
    <3>3. header_bytes = 0 /\ ~HeaderSeen
      BY <1>0, <1>3, <1>n, <3>2 DEF Room, FrameInv
    <3>4. TypeOK'
      BY <1>0, <3>1, <3>2 DEF TypeOK, PC, clientVars, connVars
    <3> QED
      BY <1>0, <3>1, <3>2, <3>3, <3>4 DEF Inv, EnsureInv, BufferInv, FrameInv,
         InEnsure, HeaderSeen, clientVars, connVars
  <2>2. CASE ~(capacity - received <= 1)
    <3>1. /\ pc = "room" /\ pc' = "recv"
          /\ UNCHANGED <<clientVars, connVars, growVars, reply, fault>>
      BY <1>3, <2>2 DEF Room
    <3>2. received + 1 < capacity
      BY <1>n, <2>2
    <3>3. TypeOK'
      BY <1>0, <3>1 DEF TypeOK, PC, clientVars, connVars, growVars
    <3> QED
      BY <1>0, <3>1, <3>2, <3>3 DEF Inv, EnsureInv, BufferInv, FrameInv,
         InEnsure, HeaderSeen, clientVars, connVars, growVars
  <2> QED
    BY <2>1, <2>2
<1>4. CASE Recv
  <2>0. received < capacity
    BY <1>0, <1>4 DEF Recv, BufferInv
  <2>1. RecvLength = capacity - received - 1
    BY <1>n, <2>0, RecvLengthExact
  <2>2. PICK n \in 1 .. sent - received : n <= RecvLength /\ received' = received + n
    BY <1>4 DEF Recv
  <2>3. /\ received' \in 0 .. MaxSize /\ received' < capacity /\ received' <= sent
        /\ received' >= received
    BY <1>n, <2>1, <2>2
  <2>4. /\ pc' = "frame"
        /\ UNCHANGED <<clientVars, capacity, header_bytes, content_length,
                       growVars, reply, fault>>
    BY <1>4 DEF Recv
  <2>5. TypeOK'
    BY <1>0, <2>3, <2>4 DEF TypeOK, PC, clientVars, growVars
  <2>6. header_bytes > 0 => header_bytes <= received' /\ content_length >= 0
    BY <1>0, <1>4, <1>n, <2>3 DEF Recv, FrameInv
  <2> QED
    BY <1>0, <1>n, <2>3, <2>4, <2>5, <2>6 DEF Inv, EnsureInv, BufferInv,
       FrameInv, InEnsure, clientVars, growVars
<1> QED
  BY <1>1, <1>2, <1>3, <1>4

(* The steps of connection_has_complete_request and of the processing. *)
LEMMA FrameStepInv ==
    ASSUME Inv, FrameNoHeader \/ FrameNegative \/ FrameHeader \/ FrameBody
                \/ Process \/ ProcessNoFcntl
    PROVE  Inv'
<1> USE SizeAssumption
<1>0. TypeOK /\ EnsureInv /\ BufferInv /\ FrameInv
  BY DEF Inv
<1>n. /\ received \in Nat /\ capacity \in Nat /\ need \in Nat /\ sent \in Nat
      /\ header_bytes \in Nat /\ content_length \in Int
      /\ req.header \in Nat /\ req.length \in Int
      /\ received <= MaxSize /\ capacity <= MaxSize
      /\ header_bytes <= MaxSize /\ content_length <= LongMax
  BY <1>0, Numbers
<1>1. CASE FrameNoHeader
  <2>1. TypeOK'
    BY <1>0, <1>1 DEF FrameNoHeader, TypeOK, PC, clientVars, connVars, growVars
  <2> QED
    BY <1>0, <1>1, <2>1 DEF FrameNoHeader, Inv, EnsureInv, BufferInv, FrameInv,
       InEnsure, HeaderSeen, clientVars, connVars, growVars
<1>2. CASE FrameNegative \/ FrameHeader
  <2>1. /\ header_bytes' = req.header /\ content_length' = req.length
        /\ pc' # "closed" => req.length >= 0
        /\ pc = "frame" /\ pc' \in {"frame", "closed"}
        /\ UNCHANGED <<clientVars, received, capacity, growVars, fault>>
    BY <1>2 DEF FrameNegative, FrameHeader, Finish
  <2>2. req.header <= received /\ req.header > 0
    BY <1>2 DEF FrameNegative, FrameHeader, HeaderSeen
  <2>3. reply' \in Reply
    BY <1>0, <1>2 DEF FrameNegative, FrameHeader, Finish, TypeOK, Reply
  <2>4. header_bytes' \in 0 .. MaxSize /\ content_length' \in -LongMax - 1 .. LongMax
    <3>1. req.length \in -LongMax - 1 .. LongMax
      BY <1>0, RequestType DEF TypeOK
    <3> QED
      BY <1>n, <2>1, <2>2, <3>1
  <2>5. TypeOK'
    BY <1>0, <2>1, <2>3, <2>4 DEF TypeOK, PC, clientVars, growVars
  <2> QED
    BY <1>0, <1>n, <2>1, <2>2, <2>5 DEF Inv, EnsureInv, BufferInv, FrameInv,
       InEnsure, clientVars, growVars
<1>3. CASE FrameBody
  <2>0. /\ pc = "frame" /\ header_bytes > 0 /\ content_length >= 0
        /\ received < capacity
    BY <1>0, <1>3 DEF FrameBody, FrameInv, BufferInv
  <2>1. (TotalRequired + 1) % Word = header_bytes + content_length + 1
    <3>1. header_bytes \in 0 .. MaxSize /\ content_length \in 0 .. LongMax
      BY <1>n, <2>0
    <3> QED
      BY <3>1, NoWrap
  <2>2. CASE header_bytes + content_length + 1 > MaxSize
    <3>1. "enobufs" \in Reply
      BY DEF Reply
    <3>2. /\ Finish("enobufs") /\ fault' \in BOOLEAN
          /\ UNCHANGED <<clientVars, connVars, growVars>>
      BY <1>0, <1>3, <2>1, <2>2 DEF FrameBody, TypeOK
    <3> QED
      BY <3>1, <3>2, FinishInv
  <2>3. CASE ~(header_bytes + content_length + 1 > MaxSize)
    <3>1. /\ pc' = "ensure" /\ caller' = "frame"
          /\ need' = header_bytes + content_length + 1
          /\ UNCHANGED <<clientVars, connVars, new_capacity, reply, fault>>
      BY <1>3, <2>1, <2>3 DEF FrameBody, CallEnsure
    <3>2. need' \in 0 .. Word - 1 /\ need' <= MaxSize
      BY <1>n, <2>0, <2>3, <3>1 DEF LongMax
    <3>3. TypeOK'
      BY <1>0, <3>1, <3>2 DEF TypeOK, PC, clientVars, connVars
    <3> QED
      BY <1>0, <2>0, <3>1, <3>2, <3>3 DEF Inv, EnsureInv, BufferInv, FrameInv,
         InEnsure, clientVars, connVars
  <2> QED
    BY <2>2, <2>3
<1>4. CASE Process \/ ProcessNoFcntl
  <2>1. PICK r \in Reply : Finish(r)
    BY <1>4 DEF Process, ProcessNoFcntl, Reply
  <2>2. UNCHANGED <<clientVars, connVars, growVars>> /\ fault' \in BOOLEAN
    BY <1>0, <1>4 DEF Process, ProcessNoFcntl, TypeOK
  <2> QED
    BY <2>1, <2>2, FinishInv
<1> QED
  BY <1>1, <1>2, <1>3, <1>4

(* The client cannot disturb the buffer. *)
LEMMA ClientInv ==
    ASSUME Inv, ClientSend \/ ClientGone
    PROVE  Inv'
<1>0. TypeOK /\ EnsureInv /\ BufferInv /\ FrameInv
  BY DEF Inv
<1>n. received \in Nat /\ sent \in Nat /\ total \in Nat
  BY <1>0, Numbers
<1>1. /\ sent' \in 0 .. total /\ received <= sent' /\ gone' \in BOOLEAN
      /\ UNCHANGED <<req, total, connVars, growVars, pc, reply, fault>>
  <2>0. received <= sent /\ sent <= total
    BY <1>0 DEF TypeOK, BufferInv
  <2>1. CASE ClientSend
    <3>1. PICK n \in sent + 1 .. total : sent' = n
      BY <2>1 DEF ClientSend
    <3>2. sent' \in 0 .. total /\ received <= sent'
      BY <1>n, <2>0, <3>1
    <3> QED
      BY <1>0, <2>1, <3>2 DEF ClientSend, TypeOK
  <2>2. CASE ClientGone
    <3>1. sent' \in 0 .. total /\ received <= sent'
      BY <1>n, <2>0, <2>2 DEF ClientGone
    <3> QED
      BY <2>2, <3>1 DEF ClientGone
  <2> QED
    BY <2>1, <2>2
<1>2. TypeOK'
  BY <1>0, <1>1 DEF TypeOK, connVars, growVars
<1> QED
  BY <1>0, <1>1, <1>2 DEF Inv, EnsureInv, BufferInv, FrameInv, InEnsure,
     HeaderSeen, connVars, growVars

(* Inv is an invariant. *)
LEMMA Invariant == Spec => []Inv
<1>1. Init => Inv
  BY InitInv
<1>2. Inv /\ [Next]_vars => Inv'
  <2>1. ASSUME Inv, UNCHANGED vars PROVE Inv'
    BY <2>1 DEF Inv, TypeOK, EnsureInv, BufferInv, FrameInv, InEnsure,
       HeaderSeen, vars, clientVars, connVars, growVars
  <2> QED
    BY <2>1, EnsureStepInv, EventStepInv, FrameStepInv, ClientInv
       DEF Next, Server, Done
<1> QED
  BY <1>1, <1>2, PTL DEF Spec

(* The sizes ensure_connection_capacity works with never leave their type,  *)
(* however often it doubles: nothing passes SERVER_MAX_REQUEST_SIZE.        *)
THEOREM TypeCorrect == Spec => []TypeOK
<1>1. Inv => TypeOK
  BY DEF Inv
<1> QED
  BY <1>1, Invariant, PTL

(* The buffer is never indexed outside its allocation, whatever the client *)
(* sends and whenever realloc fails.                                       *)
THEOREM BufferCorrect == Spec => []BufferSafe
<1>1. Inv => BufferSafe
  BY Numbers DEF Inv, BufferInv, BufferSafe
<1> QED
  BY <1>1, Invariant, PTL

(* A buffer with no room for a byte and its NUL is the largest one, and     *)
(* full of a header that has not ended.                                     *)
LEMMA InvZeroRecv == ASSUME Inv PROVE ZeroRecvOnlyWhenFull
<1> SUFFICES ASSUME pc = "recv", RecvLength = 0
             PROVE  header_bytes = 0 /\ received = MaxSize - 1 /\ ~HeaderSeen
  BY DEF ZeroRecvOnlyWhenFull
<1>n. /\ received \in Nat /\ capacity \in Nat /\ header_bytes \in Nat
      /\ content_length \in Int /\ received <= MaxSize /\ capacity <= MaxSize
  BY Numbers DEF Inv
<1>1. received < capacity
  BY DEF Inv, BufferInv
<1>2. received + 1 = capacity
  BY <1>n, <1>1, RecvLengthExact, SizeAssumption
<1>3. capacity = MaxSize
  BY <1>n, <1>2 DEF Inv, BufferInv
<1>4. header_bytes = 0
  BY <1>n, <1>2 DEF Inv, FrameInv
<1> QED
  BY <1>n, <1>2, <1>3, <1>4 DEF Inv, FrameInv

(* recv gets a zero length only for a header that never ends: a request of *)
(* known length is never mistaken for a closed connection.                 *)
THEOREM ZeroRecvCorrect == Spec => []ZeroRecvOnlyWhenFull
<1>1. Inv => ZeroRecvOnlyWhenFull
  BY InvZeroRecv
<1> QED
  BY <1>1, Invariant, PTL

(* A request reaches its handler only when all of it has arrived, for every *)
(* Content-Length a long can hold: the size_t sum never wraps.              *)
THEOREM FramingCorrect == Spec => []FramingSound
<1>1. Inv => FramingSound
  <2> SUFFICES ASSUME Inv, pc = "process" PROVE
        /\ HeaderSeen /\ req.length >= 0
        /\ Whole(req) <= received /\ Whole(req) + 1 <= MaxSize
    BY DEF FramingSound
  <2>n. /\ received \in Nat /\ header_bytes \in Nat /\ content_length \in Int
    BY Numbers DEF Inv
  <2>1. /\ header_bytes > 0 /\ header_bytes = req.header
        /\ content_length = req.length /\ content_length >= 0
        /\ header_bytes <= received
        /\ header_bytes + content_length <= received
        /\ header_bytes + content_length + 1 <= MaxSize
    BY DEF Inv, FrameInv
  <2>2. Whole(req) = header_bytes + content_length
    BY <2>n, <2>1 DEF Whole
  <2> QED
    BY <2>n, <2>1, <2>2 DEF HeaderSeen
<1> QED
  BY <1>1, Invariant, PTL

-----------------------------------------------------------------------------
(* How a connection ends *)

(* A closed connection stays as it was closed. *)
LEMMA OpenStepsJustified ==
    ASSUME AnswerJustified, pc = "closed" \/ pc' # "closed", [Next]_vars
    PROVE  AnswerJustified'
<1>1. CASE pc = "closed"
  <2>1. UNCHANGED vars
    BY <1>1 DEF Next, Server, Done, EnsureEnough, EnsureGrow, Double, DoubleEnd,
       Realloc, ReallocFails, Event, EventHangup, Room, Recv, RecvZero,
       RecvAgain, FrameNoHeader, FrameNegative, FrameHeader, FrameBody,
       Process, ProcessNoFcntl, ClientSend, ClientGone
  <2> QED
    BY <2>1 DEF AnswerJustified, Whole, vars, clientVars, connVars
<1> QED
  BY <1>1 DEF AnswerJustified

(* ensure_connection_capacity closes a connection only when realloc fails:  *)
(* every caller asks for a size it has checked against the limit.           *)
LEMMA EnsureStepJustified ==
    ASSUME Inv, pc' = "closed",
           EnsureEnough \/ EnsureGrow \/ Double \/ DoubleEnd \/ Realloc
           \/ ReallocFails
    PROVE  AnswerJustified'
<1> USE SizeAssumption
<1>0. TypeOK /\ EnsureInv
  BY DEF Inv
<1>n. need \in Nat /\ new_capacity \in Nat
  BY <1>0, Numbers
<1>1. InEnsure /\ caller \in {"add", "room", "frame"}
  BY <1>0 DEF EnsureEnough, EnsureGrow, Double, DoubleEnd, Realloc,
     ReallocFails, InEnsure, TypeOK
<1>2. need <= MaxSize
  BY <1>0, <1>1, <1>n DEF EnsureInv
<1>3. ReallocFails
  <2>1. ~(Double \/ DoubleEnd)
    BY DEF Double, DoubleEnd
  <2>2. ~EnsureOk
    BY <1>1 DEF EnsureOk
  <2>3. ~EnsureEnough
    BY <2>2 DEF EnsureEnough
  <2>4. ~EnsureGrow
    BY <1>n, <1>2 DEF EnsureGrow
  <2>5. ~Realloc
    <3>1. pc = "realloc" => need <= new_capacity /\ new_capacity <= MaxSize
      BY <1>0, <1>n, Numbers DEF EnsureInv
    <3> QED
      BY <2>2, <3>1 DEF Realloc
  <2> QED
    BY <2>1, <2>3, <2>4, <2>5
<1> QED
  BY <1>3 DEF ReallocFails, EnsureFailed, Finish, AnswerJustified

(* handle_client_event closes a connection in silence only when the client *)
(* left or its header filled the largest buffer.                            *)
LEMMA EventStepJustified ==
    ASSUME Inv, pc' = "closed",
           Event \/ EventHangup \/ Room \/ Recv \/ RecvZero \/ RecvAgain
    PROVE  AnswerJustified'
<1> USE SizeAssumption
<1>1. EventHangup \/ RecvZero
  BY DEF Event, Room, CallEnsure, Recv, RecvAgain
<1>2. reply' = "none" /\ UNCHANGED <<clientVars, connVars, growVars, fault>>
  BY <1>1 DEF EventHangup, RecvZero, Finish
<1>3. gone \/ (pc = "recv" /\ RecvLength = 0)
  BY <1>1 DEF EventHangup, RecvZero
<1>4. gone \/ req.header = 0 \/ req.header >= MaxSize
  <2> SUFFICES ASSUME pc = "recv", RecvLength = 0
               PROVE  req.header = 0 \/ req.header >= MaxSize
    BY <1>3
  <2>1. received = MaxSize - 1 /\ ~HeaderSeen
    BY InvZeroRecv DEF ZeroRecvOnlyWhenFull
  <2>2. req.header \in Nat
    BY Numbers DEF Inv
  <2> QED
    BY <2>1, <2>2 DEF HeaderSeen
<1> QED
  BY <1>2, <1>4 DEF AnswerJustified, clientVars

(* The framing code refuses only what is malformed or too large, and a      *)
(* request is dispatched only with all of its body.                         *)
LEMMA FrameStepJustified ==
    ASSUME Inv, pc' = "closed",
           FrameNoHeader \/ FrameNegative \/ FrameHeader \/ FrameBody
           \/ Process \/ ProcessNoFcntl
    PROVE  AnswerJustified'
<1> USE SizeAssumption
<1>0. TypeOK /\ FrameInv
  BY DEF Inv
<1>n. /\ received \in Nat /\ header_bytes \in Nat /\ content_length \in Int
      /\ req.header \in Nat /\ req.length \in Int
      /\ header_bytes <= MaxSize /\ content_length <= LongMax
  BY <1>0, Numbers
<1>1. CASE FrameNegative
  BY <1>1 DEF FrameNegative, Finish, AnswerJustified, clientVars
<1>2. CASE FrameBody
  <2>1. /\ header_bytes > 0 /\ header_bytes = req.header
        /\ content_length = req.length /\ content_length >= 0
    BY <1>0, <1>2 DEF FrameBody, FrameInv
  <2>2. (TotalRequired + 1) % Word = header_bytes + content_length + 1
    <3>1. header_bytes \in 0 .. MaxSize /\ content_length \in 0 .. LongMax
      BY <1>n, <2>1
    <3> QED
      BY <3>1, NoWrap
  <2>3. /\ reply' = "enobufs" /\ header_bytes + content_length + 1 > MaxSize
        /\ req' = req
    BY <1>2, <2>2 DEF FrameBody, CallEnsure, Finish, clientVars
  <2>4. Whole(req) + 1 > MaxSize
    BY <1>n, <2>1, <2>3 DEF Whole
  <2> QED
    BY <2>3, <2>4 DEF AnswerJustified, Whole
<1>3. CASE Process
  <2>1. received >= Whole(req)
    <3>1. /\ header_bytes = req.header /\ content_length = req.length
          /\ content_length >= 0 /\ header_bytes + content_length <= received
      BY <1>0, <1>3 DEF Process, FrameInv
    <3> QED
      BY <1>n, <3>1 DEF Whole
  <2>2. req.again \in Int
    <3>1. req.again \in Lengths
      BY <1>0 DEF TypeOK, Request
    <3>2. LongMax \in Int
      BY DEF LongMax
    <3>3. req.again \in -LongMax - 1 .. LongMax
      BY <3>1, InputAssumption
    <3> QED
      BY <3>2, <3>3
  <2>3. /\ req' = req /\ received' = received
        /\ reply' = IF ~req.line \/ received - req.header < req.again
                      THEN "einval" ELSE "dispatched"
    BY <1>3 DEF Process, Finish, clientVars, connVars
  <2>4. CASE ~req.line \/ received - req.header < req.again
    <3>1. req.length # 0 => req.again = req.length
      BY <1>0 DEF TypeOK, Request
    <3>2. req.length > 0 => ~(received - req.header < req.length)
      BY <1>n, <2>1 DEF Whole
    <3>3. req.length < 0 \/ ~req.line \/ (req.length = 0 /\ req.again > received - req.header)
      BY <1>n, <2>2, <2>4, <3>1, <3>2
    <3> QED
      BY <2>3, <2>4, <3>3 DEF AnswerJustified
  <2>5. CASE ~(~req.line \/ received - req.header < req.again)
    BY <2>1, <2>3, <2>5 DEF AnswerJustified, Whole
  <2> QED
    BY <2>4, <2>5
<1>4. CASE ProcessNoFcntl
  BY <1>4 DEF ProcessNoFcntl, Finish, AnswerJustified
<1> QED
  BY <1>1, <1>2, <1>3, <1>4 DEF FrameNoHeader, FrameHeader

(* Every way a connection ends is the client's doing or a failed call, for  *)
(* every request and every buffer size: the answer tells the truth.         *)
THEOREM AnswerCorrect == Spec => []AnswerJustified
<1>1. Init => AnswerJustified
  BY DEF Init, AnswerJustified
<1>2. Inv /\ AnswerJustified /\ [Next]_vars => AnswerJustified'
  <2> SUFFICES ASSUME Inv, AnswerJustified, [Next]_vars PROVE AnswerJustified'
    OBVIOUS
  <2>1. CASE pc = "closed" \/ pc' # "closed"
    BY <2>1, OpenStepsJustified
  <2>2. CASE ~(pc = "closed" \/ pc' # "closed")
    <3>1. Server
      BY <2>2 DEF Next, ClientSend, ClientGone, Done, vars
    <3> QED
      BY <2>2, <3>1, EnsureStepJustified, EventStepJustified,
         FrameStepJustified DEF Server
  <2> QED
    BY <2>1, <2>2
<1> QED
  BY <1>1, <1>2, Invariant, PTL DEF Spec

=============================================================================
