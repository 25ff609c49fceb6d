------------------------------ MODULE ChunkIo -------------------------------
(***************************************************************************)
(* File contents end to end: httpfs_read_file and httpfs_write_file of     *)
(* src/http_client.c, which split a call into chunks and check sampled     *)
(* MD5s, against the read, write and truncate handlers of a service        *)
(* provider (C, Go or Python), which run concurrently.                     *)
(*                                                                         *)
(* Each client makes one call on one shared file.  The network may alter a *)
(* byte of a body, lose a message, or delay it beyond the client's         *)
(* timeout - the handler then goes on without its client.  An MD5 is the   *)
(* sequence of bytes it was computed from (no collisions).                 *)
(***************************************************************************)
EXTENDS Integers, Sequences, FiniteSets

CONSTANTS
    Client,
    Byte,           \* byte values; 0 fills holes
    Stride,         \* one byte in Stride is sampled (10 in the code)
    ReadChunk,      \* HTTPFS_READ_CHUNK_SIZE
    WriteChunk,     \* HTTPFS_WRITE_CHUNK_SIZE
    Program,        \* the calls each client may make, see Call
    Providers       \* the service providers the file may be on

ASSUME ChunkAssumption ==
    /\ 0 \in Byte
    /\ Stride \in Nat \ {0} /\ ReadChunk \in Nat \ {0} /\ WriteChunk \in Nat \ {0}
    /\ Providers \subseteq {"c", "go", "python"}

(* FUSE passes offsets and sizes that are not negative, and a buffer that  *)
(* holds as many bytes as it says.                                         *)
ASSUME ProgramAssumption ==
    \A c \in Client : \A k \in Program[c] :
        /\ k \in [op : {"read", "write", "truncate"}, off : Nat, data : Seq(Byte), size : Nat]
        /\ k.op = "write" => k.size = Len(k.data)

(* size is the length of a write's data, the bytes a read asks for, or the *)
(* length a truncate sets                                                  *)
Call(op, off, data, size) == [op |-> op, off |-> off, data |-> data, size |-> size]
Write(off, data) == Call("write", off, data, Len(data))
Read(off, size)  == Call("read", off, <<>>, size)
Truncate(size)   == Call("truncate", 0, <<>>, size)

VARIABLES
    provider,   \* the program that serves the file
    file,       \* the bytes of the file on the server
    call,       \* the call each client makes
    st,         \* "idle", "send", "wait", "ok" or "err"
    total,      \* total_read, total_written
    buf,        \* what a read has delivered to its caller
    rq,         \* the request of each client that is under way
    \* History
    cut,        \* the smallest length a truncate has set (-1: none)
    touched,    \* another request wrote in this request's range since it began
    acked       \* when a read began: the bytes that had been acknowledged

vars == <<provider, file, call, st, total, buf, rq, cut, touched, acked>>

(* httpfs_sparse_md5_hex: the bytes at offsets that are multiples of Stride *)
Sampled(p) == p % Stride = 0

Picks(n, base) == {i \in 1 .. n : Sampled(base + i - 1)}

(* the k-th of a set of numbers *)
Nth(S, k) == CHOOSE i \in S : Cardinality({j \in S : j <= i}) = k

SparseMd5(data, base) ==
    LET S == Picks(Len(data), base)
    IN  [k \in 1 .. Cardinality(S) |-> data[Nth(S, k)]]

(* what the network makes of a body: the same, or one byte altered *)
Delivered(data) ==
    {data} \cup {[data EXCEPT ![i] = b] : i \in 1 .. Len(data), b \in Byte}

(* pwrite: holes are filled with zeros *)
Overlay(f, off, data) ==
    [i \in 1 .. (IF Len(f) > off + Len(data) THEN Len(f) ELSE off + Len(data)) |->
        IF i > off /\ i <= off + Len(data) THEN data[i - off]
        ELSE IF i <= Len(f) THEN f[i] ELSE 0]

(* pread: what there is of the range *)
Pread(f, off, size) ==
    SubSeq(f, off + 1, IF off + size < Len(f) THEN off + size ELSE Len(f))

Resize(f, size) == [i \in 1 .. size |-> IF i <= Len(f) THEN f[i] ELSE 0]

NoReply == [ok |-> FALSE, why |-> "none", data |-> <<>>, md5 |-> <<>>, n |-> 0]
NoReq   == [pc |-> "none", off |-> 0, data |-> <<>>, size |-> 0, md5 |-> <<>>,
            done |-> 0, reply |-> NoReply]

Init ==
    /\ provider \in Providers
    /\ file = <<>>
    /\ call \in {f \in [Client -> UNION {Program[c] : c \in Client}] :
                    \A c \in Client : f[c] \in Program[c]}
    /\ st = [c \in Client |-> "idle"]
    /\ total = [c \in Client |-> 0]
    /\ buf = [c \in Client |-> <<>>]
    /\ rq = [c \in Client |-> NoReq]
    /\ cut = -1
    /\ touched = [c \in Client |-> FALSE]
    /\ acked = [c \in Client |-> {}]

-----------------------------------------------------------------------------
(* The client *)

(* positions c's write has had acknowledged, and what it wrote there *)
AckedBytes(c) ==
    IF call[c].op # "write" THEN {}
    ELSE {<<call[c].off + i - 1, call[c].data[i]>> : i \in 1 .. total[c]}

(* the call starts; a call of size 0 returns at once *)
Start(c) ==
    /\ st[c] = "idle"
    /\ st' = [st EXCEPT ![c] =
                IF call[c].size = 0 /\ call[c].op # "truncate" THEN "ok" ELSE "send"]
    /\ acked' = [acked EXCEPT ![c] =
                IF call[c].op = "read" THEN UNION {AckedBytes(d) : d \in Client} ELSE {}]
    /\ UNCHANGED <<provider, file, call, total, buf, rq, cut, touched>>

(* Slip: every chunk is asked for at the call's own offset *)
ChunkOffsetFixed(c) == call[c].off

(* offset + total_read, offset + total_written *)
ChunkOffset(c) == call[c].off + total[c]

(* Slip: the last chunk of a read is not shortened *)
ChunkSizeReadFull(c) ==
    IF call[c].op = "read" THEN ReadChunk
    ELSE IF call[c].size - total[c] > WriteChunk THEN WriteChunk
    ELSE call[c].size - total[c]

ChunkSize(c) ==
    LET left  == call[c].size - total[c]
        limit == IF call[c].op = "read" THEN ReadChunk ELSE WriteChunk
    IN  IF left > limit THEN limit ELSE left

(* http_request_ex for the next chunk *)
SendRequest(c) ==
    LET data == SubSeq(call[c].data, total[c] + 1, total[c] + ChunkSize(c)) IN
    /\ st[c] = "send"
    /\ st' = [st EXCEPT ![c] = "wait"]
    /\ rq' = [rq EXCEPT ![c] =
                CASE call[c].op = "write" ->
                       [NoReq EXCEPT !.pc = "sent", !.off = ChunkOffset(c),
                                     !.data = data, !.size = ChunkSize(c),
                                     !.md5 = SparseMd5(data, ChunkOffset(c))]
                  [] call[c].op = "read" ->
                       [NoReq EXCEPT !.pc = "sent", !.off = ChunkOffset(c),
                                     !.size = ChunkSize(c)]
                  [] call[c].op = "truncate" ->
                       [NoReq EXCEPT !.pc = "sent", !.size = call[c].size]]
    /\ touched' = [touched EXCEPT ![c] = FALSE]
    /\ UNCHANGED <<provider, file, call, total, buf, cut, acked>>

Return(c, how) == st' = [st EXCEPT ![c] = how]

(* Slip: no CURLOPT_TIMEOUT_MS *)
NeverTimesOut(c) == st[c] = "wait" /\ UNCHANGED vars

(* The request cannot be built, or curl gives up: the timeout has passed,   *)
(* the connection broke, the response is no valid HTTP, or memory is short. *)
(* The request may still be on its way or being handled.                    *)
RequestFails(c) ==
    /\ st[c] \in {"send", "wait"}
    /\ Return(c, "err")
    /\ UNCHANGED <<provider, file, call, total, buf, rq, cut, touched, acked>>

(* Slip: HTTP status 200, which errors have too, is taken for success *)
ReplyErrorIgnored(c) ==
    LET q == rq[c] IN
    /\ st[c] = "wait" /\ q.pc = "reply" /\ ~q.reply.ok
    /\ IF call[c].op = "write"
         THEN total' = [total EXCEPT ![c] = @ + ChunkSize(c)] /\ Return(c, "ok")
         ELSE total' = total /\ Return(c, "err")
    /\ UNCHANGED <<provider, file, call, buf, rq, cut, touched, acked>>

(* an error response, or one that fails one of the client's checks *)
ReplyError(c) ==
    LET q == rq[c] IN
    /\ st[c] = "wait" /\ q.pc = "reply" /\ ~q.reply.ok
    /\ Return(c, "err")
    /\ UNCHANGED <<provider, file, call, total, buf, rq, cut, touched, acked>>

ReplyWrite(c) ==
    LET q == rq[c] IN
    /\ st[c] = "wait" /\ q.pc = "reply" /\ q.reply.ok /\ call[c].op = "write"
    /\ IF q.reply.n = ChunkSize(c) /\ q.reply.md5 = q.md5
         THEN /\ total' = [total EXCEPT ![c] = @ + q.reply.n]
              /\ Return(c, IF total[c] + q.reply.n < call[c].size THEN "send" ELSE "ok")
         ELSE total' = total /\ Return(c, "err")
    /\ UNCHANGED <<provider, file, call, buf, rq, cut, touched, acked>>

(* a read ends with its last chunk, or with a short one *)
ReplyRead(c) ==
    LET q == rq[c] IN
    /\ st[c] = "wait" /\ q.pc = "reply" /\ q.reply.ok /\ call[c].op = "read"
    /\ \E body \in Delivered(q.reply.data) :
          IF Len(body) <= ChunkSize(c) /\ SparseMd5(body, q.off) = q.reply.md5
            THEN /\ buf' = [buf EXCEPT ![c] = @ \o body]
                 /\ total' = [total EXCEPT ![c] = @ + Len(body)]
                 /\ Return(c, IF Len(body) < ChunkSize(c)
                                 \/ total[c] + Len(body) = call[c].size
                              THEN "ok" ELSE "send")
            ELSE UNCHANGED <<buf, total>> /\ Return(c, "err")
    /\ UNCHANGED <<provider, file, call, rq, cut, touched, acked>>

ReplyTruncate(c) ==
    LET q == rq[c] IN
    /\ st[c] = "wait" /\ q.pc = "reply" /\ q.reply.ok /\ call[c].op = "truncate"
    /\ Return(c, "ok")
    /\ UNCHANGED <<provider, file, call, total, buf, rq, cut, touched, acked>>

-----------------------------------------------------------------------------
(* The server; a request is handled by one worker, in these steps *)

Respond(c, reply) ==
    rq' = [rq EXCEPT ![c].pc = "reply", ![c].reply = reply]

ErrorReply(why) == [NoReply EXCEPT !.why = why]

(* the server is gone, or drops the connection *)
Lose(c) ==
    /\ rq[c].pc = "sent"
    /\ rq' = [rq EXCEPT ![c].pc = "lost"]
    /\ UNCHANGED <<provider, file, call, st, total, buf, cut, touched, acked>>

(* Slip: the body is not compared with the MD5 header *)
ArriveWriteUnchecked(c) ==
    /\ rq[c].pc = "sent" /\ call[c].op = "write"
    /\ \E body \in Delivered(rq[c].data) :
          rq' = [rq EXCEPT ![c].data = body, ![c].pc = "pwrite"]
    /\ UNCHANGED <<provider, file, call, st, total, buf, cut, touched, acked>>

(* handle_write up to open: the body must match the MD5 header *)
ArriveWrite(c) ==
    /\ rq[c].pc = "sent" /\ call[c].op = "write"
    /\ \E body \in Delivered(rq[c].data) :
          IF SparseMd5(body, rq[c].off) = rq[c].md5
            THEN rq' = [rq EXCEPT ![c].data = body, ![c].pc = "pwrite"]
            ELSE Respond(c, ErrorReply("md5"))
    /\ UNCHANGED <<provider, file, call, st, total, buf, cut, touched, acked>>

(* open, pwrite, malloc or pread fails (ENOENT, ENOSPC, ENOMEM, EIO, a short *)
(* write); what pwrite_full has stored by then stays                         *)
HandlerFails(c) ==
    /\ rq[c].pc \in {"sent", "pwrite", "verify"}
    /\ Respond(c, ErrorReply("errno"))
    /\ UNCHANGED <<provider, file, call, st, total, buf, cut, touched, acked>>

InRange(c, p) == p >= rq[c].off /\ p < rq[c].off + Len(rq[c].data)

(* every other write under way that shares a byte of S has been touched *)
Touch(c, S) ==
    touched' = [d \in Client |->
        touched[d] \/ (d # c /\ rq[d].pc \in {"pwrite", "verify"}
                             /\ \E p \in S : InRange(d, p))]

(* one pwrite of pwrite_full's loop, of any length *)
Pwrite(c) ==
    LET q == rq[c] IN
    /\ q.pc = "pwrite"
    /\ \E n \in 1 .. Len(q.data) - q.done :
          /\ file' = Overlay(file, q.off + q.done, SubSeq(q.data, q.done + 1, q.done + n))
          /\ rq' = [rq EXCEPT ![c].done = q.done + n,
                              ![c].pc = IF q.done + n = Len(q.data) THEN "verify"
                                                                    ELSE "pwrite"]
          /\ Touch(c, q.off + q.done .. q.off + q.done + n - 1)
    /\ UNCHANGED <<provider, call, st, total, buf, cut, acked>>

(* Slip: the MD5 of the stored bytes is taken as if the chunk began at 0 *)
VerifyFromZero(c) ==
    LET q == rq[c]
        back == Pread(file, q.off, Len(q.data)) IN
    /\ q.pc = "verify"
    /\ Respond(c, IF Len(back) = Len(q.data) /\ SparseMd5(back, 0) = q.md5
                    THEN [NoReply EXCEPT !.ok = TRUE, !.n = Len(q.data),
                                         !.md5 = SparseMd5(back, 0)]
                    ELSE ErrorReply("stored"))
    /\ UNCHANGED <<provider, file, call, st, total, buf, cut, touched, acked>>

(* Slip: the MD5 of the body is sent back without reading the file *)
VerifyNothing(c) ==
    LET q == rq[c] IN
    /\ q.pc = "verify"
    /\ Respond(c, [NoReply EXCEPT !.ok = TRUE, !.n = Len(q.data), !.md5 = q.md5])
    /\ UNCHANGED <<provider, file, call, st, total, buf, cut, touched, acked>>

(* The stored bytes are read back and their MD5 compared.  A file that has  *)
(* become shorter is an error in C and, as io.ErrUnexpectedEOF, in Go;      *)
(* Python compares only the MD5 of what is left.                            *)
Verify(c) ==
    LET q == rq[c]
        back == Pread(file, q.off, Len(q.data))
        short == Len(back) < Len(q.data) IN
    /\ q.pc = "verify"
    /\ Respond(c, IF short /\ provider = "go" THEN ErrorReply("errno")
                  ELSE IF (short /\ provider = "c") \/ SparseMd5(back, q.off) # q.md5
                    THEN ErrorReply("stored")
                  ELSE [NoReply EXCEPT !.ok = TRUE, !.n = Len(q.data),
                                       !.md5 = SparseMd5(back, q.off)])
    /\ UNCHANGED <<provider, file, call, st, total, buf, cut, touched, acked>>

(* handle_read: one pread, then the MD5 of what it returned *)
HandleRead(c) ==
    LET data == Pread(file, rq[c].off, rq[c].size) IN
    /\ rq[c].pc = "sent" /\ call[c].op = "read"
    /\ Respond(c, [NoReply EXCEPT !.ok = TRUE, !.data = data,
                                  !.md5 = SparseMd5(data, rq[c].off)])
    /\ UNCHANGED <<provider, file, call, st, total, buf, cut, touched, acked>>

(* handle_truncate *)
HandleTruncate(c) ==
    LET size == rq[c].size IN
    /\ rq[c].pc = "sent" /\ call[c].op = "truncate"
    /\ file' = Resize(file, size)
    /\ cut' = IF cut = -1 \/ size < cut THEN size ELSE cut
    /\ Touch(c, {p \in 0 .. Len(file) : p >= size})
    /\ Respond(c, [NoReply EXCEPT !.ok = TRUE])
    /\ UNCHANGED <<provider, call, st, total, buf, acked>>

-----------------------------------------------------------------------------
ClientStep(c) ==
    \/ Start(c) \/ SendRequest(c) \/ RequestFails(c)
    \/ ReplyError(c) \/ ReplyWrite(c) \/ ReplyRead(c) \/ ReplyTruncate(c)

ServerStep(c) ==
    \/ ArriveWrite(c) \/ HandlerFails(c) \/ Pwrite(c) \/ Verify(c)
    \/ HandleRead(c) \/ HandleTruncate(c)

Returned(c) == st[c] \in {"ok", "err"}

Finished ==
    /\ \A c \in Client : Returned(c) /\ rq[c].pc \in {"none", "reply", "lost"}
    /\ UNCHANGED vars

Next ==
    \/ \E c \in Client : ClientStep(c) \/ ServerStep(c) \/ Lose(c)
    \/ Finished

Spec == Init /\ [][Next]_vars

(* Client code runs on, and its timer expires; nothing is assumed of the    *)
(* server and the network.                                                  *)
FairSpec == Spec /\ \A c \in Client : WF_vars(ClientStep(c))

-----------------------------------------------------------------------------
(* Properties *)

(* Every variable keeps its type; in particular total_read and             *)
(* total_written never pass the size the caller asked for, and a read has  *)
(* put exactly total_read bytes into the caller's buffer.                  *)
TypeOK ==
    /\ provider \in Providers
    /\ file \in Seq(Byte)
    /\ \A c \in Client : call[c] \in Program[c]
    /\ st \in [Client -> {"idle", "send", "wait", "ok", "err"}]
    /\ \A c \in Client :
          /\ total[c] \in 0 .. call[c].size
          /\ Len(buf[c]) = IF call[c].op = "read" THEN total[c] ELSE 0
          /\ rq[c].pc \in {"none", "sent", "lost", "pwrite", "verify", "reply"}
          /\ rq[c].done \in 0 .. Len(rq[c].data)
    /\ cut \in {-1} \cup Nat
    /\ touched \in [Client -> BOOLEAN]

(* Bytes that only c writes, and no truncate has removed. *)
Private(c, p) ==
    /\ cut = -1 \/ p < cut
    /\ \A d \in Client \ {c} :
          call[d].op = "write" => ~(p >= call[d].off /\ p < call[d].off + call[d].size)

(* Every sampled byte of every chunk a write has had acknowledged is in the *)
(* file, whatever the network altered, whether the call goes on, returned,  *)
(* or failed at a later chunk - the caller is then told that nothing was    *)
(* written - and whatever other clients do elsewhere in the file.           *)
AckedChunksStored ==
    \A c \in Client : \A a \in AckedBytes(c) :
        Sampled(a[1]) /\ Private(c, a[1]) =>
            Len(file) > a[1] /\ file[a[1] + 1] = a[2]

(* "stored content md5 verification failed" is reported only when another   *)
(* request wrote or cut the range between the write and its verification.   *)
StoredMismatchMeansOverlap ==
    \A c \in Client : rq[c].reply.why = "stored" => touched[c]

(* A read that succeeds returns, at sampled offsets, every byte that had    *)
(* been acknowledged to any client before it started and that no other      *)
(* call changes: chunks are asked for and put together in the right place.  *)
ReadAfterWrite ==
    \A c \in Client : call[c].op = "read" /\ st[c] = "ok" /\ cut = -1 =>
        \A a \in acked[c] :
            LET p == a[1] IN
            /\ Sampled(p) /\ p >= call[c].off /\ p < call[c].off + call[c].size
            /\ \E d \in Client : call[d].op = "write" /\ a \in AckedBytes(d) /\ Private(d, p)
            => p - call[c].off < Len(buf[c]) /\ buf[c][p - call[c].off + 1] = a[2]

(* A write whose body does not match its MD5 header leaves the file alone   *)
(* (tests/test_http_client_integration.c: "Rejected bad MD5 write should    *)
(* not change file size"): the file only changes by bytes that agree with   *)
(* the header, or by a truncate.                                            *)
RejectedWriteLeavesFile ==
    [][file' # file =>
         \E c \in Client :
            \/ call[c].op = "truncate" /\ rq[c].pc = "sent" /\ rq'[c].pc = "reply"
            \/ /\ rq[c].pc = "pwrite" /\ rq'[c].done > rq[c].done
               /\ SparseMd5(rq[c].data, rq[c].off) = rq[c].md5]_vars

(* Every call returns, although the server may never answer. *)
CallReturns == \A c \in Client : <>Returned(c)

=============================================================================
