----------------------------- MODULE FileService ----------------------------
(***************************************************************************)
(* What reading and writing a file over the network promises its callers,  *)
(* without requests, messages, timers or MD5s.  Calls advance chunk by     *)
(* chunk.  A write changes nothing but its current chunk, and at a sampled *)
(* offset only to the caller's byte; a chunk counts as written after the   *)
(* file has been seen to hold its sampled bytes; a read delivers, at       *)
(* sampled offsets, what the file held at one moment per chunk; and a call *)
(* has no effect after it has succeeded, while one that failed still may.  *)
(* ChunkIoService shows that ChunkIo does this.                            *)
(***************************************************************************)
EXTENDS Integers, Sequences

CONSTANTS Client, Byte, Stride, ReadChunk, WriteChunk,
          Calls         \* records with fields op, off, data, size

VARIABLES
    file,       \* the bytes
    call,       \* what each client asked for
    outcome,    \* "none", "ok" or "err"
    total,      \* bytes its call has written or read so far
    buf,        \* bytes a read has delivered
    answer      \* of its current chunk: nothing, "done", or the bytes fetched

fvars == <<file, call, outcome, total, buf, answer>>

Nothing == [kind |-> "nothing", data |-> <<>>]
Stored  == [kind |-> "done", data |-> <<>>]
Bytes(d) == [kind |-> "bytes", data |-> d]

FInit ==
    /\ file = <<>>
    /\ call \in [Client -> Calls]
    /\ outcome = [c \in Client |-> "none"]
    /\ total = [c \in Client |-> 0]
    /\ buf = [c \in Client |-> <<>>]
    /\ answer = [c \in Client |-> Nothing]

IsSampled(p) == p % Stride = 0

Least(a, b) == IF a < b THEN a ELSE b

(* the current chunk of c's call: its offsets in the file *)
First(c) == call[c].off + total[c]
Extent(c) == Least(call[c].size - total[c],
                   IF call[c].op = "read" THEN ReadChunk ELSE WriteChunk)
Chunk(c) == First(c) .. First(c) + Extent(c) - 1

Wanted(c, p) == call[c].data[p - call[c].off + 1]

(* the byte at an offset; a hole reads as zero *)
At(f, p) == IF p < Len(f) THEN f[p + 1] ELSE 0

(* some part of the chunk reaches the file *)
Patch(c) ==
    /\ call[c].op = "write" /\ outcome[c] # "ok"
    /\ file' \in Seq(Byte)
    /\ Len(file') >= Len(file)
    /\ Len(file') > Len(file) => Len(file') - 1 \in Chunk(c)
    /\ \A p \in 0 .. Len(file') - 1 :
          \/ At(file', p) = At(file, p)
          \/ p \in Chunk(c) /\ (IsSampled(p) => At(file', p) = Wanted(c, p))
    /\ UNCHANGED <<call, outcome, total, buf, answer>>

Answer(c, a) ==
    /\ outcome[c] = "none" /\ answer[c] = Nothing
    /\ answer' = [answer EXCEPT ![c] = a]
    /\ UNCHANGED <<call, outcome, total, buf>>

(* the file holds every sampled byte of the chunk *)
Confirm(c) ==
    /\ call[c].op = "write"
    /\ \A p \in Chunk(c) : IsSampled(p) => p < Len(file) /\ At(file, p) = Wanted(c, p)
    /\ Answer(c, Stored)
    /\ file' = file

Fetch(c) ==
    /\ call[c].op = "read"
    /\ Answer(c, Bytes(SubSeq(file, First(c) + 1, Least(First(c) + Extent(c), Len(file)))))
    /\ file' = file

(* the file gets the length of c's truncate; the caller may have given up *)
Resized(c) ==
    file' = [i \in 1 .. call[c].size |-> At(file, i - 1)]

Cut(c) ==
    /\ call[c].op = "truncate" /\ Resized(c)
    /\ Answer(c, Stored)

LateCut(c) ==
    /\ call[c].op = "truncate" /\ outcome[c] = "err" /\ Resized(c)
    /\ UNCHANGED <<call, outcome, total, buf, answer>>

Advance(c, n, ends) ==
    /\ total' = [total EXCEPT ![c] = @ + n]
    /\ answer' = [answer EXCEPT ![c] = Nothing]
    /\ outcome' = [outcome EXCEPT ![c] = IF ends THEN "ok" ELSE "none"]
    /\ UNCHANGED <<file, call>>

Acknowledge(c) ==
    /\ answer[c] = Stored
    /\ IF call[c].op = "truncate" THEN Advance(c, 0, TRUE)
       ELSE Advance(c, Extent(c), total[c] + Extent(c) = call[c].size)
    /\ buf' = buf

(* what is delivered agrees with what was fetched at the sampled offsets *)
Deliver(c) ==
    LET d == answer[c].data
        n == Len(d) IN
    /\ answer[c].kind = "bytes"
    /\ Len(buf'[c]) = total[c] + n
    /\ buf' = [buf EXCEPT ![c] = @ \o SubSeq(buf'[c], total[c] + 1, total[c] + n)]
    /\ \A i \in 1 .. n : IsSampled(First(c) + i - 1) => buf'[c][total[c] + i] = d[i]
    /\ Advance(c, n, n < Extent(c) \/ total[c] + n = call[c].size)

(* nothing to do *)
Trivial(c) ==
    /\ outcome[c] = "none" /\ call[c].size = 0 /\ call[c].op # "truncate"
    /\ outcome' = [outcome EXCEPT ![c] = "ok"]
    /\ UNCHANGED <<file, call, total, buf, answer>>

Fail(c) ==
    /\ outcome[c] = "none"
    /\ outcome' = [outcome EXCEPT ![c] = "err"]
    /\ answer' = [answer EXCEPT ![c] = Nothing]
    /\ UNCHANGED <<file, call, total, buf>>

FNext ==
    \E c \in Client :
        \/ Patch(c) \/ Confirm(c) \/ Fetch(c) \/ Cut(c) \/ LateCut(c)
        \/ Acknowledge(c) \/ Deliver(c) \/ Trivial(c) \/ Fail(c)

FSpec == FInit /\ [][FNext]_fvars

=============================================================================
