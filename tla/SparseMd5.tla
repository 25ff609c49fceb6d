------------------------------ MODULE SparseMd5 ------------------------------
(***************************************************************************)
(* httpfs_sparse_md5_hex of src/hash_utils.c: the sampled bytes of a chunk *)
(* go one by one through md5_update's block buffer, md5_final pads them.   *)
(* md5_transform is left abstract: it appends the block it is given to     *)
(* ctx.fed.  The Go and Python providers hand the sampled bytes to their   *)
(* libraries at once, so digests agree exactly when the blocks are those   *)
(* of the padded message.                                                  *)
(***************************************************************************)
EXTENDS Integers, Sequences

CONSTANTS
    Block,          \* 64
    LengthBytes,    \* 8: bytes of the length at the end
    Radix,          \* 256: values of a byte
    Period,         \* 10: every tenth byte of the file is sampled
    Bytes,          \* bytes a chunk may hold
    MaxSize,        \* bound on the size of a chunk
    Offsets         \* offsets of the chunk in the file

ASSUME Md5Assumption ==
    /\ Block \in Nat /\ LengthBytes \in 1 .. Block - 1
    /\ Radix \in Nat \ {0, 1} /\ Period \in Nat \ {0}
    /\ MaxSize \in Nat /\ Offsets \subseteq Nat
    (* bit_count, a uint64_t, counts the bits of a padded chunk *)
    /\ Radix ^ LengthBytes \in Nat /\ 8 * (MaxSize + 2 * Block) < Radix ^ LengthBytes

Unset == -1     \* md5_init leaves buffer[] uninitialised
Mark  == 128    \* 0x80

VARIABLES
    data, base_offset,
    i,          \* the loop of httpfs_sparse_md5_hex
    ctx,        \* bit_count, buffer, and what md5_transform was given
    bits,       \* md5_final's bits[]
    pc          \* "sample", "pad", "length", "done"

vars == <<data, base_offset, i, ctx, bits, pc>>

(* md5_init *)
Empty == [bit_count |-> 0, buffer |-> [j \in 0 .. Block - 1 |-> Unset], fed |-> <<>>]

Init ==
    /\ \E n \in 0 .. MaxSize : data \in [1 .. n -> Bytes]
    /\ base_offset \in Offsets
    /\ i = 0 /\ ctx = Empty /\ bits = <<>> /\ pc = "sample"

-----------------------------------------------------------------------------
(* memcpy(&buffer[at], input, n): beyond the buffer it would be seen as a   *)
(* larger domain                                                            *)
Copy(buffer, at, input) ==
    LET to == at .. at + Len(input) - 1
    IN  [j \in DOMAIN buffer \cup to |-> IF j \in to THEN input[j - at + 1] ELSE buffer[j]]

(* buffer[0 .. n - 1] *)
Front(buffer, n) == [j \in 1 .. n |-> buffer[j - 1]]

Index(c) == (c.bit_count \div 8) % Block

(* part_len bytes complete the buffer, whole blocks are taken from the      *)
(* input, the rest is kept                                                  *)
md5_update(c, input) ==
    LET index == Index(c)
        part_len == Block - index
        full == Len(input) >= part_len
        rest == IF full THEN part_len + Block * ((Len(input) - part_len) \div Block) ELSE 0
        filled == IF full THEN Copy(c.buffer, index, SubSeq(input, 1, part_len)) ELSE c.buffer
    IN  [bit_count |-> (c.bit_count + 8 * Len(input)) % Radix ^ LengthBytes,
         buffer |-> Copy(filled, IF full THEN 0 ELSE index, SubSeq(input, rest + 1, Len(input))),
         fed |-> IF full THEN c.fed \o Front(filled, Block) \o SubSeq(input, part_len + 1, rest)
                 ELSE c.fed]

(* is data[j] sampled? *)
Sampled(j) == (base_offset + j) % Period = 0

Sample ==
    /\ pc = "sample"
    /\ IF i = Len(data)
         THEN pc' = "pad" /\ UNCHANGED <<i, ctx>>
         ELSE /\ ctx' = IF Sampled(i) THEN md5_update(ctx, <<data[i + 1]>>) ELSE ctx
              /\ i' = i + 1 /\ UNCHANGED pc
    /\ UNCHANGED <<data, base_offset, bits>>

(* the bytes of a length, lowest first *)
LengthOf(n) == [j \in 1 .. LengthBytes |-> (n \div Radix ^ (j - 1)) % Radix]

Padding(n) == [j \in 1 .. n |-> IF j = 1 THEN Mark ELSE 0]

(* Slip: a message that leaves room for the length alone is not padded      *)
PadLengthNone(index) ==
    IF index <= Block - LengthBytes THEN Block - LengthBytes - index
    ELSE 2 * Block - LengthBytes - index

(* 56 - index or 120 - index *)
PadLength(index) ==
    IF index < Block - LengthBytes THEN Block - LengthBytes - index
    ELSE 2 * Block - LengthBytes - index

(* md5_final takes the length before it pads *)
Pad ==
    /\ pc = "pad" /\ pc' = "length"
    /\ bits' = LengthOf(ctx.bit_count)
    /\ ctx' = md5_update(ctx, Padding(PadLength(Index(ctx))))
    /\ UNCHANGED <<data, base_offset, i>>

AppendLength ==
    /\ pc = "length" /\ pc' = "done"
    /\ ctx' = md5_update(ctx, bits)
    /\ UNCHANGED <<data, base_offset, i, bits>>

Done == pc = "done" /\ UNCHANGED vars

Next == Sample \/ Pad \/ AppendLength \/ Done

Spec == Init /\ [][Next]_vars

-----------------------------------------------------------------------------
(* Properties *)

(* The bytes among the first n of the chunk that lie at multiples of Period *)
(* in the file.                                                             *)
First == (Period - (base_offset % Period)) % Period
Count(n) == IF First >= n THEN 0 ELSE (n - First - 1) \div Period + 1
Picked(n) == [j \in 1 .. Count(n) |-> data[First + Period * (j - 1) + 1]]

Message == Picked(Len(data))

(* What md5_transform has been given is the message, a 0x80, as few zeros   *)
(* as fill the blocks, and the length: MD5's padding, whichever place of a  *)
(* block the message ends at, and never a byte of the uninitialised buffer. *)
(* So the digest is the one that Go's md5.Sum and Python's hashlib.md5      *)
(* compute for the same chunk at the same offset of the file.  On the way   *)
(* no memcpy leaves buffer[].                                               *)
DigestOfPadded ==
    /\ DOMAIN ctx.buffer = 0 .. Block - 1
    /\ pc = "done" =>
          LET n == Len(ctx.fed)
              m == Len(Message)
          IN  /\ n % Block = 0
              /\ n - (m + 1 + LengthBytes) \in 0 .. Block - 1
              /\ SubSeq(ctx.fed, 1, m) = Message
              /\ ctx.fed[m + 1] = Mark
              /\ \A j \in m + 2 .. n - LengthBytes : ctx.fed[j] = 0
              /\ SubSeq(ctx.fed, n - LengthBytes + 1, n) = LengthOf(8 * m)

=============================================================================
