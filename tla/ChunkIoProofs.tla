---------------------------- MODULE ChunkIoProofs ----------------------------
(* Theorems about reading and writing file contents, for every chunk size,  *)
(* sampling stride, set of clients and calls and each service provider.     *)
EXTENDS ChunkIoService, SequenceTheorems, FiniteSetTheorems, TLAPS

-----------------------------------------------------------------------------
(* Sampled MD5s *)

(* The sampled places are finitely many, and each is the Nth for its rank. *)
LEMMA NthOfRank ==
    ASSUME NEW n \in Nat, NEW base \in Nat, NEW i \in Picks(n, base)
    PROVE  LET S == Picks(n, base)
               k == Cardinality({j \in S : j <= i})
           IN  k \in 1 .. Cardinality(S) /\ Nth(S, k) = i
<1> DEFINE S == Picks(n, base)
           R(x) == {j \in S : j <= x}
<1>1. S \subseteq 1 .. n /\ IsFiniteSet(1 .. n)
  BY FS_Interval DEF Picks
<1>2. IsFiniteSet(S)
  BY <1>1, FS_Subset
<1>3. \A x : R(x) \subseteq S
  OBVIOUS
<1>4. ASSUME NEW x
      PROVE  IsFiniteSet(R(x)) /\ Cardinality(R(x)) \in Nat /\ Cardinality(R(x)) <= Cardinality(S)
  <2>1. IsFiniteSet(R(x)) /\ Cardinality(R(x)) <= Cardinality(S)
    BY <1>2, <1>3, FS_Subset
  <2> QED
    BY <2>1, FS_CardinalityType
<1>5. ASSUME NEW x \in S, NEW y \in S, x < y PROVE Cardinality(R(x)) < Cardinality(R(y))
  <2>1. R(x) \subseteq R(y) /\ y \in R(y) /\ y \notin R(x)
    BY <1>1, <1>5
  <2>2. Cardinality(R(x)) <= Cardinality(R(y)) /\ (Cardinality(R(x)) = Cardinality(R(y)) => R(x) = R(y))
    BY <1>4, <2>1, FS_Subset
  <2>3. Cardinality(R(x)) # Cardinality(R(y))
    BY <2>1, <2>2
  <2> QED
    BY <1>4, <2>2, <2>3
<1>6. Cardinality(R(i)) # 0
  <2>1. i \in R(i)
    BY <1>1
  <2> QED
    BY <1>4, <2>1, FS_EmptySet
<1>7. Cardinality(S) \in Nat
  BY <1>2, FS_CardinalityType
<1>8. Cardinality(R(i)) \in 1 .. Cardinality(S)
  BY <1>4, <1>6, <1>7
<1>9. Nth(S, Cardinality(R(i))) = i
  <2>1. \A x \in S : Cardinality(R(x)) = Cardinality(R(i)) => x = i
    <3> SUFFICES ASSUME NEW x \in S, x # i PROVE Cardinality(R(x)) # Cardinality(R(i))
      OBVIOUS
    <3>1. x < i \/ i < x
      BY <1>1
    <3> QED
      BY <1>4, <1>5, <3>1
  <2>2. \E x \in S : Cardinality(R(x)) = Cardinality(R(i))
    OBVIOUS
  <2> QED
    BY <2>1, <2>2 DEF Nth
<1> QED
  BY <1>8, <1>9

(* Bodies of which one is not longer than the other, at the same offset and *)
(* with the same MD5, agree at every sampled place, and the longer has no   *)
(* sampled place more.                                                      *)
LEMMA SameMd5 ==
    ASSUME NEW x \in Seq(Byte), NEW y \in Seq(Byte), NEW base \in Nat,
           Len(x) <= Len(y), SparseMd5(x, base) = SparseMd5(y, base)
    PROVE  \A i \in 1 .. Len(y) : Sampled(base + i - 1) => i <= Len(x) /\ x[i] = y[i]
<1> DEFINE A == Picks(Len(x), base)
           B == Picks(Len(y), base)
<1>1. Len(x) \in Nat /\ Len(y) \in Nat
  OBVIOUS
<1>2. A \subseteq B /\ IsFiniteSet(B)
  <2>1. IsFiniteSet(1 .. Len(y)) /\ B \subseteq 1 .. Len(y)
    BY <1>1, FS_Interval DEF Picks
  <2>2. IsFiniteSet(B)
    BY <2>1, FS_Subset
  <2> QED
    BY <1>1, <2>2 DEF Picks
<1>3. Cardinality(A) \in Nat /\ Cardinality(B) \in Nat
  <2>1. IsFiniteSet(A)
    BY <1>2, FS_Subset
  <2> QED
    BY <1>2, <2>1, FS_CardinalityType
<1>4. /\ SparseMd5(x, base) = [k \in 1 .. Cardinality(A) |-> x[Nth(A, k)]]
      /\ SparseMd5(y, base) = [k \in 1 .. Cardinality(B) |-> y[Nth(B, k)]]
  BY DEF SparseMd5
<1>5. 1 .. Cardinality(A) = 1 .. Cardinality(B)
  <2>1. DOMAIN SparseMd5(x, base) = 1 .. Cardinality(A)
    BY <1>4
  <2>2. DOMAIN SparseMd5(y, base) = 1 .. Cardinality(B)
    BY <1>4
  <2> QED
    BY <2>1, <2>2
<1>6. Cardinality(A) = Cardinality(B)
  <2>1. \A a, b \in Nat : 1 .. a = 1 .. b => a = b
    <3> SUFFICES ASSUME NEW a \in Nat, NEW b \in Nat, 1 .. a = 1 .. b, a # b PROVE FALSE
      OBVIOUS
    <3>1. a + 1 <= b \/ b + 1 <= a
      OBVIOUS
    <3>2. CASE a + 1 <= b
      <4>1. a + 1 \in 1 .. b /\ a + 1 \notin 1 .. a
        BY <3>2
      <4> QED
        BY <4>1
    <3>3. CASE b + 1 <= a
      <4>1. b + 1 \in 1 .. a /\ b + 1 \notin 1 .. b
        BY <3>3
      <4> QED
        BY <4>1
    <3> QED
      BY <3>1, <3>2, <3>3
  <2> QED
    BY <1>3, <1>5, <2>1
<1>7. A = B
  BY <1>2, <1>6, FS_Subset
<1> SUFFICES ASSUME NEW i \in 1 .. Len(y), Sampled(base + i - 1)
             PROVE  i <= Len(x) /\ x[i] = y[i]
  OBVIOUS
<1>8. i \in B
  BY DEF Picks
<1>9. i <= Len(x)
  BY <1>1, <1>7, <1>8 DEF Picks
<1> DEFINE k == Cardinality({j \in B : j <= i})
<1>10. k \in 1 .. Cardinality(B) /\ Nth(B, k) = i
  BY <1>1, <1>8, NthOfRank
<1> HIDE DEF k, A, B
<1>11. SparseMd5(x, base)[k] = x[i] /\ SparseMd5(y, base)[k] = y[i]
  BY <1>4, <1>7, <1>10
<1> QED
  BY <1>9, <1>11

-----------------------------------------------------------------------------
(* Bytes of a file *)

LEMMA DeliveredFacts ==
    ASSUME NEW d \in Seq(Byte), NEW x \in Delivered(d)
    PROVE  x \in Seq(Byte) /\ Len(x) = Len(d)
<1>1. CASE x = d
  BY <1>1
<1>2. ASSUME NEW i \in 1 .. Len(d), NEW b \in Byte, x = [d EXCEPT ![i] = b]
      PROVE  x \in Seq(Byte) /\ Len(x) = Len(d)
  BY <1>2, ExceptSeq
<1> QED
  BY <1>1, <1>2 DEF Delivered

(* pwrite: the bytes written, and the others as they were, or 0 in a hole. *)
LEMMA OverlayFacts ==
    ASSUME NEW f \in Seq(Byte), NEW off \in Nat, NEW d \in Seq(Byte)
    PROVE  /\ Overlay(f, off, d) \in Seq(Byte)
           /\ Len(Overlay(f, off, d)) = IF Len(f) > off + Len(d) THEN Len(f) ELSE off + Len(d)
           /\ \A i \in 1 .. Len(d) : Overlay(f, off, d)[off + i] = d[i]
           /\ \A i \in 1 .. Len(f) : i <= off \/ i > off + Len(d) => Overlay(f, off, d)[i] = f[i]
           /\ \A i \in Len(f) + 1 .. off : Overlay(f, off, d)[i] = 0
<1> DEFINE n == IF Len(f) > off + Len(d) THEN Len(f) ELSE off + Len(d)
           e(i) == IF i > off /\ i <= off + Len(d) THEN d[i - off]
                   ELSE IF i <= Len(f) THEN f[i] ELSE 0
           o == Overlay(f, off, d)
<1>1. n \in Nat /\ Len(f) \in Nat /\ Len(d) \in Nat
  OBVIOUS
<1>2. o = [i \in 1 .. n |-> e(i)]
  BY DEF Overlay
<1>3. ASSUME NEW i \in 1 .. n PROVE e(i) \in Byte
  <2>1. CASE i > off /\ i <= off + Len(d)
    <3>1. i - off \in 1 .. Len(d)
      BY <1>1, <1>3, <2>1
    <3> QED
      BY <2>1, <3>1
  <2>2. CASE ~(i > off /\ i <= off + Len(d)) /\ i <= Len(f)
    <3>1. i \in 1 .. Len(f)
      BY <1>1, <1>3, <2>2
    <3> QED
      BY <2>2, <3>1
  <2>3. CASE ~(i > off /\ i <= off + Len(d)) /\ ~(i <= Len(f))
    BY <2>3, ChunkAssumption
  <2> QED
    BY <2>1, <2>2, <2>3
<1>4. o \in Seq(Byte) /\ Len(o) = n
  <2> HIDE DEF n, e, o
  <2>1. o \in [1 .. n -> Byte]
    BY <1>2, <1>3
  <2> QED
    BY <1>1, <2>1
<1>5. ASSUME NEW i \in 1 .. Len(d) PROVE o[off + i] = d[i]
  <2>1. off + i \in 1 .. n /\ off + i > off /\ off + i <= off + Len(d) /\ (off + i) - off = i
    BY <1>1
  <2> HIDE DEF n, o
  <2> QED
    BY <1>2, <2>1
<1>6. ASSUME NEW i \in 1 .. Len(f), i <= off \/ i > off + Len(d) PROVE o[i] = f[i]
  <2>1. i \in 1 .. n /\ ~(i > off /\ i <= off + Len(d)) /\ i <= Len(f)
    BY <1>1, <1>6
  <2> HIDE DEF n, o
  <2> QED
    BY <1>2, <2>1
<1>7. ASSUME NEW i \in Len(f) + 1 .. off PROVE o[i] = 0
  <2>1. i \in 1 .. n /\ ~(i > off /\ i <= off + Len(d)) /\ ~(i <= Len(f))
    BY <1>1, <1>7
  <2> HIDE DEF n, o
  <2> QED
    BY <1>2, <2>1
<1> QED
  BY <1>4, <1>5, <1>6, <1>7

(* pread *)
LEMMA PreadFacts ==
    ASSUME NEW f \in Seq(Byte), NEW off \in Nat, NEW size \in Nat
    PROVE  /\ Pread(f, off, size) \in Seq(Byte)
           /\ Len(Pread(f, off, size)) <= size
           /\ Len(f) >= off + size => Len(Pread(f, off, size)) = size
           /\ \A i \in 1 .. Len(Pread(f, off, size)) :
                 off + i <= Len(f) /\ Pread(f, off, size)[i] = f[off + i]
           /\ \A i \in 1 .. size : off + i <= Len(f) => i <= Len(Pread(f, off, size))
<1> DEFINE e == IF off + size < Len(f) THEN off + size ELSE Len(f)
           x == SubSeq(f, off + 1, e)
<1>1. /\ e \in Nat /\ e <= Len(f) /\ e <= off + size
      /\ e = off + size \/ e = Len(f)
      /\ Len(f) >= off + size => e = off + size
  OBVIOUS
<1>2. \A i \in off + 1 .. e : f[i] \in Byte
  <2>1. \A i \in off + 1 .. e : i \in 1 .. Len(f)
    BY <1>1
  <2> QED
    BY <2>1
<1> HIDE DEF e
<1>3. off + 1 \in Int /\ e \in Int
  BY <1>1
<1>4. /\ x \in Seq(Byte)
      /\ Len(x) = IF off + 1 <= e THEN e - (off + 1) + 1 ELSE 0
      /\ \A i \in 1 .. e - (off + 1) + 1 : x[i] = f[off + 1 + i - 1]
  BY <1>2, <1>3, SubSeqProperties
<1> HIDE DEF x
<1>5. \A i \in 1 .. Len(x) : off + i <= Len(f) /\ x[i] = f[off + i]
  <2> SUFFICES ASSUME NEW i \in 1 .. Len(x) PROVE off + i <= Len(f) /\ x[i] = f[off + i]
    OBVIOUS
  <2>1. i \in 1 .. e - (off + 1) + 1 /\ off + 1 + i - 1 = off + i /\ off + i <= e
    BY <1>1, <1>4
  <2> QED
    BY <1>1, <1>4, <2>1
<1>6. Len(x) <= size /\ (Len(f) >= off + size => Len(x) = size)
  BY <1>1, <1>4
<1>7. \A i \in 1 .. size : off + i <= Len(f) => i <= Len(x)
  BY <1>1, <1>4
<1>8. Pread(f, off, size) = x
  BY DEF Pread, x, e
<1> QED
  BY <1>4, <1>5, <1>6, <1>7, <1>8

(* truncate *)
LEMMA ResizeFacts ==
    ASSUME NEW f \in Seq(Byte), NEW size \in Nat
    PROVE  /\ Resize(f, size) \in Seq(Byte) /\ Len(Resize(f, size)) = size
           /\ \A i \in 1 .. size : Resize(f, size)[i] = IF i <= Len(f) THEN f[i] ELSE 0
<1>1. Resize(f, size) = [i \in 1 .. size |-> IF i <= Len(f) THEN f[i] ELSE 0]
  BY DEF Resize
<1>2. \A i \in 1 .. size : (IF i <= Len(f) THEN f[i] ELSE 0) \in Byte
  BY ChunkAssumption
<1>3. Resize(f, size) \in [1 .. size -> Byte]
  BY <1>1, <1>2
<1> QED
  BY <1>1, <1>3

(* a piece of a sequence *)
LEMMA PieceFacts ==
    ASSUME NEW d \in Seq(Byte), NEW m \in Nat, NEW n \in Nat, m + n <= Len(d)
    PROVE  /\ SubSeq(d, m + 1, m + n) \in Seq(Byte) /\ Len(SubSeq(d, m + 1, m + n)) = n
           /\ \A i \in 1 .. n : SubSeq(d, m + 1, m + n)[i] = d[m + i]
<1> DEFINE x == SubSeq(d, m + 1, m + n)
<1>1. \A i \in m + 1 .. m + n : d[i] \in Byte
  <2>1. \A i \in m + 1 .. m + n : i \in 1 .. Len(d)
    OBVIOUS
  <2> QED
    BY <2>1
<1>2. m + 1 \in Int /\ m + n \in Int
  OBVIOUS
<1>3. /\ x \in Seq(Byte)
      /\ Len(x) = IF m + 1 <= m + n THEN m + n - (m + 1) + 1 ELSE 0
      /\ \A i \in 1 .. m + n - (m + 1) + 1 : x[i] = d[m + 1 + i - 1]
  BY <1>1, <1>2, SubSeqProperties
<1> HIDE DEF x
<1>4. \A i \in 1 .. n : i \in 1 .. m + n - (m + 1) + 1 /\ m + 1 + i - 1 = m + i
  OBVIOUS
<1>5. Len(x) = n
  BY <1>3
<1>6. \A i \in 1 .. n : x[i] = d[m + i]
  BY <1>3, <1>4
<1> QED
  BY <1>3, <1>5, <1>6 DEF x

-----------------------------------------------------------------------------
(* The inductive invariant *)

Calls == [op : {"read", "write", "truncate"}, off : Nat, data : Seq(Byte), size : Nat]

Digest == {<<>>} \cup {SparseMd5(d, b) : d \in Seq(Byte), b \in Nat}

Reply == [ok : BOOLEAN, why : {"none", "md5", "errno", "stored"}, data : Seq(Byte),
          md5 : Digest, n : Nat]

Request == [pc : {"none", "sent", "lost", "pwrite", "verify", "reply"}, off : Nat,
            data : Seq(Byte), size : Nat, md5 : Digest, done : Nat, reply : Reply]

TypeInv ==
    /\ provider \in Providers
    /\ file \in Seq(Byte)
    /\ call \in [Client -> Calls]
    /\ \A c \in Client : call[c] \in Program[c]
    /\ st \in [Client -> {"idle", "send", "wait", "ok", "err"}]
    /\ total \in [Client -> Nat]
    /\ buf \in [Client -> Seq(Byte)]
    /\ rq \in [Client -> Request]
    /\ cut \in {-1} \cup Nat
    /\ touched \in [Client -> BOOLEAN]
    /\ acked \in [Client -> SUBSET (Nat \X Byte)]

(* The request is under way, or is the one the client waits for: it is for  *)
(* the chunk the call is at.                                                *)
Busy(c) == rq[c].pc \in {"sent", "pwrite", "verify"}
Live(c) == Busy(c) \/ st[c] = "wait"

Answered(c) == st[c] = "wait" /\ rq[c].pc = "reply" /\ rq[c].reply.ok = TRUE

(* the caller's bytes of the chunk *)
Piece(c) == SubSeq(call[c].data, total[c] + 1, total[c] + ChunkSize(c))

(* How far a call and its request are. *)
CallInv(c) ==
    /\ total[c] <= call[c].size
    /\ Len(buf[c]) = IF call[c].op = "read" THEN total[c] ELSE 0
    /\ st[c] = "idle" => total[c] = 0 /\ acked[c] = {}
    /\ st[c] \in {"idle", "send"} => ~Busy(c)
    /\ Busy(c) => st[c] \in {"wait", "err"}
    /\ st[c] = "wait" => rq[c].pc # "none"

(* What a request carries. *)
RequestInv(c) ==
    /\ rq[c].done <= Len(rq[c].data)
    /\ rq[c].pc = "sent" => rq[c].done = 0
    /\ rq[c].pc = "verify" => rq[c].done = Len(rq[c].data)
    /\ rq[c].pc \in {"pwrite", "verify"} =>
          call[c].op = "write" /\ SparseMd5(rq[c].data, rq[c].off) = rq[c].md5
    /\ Live(c) =>
          /\ rq[c].size = IF call[c].op = "truncate" THEN call[c].size ELSE ChunkSize(c)
          /\ call[c].op # "truncate" => rq[c].off = ChunkOffset(c)
          /\ call[c].op = "write" => /\ Len(rq[c].data) = ChunkSize(c)
                                     /\ rq[c].md5 = SparseMd5(Piece(c), ChunkOffset(c))

(* What a positive answer carries. *)
AnswerInv(c) ==
    Answered(c) =>
        /\ call[c].op # "read" => rq[c].reply.data = <<>>
        /\ call[c].op = "read" => /\ Len(rq[c].reply.data) <= ChunkSize(c)
                                  /\ rq[c].reply.md5 = SparseMd5(rq[c].reply.data, rq[c].off)

(* What a handler has stored stays there until another request touches it. *)
StoredInv(c) ==
    /\ rq[c].pc \in {"pwrite", "verify"} /\ touched[c] = FALSE =>
          \A i \in 1 .. rq[c].done :
             rq[c].off + i <= Len(file) /\ file[rq[c].off + i] = rq[c].data[i]
    /\ rq[c].reply.why = "stored" => touched[c] = TRUE

(* the file holds the caller's byte at p *)
Holds(c, p) == p < Len(file) /\ file[p + 1] = call[c].data[p - call[c].off + 1]

(* What is acknowledged is stored, and so is what is about to be. *)
AckInv(c) ==
    call[c].op = "write" =>
        \A p \in call[c].off .. call[c].off + total[c] - 1 + (IF Answered(c) THEN ChunkSize(c) ELSE 0) :
            Sampled(p) /\ Private(c, p) => Holds(c, p)

(* At most one call writes p. *)
Sole(p) ==
    \A d, e \in Client :
        /\ call[d].op = "write" /\ p \in call[d].off .. call[d].off + call[d].size - 1
        /\ call[e].op = "write" /\ p \in call[e].off .. call[e].off + call[e].size - 1
        => d = e

(* an acknowledged byte that the read of c must return *)
Due(c, a) ==
    /\ a \in acked[c] /\ Sampled(a[1]) /\ Sole(a[1])
    /\ a[1] \in call[c].off .. call[c].off + call[c].size - 1

(* A read returns the bytes that are due: those it has passed are in the    *)
(* buffer, those of the chunk it is at are in the answer.                   *)
ReadInv(c) ==
    call[c].op = "read" =>
        /\ \A a \in acked[c] : \E d \in Client : a \in AckedBytes(d)
        /\ cut = -1 => \A a \in acked[c] : Due(c, a) =>
              /\ a[1] < ChunkOffset(c) => buf[c][a[1] - call[c].off + 1] = a[2]
              /\ st[c] = "ok" => a[1] < ChunkOffset(c)
              /\ Answered(c) /\ a[1] >= rq[c].off =>
                    \/ /\ a[1] - rq[c].off < Len(rq[c].reply.data)
                       /\ rq[c].reply.data[a[1] - rq[c].off + 1] = a[2]
                    \/ /\ Len(rq[c].reply.data) = ChunkSize(c)
                       /\ a[1] >= rq[c].off + ChunkSize(c)

(* what is said of the state of c alone *)
LocalInv(c) == CallInv(c) /\ RequestInv(c) /\ AnswerInv(c)

ClientInv(c) == LocalInv(c) /\ StoredInv(c) /\ AckInv(c) /\ ReadInv(c)

Inv == TypeInv /\ \A c \in Client : ClientInv(c)

-----------------------------------------------------------------------------
(* What a step leaves alone *)

LEMMA CallFacts ==
    ASSUME TypeInv, NEW c \in Client
    PROVE  /\ call[c] \in Program[c] /\ call[c].op \in {"read", "write", "truncate"}
           /\ call[c].off \in Nat /\ call[c].data \in Seq(Byte) /\ call[c].size \in Nat
           /\ call[c].op = "write" => call[c].size = Len(call[c].data)
<1>1. call[c] \in Program[c] /\ call[c] \in Calls
  BY DEF TypeInv
<1> QED
  BY <1>1, ProgramAssumption DEF Calls

(* The chunk a call is at does not pass the call's end. *)
LEMMA ChunkFacts ==
    ASSUME TypeInv, NEW c \in Client, CallInv(c)
    PROVE  /\ total[c] \in Nat /\ ChunkOffset(c) \in Nat /\ ChunkSize(c) \in Nat
           /\ ChunkOffset(c) = call[c].off + total[c]
           /\ total[c] + ChunkSize(c) <= call[c].size
           /\ call[c].op = "write" => /\ Piece(c) \in Seq(Byte) /\ Len(Piece(c)) = ChunkSize(c)
                                      /\ \A i \in 1 .. ChunkSize(c) :
                                            Piece(c)[i] = call[c].data[total[c] + i]
<1>1. total[c] \in Nat /\ total[c] <= call[c].size /\ call[c].off \in Nat /\ call[c].size \in Nat
  BY CallFacts DEF TypeInv, CallInv
<1>2. ChunkOffset(c) = call[c].off + total[c] /\ ChunkOffset(c) \in Nat
  BY <1>1 DEF ChunkOffset
<1>3. ChunkSize(c) \in Nat /\ total[c] + ChunkSize(c) <= call[c].size
  BY <1>1, ChunkAssumption DEF ChunkSize
<1>4. ASSUME call[c].op = "write"
      PROVE  /\ Piece(c) \in Seq(Byte) /\ Len(Piece(c)) = ChunkSize(c)
             /\ \A i \in 1 .. ChunkSize(c) : Piece(c)[i] = call[c].data[total[c] + i]
  <2>1. call[c].data \in Seq(Byte) /\ total[c] + ChunkSize(c) <= Len(call[c].data)
    BY <1>3, <1>4, CallFacts
  <2> QED
    BY <1>1, <1>3, <2>1, PieceFacts DEF Piece
<1> QED
  BY <1>1, <1>2, <1>3, <1>4

LEMMA LocalKept ==
    ASSUME NEW d \in Client, LocalInv(d), call' = call, st'[d] = st[d],
           total'[d] = total[d], buf'[d] = buf[d], rq'[d] = rq[d], acked'[d] = acked[d]
    PROVE  LocalInv(d)'
<1>1. ChunkSize(d)' = ChunkSize(d) /\ ChunkOffset(d)' = ChunkOffset(d)
  BY DEF ChunkSize, ChunkOffset
<1>2. Piece(d)' = Piece(d)
  BY <1>1 DEF Piece
<1>3. CallInv(d)'
  BY DEF LocalInv, CallInv, Busy
<1>4. RequestInv(d)'
  <2>1. SparseMd5(rq[d].data, rq[d].off)' = SparseMd5(rq[d].data, rq[d].off)
    OBVIOUS
  <2>2. SparseMd5(Piece(d), ChunkOffset(d))' = SparseMd5(Piece(d), ChunkOffset(d))
    BY <1>1, <1>2
  <2>3. Live(d)' <=> Live(d)
    BY DEF Live, Busy
  <2> QED
    BY <1>1, <2>1, <2>2, <2>3 DEF LocalInv, RequestInv
<1>5. AnswerInv(d)'
  <2>1. Answered(d)' <=> Answered(d)
    BY DEF Answered
  <2>2. SparseMd5(rq[d].reply.data, rq[d].off)' = SparseMd5(rq[d].reply.data, rq[d].off)
    OBVIOUS
  <2> QED
    BY <1>1, <2>1, <2>2 DEF LocalInv, AnswerInv
<1> QED
  BY <1>3, <1>4, <1>5 DEF LocalInv

LEMMA StoredKept ==
    ASSUME NEW d \in Client, StoredInv(d), file' = file, rq'[d] = rq[d], touched'[d] = touched[d]
    PROVE  StoredInv(d)'
BY DEF StoredInv

LEMMA AckKept ==
    ASSUME NEW d \in Client, AckInv(d), file' = file, cut' = cut, call' = call,
           total'[d] = total[d], Answered(d)' <=> Answered(d)
    PROVE  AckInv(d)'
<1>1. ChunkSize(d)' = ChunkSize(d)
  BY DEF ChunkSize
<1>2. \A p : (Private(d, p)' <=> Private(d, p)) /\ (Holds(d, p)' <=> Holds(d, p))
  BY DEF Private, Holds
<1>3. (IF Answered(d) THEN ChunkSize(d) ELSE 0)' = IF Answered(d) THEN ChunkSize(d) ELSE 0
  BY <1>1
<1> QED
  BY <1>2, <1>3 DEF AckInv

(* Acknowledged bytes stay so. *)
LEMMA AckedGrow ==
    ASSUME TypeInv, call' = call, NEW e \in Client, total'[e] \in Nat, total'[e] >= total[e]
    PROVE  AckedBytes(e) \subseteq AckedBytes(e)'
<1>1. total[e] \in Nat
  BY DEF TypeInv
<1>2. 1 .. total[e] \subseteq 1 .. total'[e]
  BY <1>1
<1> QED
  BY <1>2 DEF AckedBytes

LEMMA ReadKept ==
    ASSUME TypeInv, TypeInv', NEW d \in Client, ReadInv(d), cut' = cut, call' = call,
           \A e \in Client : total'[e] >= total[e], st'[d] = st[d],
           total'[d] = total[d], buf'[d] = buf[d], rq'[d] = rq[d], acked'[d] = acked[d]
    PROVE  ReadInv(d)'
<1>1. ChunkSize(d)' = ChunkSize(d) /\ ChunkOffset(d)' = ChunkOffset(d)
  BY DEF ChunkSize, ChunkOffset
<1>2. Answered(d)' <=> Answered(d)
  BY DEF Answered
<1>3. \A a : Due(d, a)' <=> Due(d, a)
  BY DEF Due, Sole
<1>4. \A e \in Client : AckedBytes(e) \subseteq AckedBytes(e)'
  BY AckedGrow DEF TypeInv
<1> QED
  BY <1>1, <1>2, <1>3, <1>4 DEF ReadInv

(* A step of c that leaves the file alone. *)
LEMMA OneClientStep ==
    ASSUME Inv, NEW c \in Client, TypeInv', ClientInv(c)',
           file' = file, cut' = cut, call' = call, \A e \in Client : total'[e] >= total[e],
           \A d \in Client : d # c =>
              /\ st'[d] = st[d] /\ total'[d] = total[d] /\ buf'[d] = buf[d]
              /\ rq'[d] = rq[d] /\ touched'[d] = touched[d] /\ acked'[d] = acked[d]
    PROVE  Inv'
<1>1. ASSUME NEW d \in Client, d # c PROVE ClientInv(d)'
  <2>1. TypeInv /\ LocalInv(d) /\ StoredInv(d) /\ AckInv(d) /\ ReadInv(d)
    BY DEF Inv, ClientInv
  <2>2. /\ st'[d] = st[d] /\ total'[d] = total[d] /\ buf'[d] = buf[d]
        /\ rq'[d] = rq[d] /\ touched'[d] = touched[d] /\ acked'[d] = acked[d]
    BY <1>1
  <2>3. Answered(d)' <=> Answered(d)
    BY <2>2 DEF Answered
  <2>4. LocalInv(d)' /\ StoredInv(d)' /\ AckInv(d)' /\ ReadInv(d)'
    BY <2>1, <2>2, <2>3, LocalKept, StoredKept, AckKept, ReadKept
  <2> QED
    BY <2>4 DEF ClientInv
<1> QED
  BY <1>1 DEF Inv

-----------------------------------------------------------------------------
(* The client's steps *)

(* The invariant of c as its parts. *)
LEMMA InvParts ==
    ASSUME Inv, NEW c \in Client
    PROVE  /\ TypeInv /\ CallInv(c) /\ RequestInv(c) /\ AnswerInv(c)
           /\ StoredInv(c) /\ AckInv(c) /\ ReadInv(c)
BY DEF Inv, ClientInv, LocalInv

LEMMA StartStep ==
    ASSUME Inv, NEW c \in Client, Start(c)
    PROVE  Inv'
<1>1. /\ TypeInv /\ CallInv(c) /\ RequestInv(c) /\ AnswerInv(c)
      /\ StoredInv(c) /\ AckInv(c) /\ ReadInv(c)
  BY InvParts
<1> DEFINE Empty == call[c].size = 0 /\ call[c].op # "truncate"
           A == UNION {AckedBytes(d) : d \in Client}
<1>2. /\ st[c] = "idle" /\ st' = [st EXCEPT ![c] = IF Empty THEN "ok" ELSE "send"]
      /\ acked' = [acked EXCEPT ![c] = IF call[c].op = "read" THEN A ELSE {}]
      /\ UNCHANGED <<provider, file, call, total, buf, rq, cut, touched>>
  BY DEF Start
<1>3. total[c] = 0 /\ ~Busy(c)
  BY <1>1, <1>2 DEF CallInv
<1>4. A \subseteq Nat \X Byte
  <2> SUFFICES ASSUME NEW d \in Client, NEW a \in AckedBytes(d) PROVE a \in Nat \X Byte
    OBVIOUS
  <2>1. PICK i \in 1 .. total[d] : a = <<call[d].off + i - 1, call[d].data[i]>>
    BY DEF AckedBytes
  <2>2. call[d].op = "write"
    BY DEF AckedBytes
  <2>3. total[d] \in Nat /\ total[d] <= call[d].size
    BY <1>1, InvParts DEF TypeInv, CallInv
  <2>4. /\ call[d].off \in Nat /\ call[d].size = Len(call[d].data)
        /\ call[d].data \in Seq(Byte) /\ call[d].size \in Nat
    BY <1>1, <2>2, CallFacts
  <2>5. i \in 1 .. Len(call[d].data)
    BY <2>3, <2>4
  <2>6. call[d].data[i] \in Byte /\ call[d].off + i - 1 \in Nat
    BY <2>4, <2>5
  <2> QED
    BY <2>1, <2>6
<1> HIDE DEF Empty, A
<1>5. /\ st' \in [Client -> {"idle", "send", "wait", "ok", "err"}]
      /\ st'[c] = (IF Empty THEN "ok" ELSE "send")
      /\ acked' \in [Client -> SUBSET (Nat \X Byte)]
      /\ acked'[c] = (IF call[c].op = "read" THEN A ELSE {})
      /\ \A d \in Client : d # c => st'[d] = st[d] /\ acked'[d] = acked[d]
  BY <1>1, <1>2, <1>4 DEF TypeInv
<1>6. TypeInv'
  BY <1>1, <1>2, <1>5 DEF TypeInv
<1>7. ~Busy(c)' /\ ~Live(c)' /\ ~Answered(c)' /\ ~Answered(c)
  BY <1>2, <1>3, <1>5 DEF Busy, Live, Answered
<1>8. CallInv(c)'
  BY <1>1, <1>2, <1>5, <1>7 DEF CallInv
<1>9. RequestInv(c)'
  <2>1. SparseMd5(rq[c].data, rq[c].off)' = SparseMd5(rq[c].data, rq[c].off)
    BY <1>2
  <2> QED
    BY <1>1, <1>2, <1>7, <2>1 DEF RequestInv
<1>10. AnswerInv(c)'
  BY <1>7 DEF AnswerInv
<1>11. StoredInv(c)'
  BY <1>1, <1>2, StoredKept
<1>12. AckInv(c)'
  BY <1>1, <1>2, <1>7, AckKept
<1>13. ReadInv(c)'
  <2> SUFFICES ASSUME call[c].op = "read"
               PROVE  /\ \A a \in acked'[c] : \E d \in Client : a \in AckedBytes(d)'
                      /\ \A a \in acked'[c] : ~Due(c, a)' \/ (~(a[1] < ChunkOffset(c)') /\ st'[c] # "ok")
    BY <1>2, <1>7 DEF ReadInv
  <2>1. \A d \in Client : AckedBytes(d)' = AckedBytes(d)
    BY <1>2 DEF AckedBytes
  <2>2. \A a \in acked'[c] : \E d \in Client : a \in AckedBytes(d)'
    BY <1>5, <2>1 DEF A
  <2>3. call[c].off \in Nat /\ ChunkOffset(c)' = call[c].off
    BY <1>1, <1>2, <1>3, CallFacts DEF ChunkOffset
  <2>4. ASSUME NEW a \in acked'[c], Due(c, a)' PROVE ~(a[1] < ChunkOffset(c)') /\ st'[c] # "ok"
    <3>1. a[1] \in call[c].off .. call[c].off + call[c].size - 1
      BY <1>2, <2>4 DEF Due
    <3>2. call[c].size # 0
      BY <2>3, <3>1
    <3> QED
      BY <1>5, <2>3, <3>1, <3>2 DEF Empty
  <2> QED
    BY <2>2, <2>4
<1> QED
  <2>1. ClientInv(c)'
    BY <1>8, <1>9, <1>10, <1>11, <1>12, <1>13 DEF ClientInv, LocalInv
  <2>2. \A e \in Client : total'[e] >= total[e]
    BY <1>1, <1>2 DEF TypeInv
  <2> QED
    BY <1>2, <1>5, <1>6, <2>1, <2>2, OneClientStep

(* The request for a chunk. *)
Fresh(c) ==
    CASE call[c].op = "write" ->
           [NoReq EXCEPT !.pc = "sent", !.off = ChunkOffset(c), !.data = Piece(c),
                         !.size = ChunkSize(c), !.md5 = SparseMd5(Piece(c), ChunkOffset(c))]
      [] call[c].op = "read" ->
           [NoReq EXCEPT !.pc = "sent", !.off = ChunkOffset(c), !.size = ChunkSize(c)]
      [] call[c].op = "truncate" ->
           [NoReq EXCEPT !.pc = "sent", !.size = call[c].size]

LEMMA FreshFacts ==
    ASSUME TypeInv, NEW c \in Client, CallInv(c)
    PROVE  LET q == Fresh(c) IN
           /\ q \in Request /\ q.pc = "sent" /\ q.done = 0 /\ q.reply = NoReply
           /\ q.size = IF call[c].op = "truncate" THEN call[c].size ELSE ChunkSize(c)
           /\ call[c].op # "truncate" => q.off = ChunkOffset(c)
           /\ call[c].op = "write" => /\ Len(q.data) = ChunkSize(c)
                                      /\ q.md5 = SparseMd5(Piece(c), ChunkOffset(c))
<1>1. /\ ChunkOffset(c) \in Nat /\ ChunkSize(c) \in Nat
      /\ call[c].op = "write" => Piece(c) \in Seq(Byte) /\ Len(Piece(c)) = ChunkSize(c)
  BY ChunkFacts
<1>2. call[c].op \in {"read", "write", "truncate"} /\ call[c].size \in Nat
  BY CallFacts
<1>3. NoReply \in Reply /\ <<>> \in Digest /\ <<>> \in Seq(Byte) /\ Len(<<>>) = 0
  BY DEF NoReply, Reply, Digest
<1>4. CASE call[c].op = "write"
  <2> DEFINE m == SparseMd5(Piece(c), ChunkOffset(c))
  <2>1. m \in Digest
    BY <1>1, <1>4 DEF Digest
  <2> HIDE DEF m
  <2>2. Fresh(c) = [pc |-> "sent", off |-> ChunkOffset(c), data |-> Piece(c), size |-> ChunkSize(c),
                    md5 |-> m, done |-> 0, reply |-> NoReply]
    BY <1>4 DEF Fresh, NoReq, m
  <2> QED
    BY <1>1, <1>3, <1>4, <2>1, <2>2 DEF Request, m
<1>5. CASE call[c].op = "read"
  <2>1. Fresh(c) = [pc |-> "sent", off |-> ChunkOffset(c), data |-> <<>>, size |-> ChunkSize(c),
                    md5 |-> <<>>, done |-> 0, reply |-> NoReply]
    BY <1>5 DEF Fresh, NoReq
  <2> QED
    BY <1>1, <1>3, <1>5, <2>1 DEF Request
<1>6. CASE call[c].op = "truncate"
  <2>1. Fresh(c) = [pc |-> "sent", off |-> 0, data |-> <<>>, size |-> call[c].size,
                    md5 |-> <<>>, done |-> 0, reply |-> NoReply]
    BY <1>6 DEF Fresh, NoReq
  <2> QED
    BY <1>2, <1>3, <1>6, <2>1 DEF Request
<1> QED
  BY <1>2, <1>4, <1>5, <1>6

LEMMA SendStep ==
    ASSUME Inv, NEW c \in Client, SendRequest(c)
    PROVE  Inv'
<1>1. /\ TypeInv /\ CallInv(c) /\ RequestInv(c) /\ AnswerInv(c)
      /\ StoredInv(c) /\ AckInv(c) /\ ReadInv(c)
  BY InvParts
<1> DEFINE q == Fresh(c)
<1>2. /\ st[c] = "send" /\ st' = [st EXCEPT ![c] = "wait"] /\ rq' = [rq EXCEPT ![c] = q]
      /\ touched' = [touched EXCEPT ![c] = FALSE]
      /\ UNCHANGED <<provider, file, call, total, buf, cut, acked>>
  BY DEF SendRequest, Fresh, Piece
<1>3. /\ q \in Request /\ q.pc = "sent" /\ q.done = 0 /\ q.reply = NoReply
      /\ q.size = IF call[c].op = "truncate" THEN call[c].size ELSE ChunkSize(c)
      /\ call[c].op # "truncate" => q.off = ChunkOffset(c)
      /\ call[c].op = "write" => /\ Len(q.data) = ChunkSize(c)
                                 /\ q.md5 = SparseMd5(Piece(c), ChunkOffset(c))
  BY <1>1, FreshFacts
<1> HIDE DEF q
<1>4. /\ st' \in [Client -> {"idle", "send", "wait", "ok", "err"}] /\ st'[c] = "wait"
      /\ rq' \in [Client -> Request] /\ rq'[c] = q
      /\ touched' \in [Client -> BOOLEAN]
      /\ \A d \in Client : d # c => st'[d] = st[d] /\ rq'[d] = rq[d] /\ touched'[d] = touched[d]
  BY <1>1, <1>2, <1>3 DEF TypeInv
<1>5. TypeInv'
  BY <1>1, <1>2, <1>4 DEF TypeInv
<1>6. ~Answered(c)' /\ ~Answered(c)
  BY <1>2, <1>3, <1>4 DEF Answered
<1>7. ChunkSize(c)' = ChunkSize(c) /\ ChunkOffset(c)' = ChunkOffset(c)
  BY <1>2 DEF ChunkSize, ChunkOffset
<1>8. CallInv(c)'
  BY <1>1, <1>2, <1>3, <1>4 DEF CallInv, Busy
<1>9. RequestInv(c)'
  <2>1. Piece(c)' = Piece(c)
    BY <1>2, <1>7 DEF Piece
  <2>2. SparseMd5(Piece(c), ChunkOffset(c))' = SparseMd5(Piece(c), ChunkOffset(c))
    BY <1>7, <2>1
  <2>3. Len(q.data) \in Nat
    BY <1>3 DEF Request
  <2> QED
    BY <1>2, <1>3, <1>4, <1>7, <2>2, <2>3 DEF RequestInv
<1>10. AnswerInv(c)'
  BY <1>6 DEF AnswerInv
<1>11. StoredInv(c)'
  BY <1>3, <1>4 DEF StoredInv, NoReply
<1>12. AckInv(c)'
  BY <1>1, <1>2, <1>6, AckKept
<1>13. ReadInv(c)'
  <2>1. \A d \in Client : AckedBytes(d)' = AckedBytes(d)
    BY <1>2 DEF AckedBytes
  <2>2. \A a : Due(c, a)' <=> Due(c, a)
    BY <1>2 DEF Due, Sole
  <2> QED
    BY <1>1, <1>2, <1>4, <1>6, <1>7, <2>1, <2>2 DEF ReadInv
<1> QED
  <2>1. ClientInv(c)'
    BY <1>8, <1>9, <1>10, <1>11, <1>12, <1>13 DEF ClientInv, LocalInv
  <2>2. \A e \in Client : total'[e] >= total[e]
    BY <1>1, <1>2 DEF TypeInv
  <2> QED
    BY <1>2, <1>4, <1>5, <2>1, <2>2, OneClientStep

(* A call returns without a further chunk. *)
LEMMA ReturnStep ==
    ASSUME Inv, NEW c \in Client, NEW how \in {"ok", "err"}, st[c] \in {"send", "wait"},
           Return(c, how), how = "ok" => call[c].op # "read" /\ ~Busy(c),
           UNCHANGED <<provider, file, call, total, buf, rq, cut, touched, acked>>
    PROVE  Inv'
<1>1. /\ TypeInv /\ CallInv(c) /\ RequestInv(c) /\ AnswerInv(c)
      /\ StoredInv(c) /\ AckInv(c) /\ ReadInv(c)
  BY InvParts
<1>2. /\ st' \in [Client -> {"idle", "send", "wait", "ok", "err"}] /\ st'[c] = how
      /\ \A d \in Client : d # c => st'[d] = st[d]
  BY <1>1 DEF TypeInv, Return
<1>3. TypeInv'
  BY <1>1, <1>2 DEF TypeInv
<1>4. ~Answered(c)' /\ (Busy(c)' <=> Busy(c)) /\ (Live(c)' => Live(c))
  BY <1>2 DEF Answered, Busy, Live
<1>5. ChunkSize(c)' = ChunkSize(c) /\ ChunkOffset(c)' = ChunkOffset(c)
  BY DEF ChunkSize, ChunkOffset
<1>6. CallInv(c)'
  BY <1>1, <1>2, <1>4 DEF CallInv
<1>7. RequestInv(c)'
  <2>1. SparseMd5(rq[c].data, rq[c].off)' = SparseMd5(rq[c].data, rq[c].off)
    OBVIOUS
  <2>2. Piece(c)' = Piece(c)
    BY <1>5 DEF Piece
  <2>3. SparseMd5(Piece(c), ChunkOffset(c))' = SparseMd5(Piece(c), ChunkOffset(c))
    BY <1>5, <2>2
  <2> QED
    BY <1>1, <1>4, <1>5, <2>1, <2>3 DEF RequestInv
<1>8. AnswerInv(c)'
  BY <1>4 DEF AnswerInv
<1>9. StoredInv(c)'
  BY <1>1, StoredKept
<1>10. AckInv(c)'
  <2> SUFFICES ASSUME call[c].op = "write",
                      NEW p \in call[c].off .. call[c].off + total[c] - 1 + 0,
                      Sampled(p), Private(c, p)'
               PROVE  Holds(c, p)'
    BY <1>4 DEF AckInv
  <2>1. p \in call[c].off .. call[c].off + total[c] - 1 + (IF Answered(c) THEN ChunkSize(c) ELSE 0)
    <3>1. ChunkSize(c) \in Nat /\ total[c] \in Nat /\ call[c].off \in Nat
      BY <1>1, ChunkFacts, CallFacts
    <3> QED
      BY <3>1
  <2>2. Private(c, p)
    BY DEF Private
  <2>3. Holds(c, p)
    BY <1>1, <2>1, <2>2 DEF AckInv
  <2> QED
    BY <2>3 DEF Holds
<1>11. ReadInv(c)'
  <2>1. \A d \in Client : AckedBytes(d)' = AckedBytes(d)
    BY DEF AckedBytes
  <2>2. \A a : Due(c, a)' <=> Due(c, a)
    BY DEF Due, Sole
  <2> QED
    BY <1>1, <1>2, <1>4, <1>5, <2>1, <2>2 DEF ReadInv
<1> QED
  <2>1. ClientInv(c)'
    BY <1>6, <1>7, <1>8, <1>9, <1>10, <1>11 DEF ClientInv, LocalInv
  <2>2. \A e \in Client : total'[e] >= total[e]
    BY <1>1 DEF TypeInv
  <2> QED
    BY <1>2, <1>3, <2>1, <2>2, OneClientStep

LEMMA ReplyWriteStep ==
    ASSUME Inv, NEW c \in Client, ReplyWrite(c)
    PROVE  Inv'
<1>1. /\ TypeInv /\ CallInv(c) /\ RequestInv(c) /\ AnswerInv(c)
      /\ StoredInv(c) /\ AckInv(c) /\ ReadInv(c)
  BY InvParts
<1>2. /\ st[c] = "wait" /\ rq[c].pc = "reply" /\ rq[c].reply.ok /\ call[c].op = "write"
      /\ UNCHANGED <<provider, file, call, buf, rq, cut, touched, acked>>
  BY DEF ReplyWrite
<1>3. ~Busy(c)
  BY <1>2 DEF Busy
<1> DEFINE good == rq[c].reply.n = ChunkSize(c) /\ rq[c].reply.md5 = rq[c].md5
           n == ChunkSize(c)
           how == IF total[c] + n < call[c].size THEN "send" ELSE "ok"
<1>4. CASE ~good
  <2>1. total' = total /\ Return(c, "err")
    BY <1>4 DEF ReplyWrite
  <2> QED
    BY <1>2, <2>1, ReturnStep
<1>5. CASE good
  <2>1. total' = [total EXCEPT ![c] = total[c] + n] /\ st' = [st EXCEPT ![c] = how]
    BY <1>1, <1>5 DEF ReplyWrite, Return, TypeInv
  <2>2. Answered(c)
    <3>1. rq[c].reply.ok \in BOOLEAN
      BY <1>1 DEF TypeInv, Request, Reply
    <3> QED
      BY <1>2, <3>1 DEF Answered
  <2>3. total[c] \in Nat /\ n \in Nat /\ total[c] + n <= call[c].size /\ call[c].off \in Nat
    BY <1>1, ChunkFacts, CallFacts
  <2> HIDE DEF n
  <2>4. /\ total' \in [Client -> Nat] /\ total'[c] = total[c] + n
        /\ st' \in [Client -> {"idle", "send", "wait", "ok", "err"}] /\ st'[c] \in {"send", "ok"}
        /\ \A d \in Client : d # c => st'[d] = st[d] /\ total'[d] = total[d]
    BY <1>1, <2>1, <2>3 DEF TypeInv
  <2>5. TypeInv'
    BY <1>1, <1>2, <2>4 DEF TypeInv
  <2>6. ~Answered(c)' /\ ~Busy(c)' /\ ~Live(c)'
    BY <1>2, <1>3, <2>4 DEF Answered, Busy, Live
  <2>7. CallInv(c)'
    BY <1>1, <1>2, <2>3, <2>4, <2>6 DEF CallInv
  <2>8. RequestInv(c)'
    BY <1>1, <1>2, <2>6 DEF RequestInv
  <2>9. AnswerInv(c)'
    BY <2>6 DEF AnswerInv
  <2>10. StoredInv(c)'
    BY <1>1, <1>2, StoredKept
  <2>11. AckInv(c)'
    <3> SUFFICES ASSUME NEW p \in call[c].off .. call[c].off + total'[c] - 1 + 0,
                        Sampled(p), Private(c, p)'
                 PROVE  Holds(c, p)'
      BY <1>2, <2>6 DEF AckInv
    <3>1. p \in call[c].off .. call[c].off + total[c] - 1 + (IF Answered(c) THEN ChunkSize(c) ELSE 0)
      BY <2>2, <2>3, <2>4 DEF n
    <3>2. Private(c, p)
      BY <1>2 DEF Private
    <3>3. Holds(c, p)
      BY <1>1, <1>2, <3>1, <3>2 DEF AckInv
    <3> QED
      BY <1>2, <3>3 DEF Holds
  <2>12. ReadInv(c)'
    BY <1>2 DEF ReadInv
  <2>13. ClientInv(c)'
    BY <2>7, <2>8, <2>9, <2>10, <2>11, <2>12 DEF ClientInv, LocalInv
  <2>14. \A e \in Client : total'[e] >= total[e]
    <3>1. \A e \in Client : total[e] \in Nat
      BY <1>1 DEF TypeInv
    <3> QED
      BY <2>3, <2>4, <3>1
  <2> QED
    BY <1>2, <2>4, <2>5, <2>13, <2>14, OneClientStep
<1> QED
  BY <1>4, <1>5

LEMMA JoinFacts ==
    ASSUME NEW x \in Seq(Byte), NEW y \in Seq(Byte), NEW m, Len(x) = m
    PROVE  /\ x \o y \in Seq(Byte) /\ Len(x \o y) = m + Len(y)
           /\ \A i \in 1 .. m + Len(y) : (x \o y)[i] = IF i <= m THEN x[i] ELSE y[i - m]
BY ConcatProperties

(* A body with the right MD5 is delivered: what is due of it is in the      *)
(* buffer, and after a short one nothing more is due.                       *)
LEMMA ReplyReadStep ==
    ASSUME Inv, NEW c \in Client, ReplyRead(c)
    PROVE  Inv'
<1>1. /\ TypeInv /\ CallInv(c) /\ RequestInv(c) /\ AnswerInv(c)
      /\ StoredInv(c) /\ AckInv(c) /\ ReadInv(c)
  BY InvParts
<1>2. /\ st[c] = "wait" /\ rq[c].pc = "reply" /\ rq[c].reply.ok /\ call[c].op = "read"
      /\ UNCHANGED <<provider, file, call, rq, cut, touched, acked>>
  BY DEF ReplyRead
<1>3. ~Busy(c)
  BY <1>2 DEF Busy
<1> DEFINE r == rq[c].reply
           n == ChunkSize(c)
<1>4. PICK body \in Delivered(r.data) :
         IF Len(body) <= n /\ SparseMd5(body, rq[c].off) = r.md5
           THEN /\ buf' = [buf EXCEPT ![c] = @ \o body]
                /\ total' = [total EXCEPT ![c] = @ + Len(body)]
                /\ Return(c, IF Len(body) < n \/ total[c] + Len(body) = call[c].size
                             THEN "ok" ELSE "send")
           ELSE UNCHANGED <<buf, total>> /\ Return(c, "err")
  BY DEF ReplyRead
<1>5. rq[c] \in Request /\ r \in Reply /\ r.data \in Seq(Byte) /\ rq[c].off \in Nat /\ r.ok = TRUE
  BY <1>1, <1>2 DEF TypeInv, Request, Reply
<1>6. Answered(c)
  BY <1>2, <1>5 DEF Answered
<1>7. body \in Seq(Byte) /\ Len(body) = Len(r.data) /\ Len(body) \in Nat
  BY <1>5, DeliveredFacts
<1>8. total[c] \in Nat /\ n \in Nat /\ total[c] + n <= call[c].size /\ call[c].off \in Nat
  BY <1>1, ChunkFacts, CallFacts
<1>9. rq[c].off = call[c].off + total[c]
  BY <1>1, <1>2 DEF RequestInv, Live, ChunkOffset
<1> DEFINE good == Len(body) <= n /\ SparseMd5(body, rq[c].off) = r.md5
           how == IF Len(body) < n \/ total[c] + Len(body) = call[c].size THEN "ok" ELSE "send"
<1>10. CASE ~good
  <2>1. UNCHANGED <<buf, total>> /\ Return(c, "err")
    BY <1>4, <1>10
  <2> QED
    BY <1>2, <2>1, ReturnStep
<1>11. CASE good
  <2>1. /\ buf' = [buf EXCEPT ![c] = buf[c] \o body]
        /\ total' = [total EXCEPT ![c] = total[c] + Len(body)]
        /\ st' = [st EXCEPT ![c] = how]
    BY <1>4, <1>11 DEF Return
  <2>2. /\ buf[c] \in Seq(Byte) /\ Len(buf[c]) = total[c]
    BY <1>1, <1>2 DEF TypeInv, CallInv
  <2>3. /\ buf[c] \o body \in Seq(Byte) /\ Len(buf[c] \o body) = total[c] + Len(body)
        /\ \A i \in 1 .. total[c] + Len(body) :
              (buf[c] \o body)[i] = IF i <= total[c] THEN buf[c][i] ELSE body[i - total[c]]
    <3>1. body \in Seq(Byte)
      BY <1>7
    <3> QED
      BY <2>2, <3>1, JoinFacts
  <2> HIDE DEF n, r
  <2>4. /\ total' \in [Client -> Nat] /\ total'[c] = total[c] + Len(body)
        /\ buf' \in [Client -> Seq(Byte)] /\ buf'[c] = buf[c] \o body
        /\ st' \in [Client -> {"idle", "send", "wait", "ok", "err"}] /\ st'[c] = how
        /\ \A d \in Client : d # c => /\ st'[d] = st[d] /\ total'[d] = total[d]
                                      /\ buf'[d] = buf[d]
    <3>1. /\ total \in [Client -> Nat] /\ buf \in [Client -> Seq(Byte)]
          /\ st \in [Client -> {"idle", "send", "wait", "ok", "err"}]
      BY <1>1 DEF TypeInv
    <3>2. total[c] + Len(body) \in Nat
      BY <1>7, <1>8
    <3>3. /\ total' \in [Client -> Nat] /\ total'[c] = total[c] + Len(body)
          /\ \A d \in Client : d # c => total'[d] = total[d]
      BY <2>1, <3>1, <3>2
    <3>4. /\ buf' \in [Client -> Seq(Byte)] /\ buf'[c] = buf[c] \o body
          /\ \A d \in Client : d # c => buf'[d] = buf[d]
      BY <2>1, <2>3, <3>1
    <3>5. /\ st' \in [Client -> {"idle", "send", "wait", "ok", "err"}] /\ st'[c] = how
          /\ \A d \in Client : d # c => st'[d] = st[d]
      BY <2>1, <3>1
    <3> QED
      BY <3>3, <3>4, <3>5
  <2>5. TypeInv'
    BY <1>1, <1>2, <2>4 DEF TypeInv
  <2>t. \A e \in Client : total'[e] >= total[e]
    <3>1. \A e \in Client : total[e] \in Nat
      BY <1>1 DEF TypeInv
    <3>2. Len(body) \in Nat
      BY <1>7
    <3> QED
      BY <2>4, <3>1, <3>2
  <2>6. ~Answered(c)' /\ ~Busy(c)' /\ ~Live(c)'
    BY <1>2, <1>3, <2>4 DEF Answered, Busy, Live
  <2>7. CallInv(c)'
    <3>1. total'[c] <= call[c].size
      <4>1. Len(body) \in Nat /\ Len(body) <= n /\ call[c].size \in Nat
        BY <1>1, <1>7, <1>11, CallFacts
      <4> HIDE DEF good
      <4> QED
        BY <1>8, <2>4, <4>1
    <3>2. Len(buf'[c]) = total'[c]
      BY <2>3, <2>4
    <3> QED
      BY <1>2, <2>4, <2>6, <3>1, <3>2 DEF CallInv
  <2>8. RequestInv(c)'
    BY <1>1, <1>2, <2>6 DEF RequestInv
  <2>9. AnswerInv(c)'
    BY <2>6 DEF AnswerInv
  <2>10. StoredInv(c)'
    BY <1>1, <1>2, StoredKept
  <2>11. AckInv(c)'
    BY <1>2 DEF AckInv
  <2>12. \A i \in 1 .. Len(body) : Sampled(rq[c].off + i - 1) => body[i] = r.data[i]
    <3>1. SparseMd5(body, rq[c].off) = SparseMd5(r.data, rq[c].off)
      BY <1>1, <1>2, <1>6, <1>11 DEF AnswerInv, r
    <3>2. /\ body \in Seq(Byte) /\ r.data \in Seq(Byte) /\ rq[c].off \in Nat
          /\ Len(body) = Len(r.data) /\ Len(body) <= Len(r.data)
      BY <1>5, <1>7 DEF r
    <3> QED
      BY <3>1, <3>2, SameMd5
  <2>13. ReadInv(c)'
    <3>1. \A d \in Client : AckedBytes(d) \subseteq AckedBytes(d)'
      <4>1. \A e \in Client : total'[e] \in Nat /\ total'[e] >= total[e]
        BY <2>4, <2>t
      <4> QED
        BY <1>1, <1>2, <4>1, AckedGrow
    <3>2. ASSUME NEW a \in acked[c], cut = -1, Due(c, a)'
          PROVE  /\ a[1] < ChunkOffset(c)' => buf'[c][a[1] - call[c].off + 1] = a[2]
                 /\ st'[c] = "ok" => a[1] < ChunkOffset(c)'
      <4>1. Due(c, a) /\ Sampled(a[1]) /\ a[1] \in call[c].off .. call[c].off + call[c].size - 1
        BY <1>2, <3>2 DEF Due, Sole
      <4>2. /\ a[1] < call[c].off + total[c] => buf[c][a[1] - call[c].off + 1] = a[2]
            /\ a[1] >= rq[c].off =>
                  \/ /\ a[1] - rq[c].off < Len(r.data)
                     /\ r.data[a[1] - rq[c].off + 1] = a[2]
                  \/ Len(r.data) = n /\ a[1] >= rq[c].off + n
        BY <1>1, <1>2, <1>6, <3>2, <4>1 DEF ReadInv, ChunkOffset, n, r
      <4>3. ChunkOffset(c)' = call[c].off + total[c] + Len(body) /\ call[c].size \in Nat
        <5>1. ChunkOffset(c)' = call[c].off + total'[c]
          BY <1>2 DEF ChunkOffset
        <5>2. total'[c] = total[c] + Len(body) /\ Len(body) \in Nat
          BY <1>7, <2>4
        <5>3. call[c].size \in Nat
          BY <1>1, CallFacts
        <5> QED
          BY <1>8, <5>1, <5>2, <5>3
      <4>p. a[1] \in Nat /\ a[1] >= call[c].off
        BY <1>8, <4>1, <4>3
      <4>4. ASSUME a[1] < ChunkOffset(c)' PROVE buf'[c][a[1] - call[c].off + 1] = a[2]
        <5> DEFINE i == a[1] - call[c].off + 1
        <5>0. a[1] < call[c].off + total[c] + Len(body) /\ Len(body) \in Nat
          BY <1>7, <4>3, <4>4
        <5>1. i \in 1 .. total[c] + Len(body)
          BY <1>8, <4>p, <5>0
        <5>2. CASE i <= total[c]
          <6>1. a[1] < call[c].off + total[c]
            BY <1>8, <4>1, <5>2
          <6>2. (buf[c] \o body)[i] = buf[c][i]
            BY <2>3, <5>1, <5>2
          <6> QED
            BY <2>4, <4>2, <6>1, <6>2
        <5>3. CASE ~(i <= total[c])
          <6>1. /\ a[1] >= rq[c].off /\ ~(a[1] >= rq[c].off + n)
                /\ i - total[c] = a[1] - rq[c].off + 1
                /\ i - total[c] \in 1 .. Len(body) /\ rq[c].off + (i - total[c]) - 1 = a[1]
            <7> DEFINE p == a[1]
                       s == call[c].off
                       t == total[c]
                       l == Len(body)
            <7>1. p \in Nat /\ s \in Nat /\ t \in Nat /\ l \in Nat /\ n \in Nat /\ l <= n
              BY <1>8, <1>11, <4>p, <5>0
            <7>2. rq[c].off = s + t /\ p < s + t + l /\ i = p - s + 1 /\ ~(i <= t)
              BY <1>9, <5>0, <5>3
            <7> HIDE DEF p, s, t, l, i
            <7>3. p >= s + t /\ ~(p >= s + t + n) /\ i - t = p - (s + t) + 1
              BY <7>1, <7>2
            <7>4. i - t \in 1 .. l /\ s + t + (i - t) - 1 = p
              BY <7>1, <7>2
            <7> QED
              BY <7>2, <7>3, <7>4 DEF p, s, t, l
          <6>2. r.data[i - total[c]] = a[2]
            BY <4>2, <6>1
          <6>3. body[i - total[c]] = r.data[i - total[c]]
            BY <2>12, <4>1, <6>1
          <6>4. (buf[c] \o body)[i] = body[i - total[c]]
            BY <2>3, <5>1, <5>3
          <6> QED
            BY <2>4, <6>2, <6>3, <6>4
        <5> QED
          BY <5>2, <5>3
      <4>5. ASSUME st'[c] = "ok", ~(a[1] < ChunkOffset(c)') PROVE FALSE
        <5>1. Len(body) < n \/ total[c] + Len(body) = call[c].size
          BY <2>4, <4>5
        <5>0. Len(body) = Len(r.data) /\ Len(body) \in Nat
          BY <1>7 DEF r
        <5>2. a[1] >= rq[c].off /\ ~(a[1] - rq[c].off < Len(r.data))
          <6>1. ~(a[1] < call[c].off + total[c] + Len(body))
            BY <4>3, <4>5
          <6> QED
            BY <1>8, <1>9, <4>p, <5>0, <6>1
        <5>3. Len(r.data) = n
          BY <4>2, <5>2
        <5>4. total[c] + Len(body) = call[c].size
          BY <5>0, <5>1, <5>3, <1>8
        <5> QED
          <6> DEFINE p == a[1]
                     s == call[c].off
                     z == call[c].size
          <6>1. p \in Nat /\ s \in Nat /\ z \in Nat /\ p <= s + z - 1
            BY <1>8, <4>1, <4>3, <4>p
          <6>2. ChunkOffset(c)' = s + z
            BY <1>8, <4>3, <5>0, <5>4
          <6> HIDE DEF p, s, z
          <6> QED
            BY <4>5, <6>1, <6>2 DEF p
      <4> QED
        BY <4>4, <4>5
    <3> QED
      BY <1>1, <1>2, <2>6, <3>1, <3>2 DEF ReadInv
  <2>14. ClientInv(c)'
    BY <2>7, <2>8, <2>9, <2>10, <2>11, <2>13 DEF ClientInv, LocalInv
  <2> QED
    BY <1>2, <2>4, <2>5, <2>14, <2>t, OneClientStep
<1> QED
  BY <1>10, <1>11

-----------------------------------------------------------------------------
(* The server's steps *)

(* What is said of acknowledged and delivered bytes, when c has no positive *)
(* answer before or after a step that changes only its request.             *)
LEMMA Unanswered ==
    ASSUME Inv, NEW c \in Client, ~Answered(c), ~Answered(c)',
           UNCHANGED <<file, call, st, total, buf, cut, acked>>
    PROVE  AnswerInv(c)' /\ AckInv(c)' /\ ReadInv(c)'
<1>1. AckInv(c) /\ ReadInv(c)
  BY InvParts
<1>2. AnswerInv(c)'
  BY DEF AnswerInv
<1>3. AckInv(c)'
  BY <1>1, AckKept
<1>4. ReadInv(c)'
  <2>1. \A d \in Client : AckedBytes(d)' = AckedBytes(d)
    BY DEF AckedBytes
  <2>2. \A a : Due(c, a)' <=> Due(c, a)
    BY DEF Due, Sole
  <2>3. ChunkOffset(c)' = ChunkOffset(c)
    BY DEF ChunkOffset
  <2> QED
    BY <1>1, <2>1, <2>2, <2>3 DEF ReadInv
<1> QED
  BY <1>2, <1>3, <1>4

(* A step that changes only the request of c, which keeps its chunk. *)
LEMMA RequestStep ==
    ASSUME Inv, NEW c \in Client, NEW q \in Request, rq' = [rq EXCEPT ![c] = q],
           UNCHANGED <<provider, file, call, st, total, buf, cut, touched, acked>>,
           Busy(c), q.pc # "none", q.off = rq[c].off, q.size = rq[c].size, q.md5 = rq[c].md5,
           Len(q.data) = Len(rq[c].data), q.done = rq[c].done, q.pc # "verify",
           q.pc \in {"sent", "pwrite"} => q.done = 0,
           q.pc = "pwrite" => call[c].op = "write" /\ SparseMd5(q.data, q.off) = q.md5,
           q.reply.why = "stored" => touched[c] = TRUE,
           AnswerInv(c)', AckInv(c)', ReadInv(c)'
    PROVE  Inv'
<1>1. TypeInv /\ CallInv(c) /\ RequestInv(c) /\ StoredInv(c)
  BY InvParts
<1>2. /\ rq' \in [Client -> Request] /\ rq'[c] = q
      /\ \A d \in Client : d # c => rq'[d] = rq[d]
  BY <1>1 DEF TypeInv
<1>3. TypeInv'
  BY <1>1, <1>2 DEF TypeInv
<1>4. CallInv(c)'
  BY <1>1, <1>2 DEF CallInv, Busy
<1>5. RequestInv(c)'
  <2>1. ChunkSize(c)' = ChunkSize(c) /\ ChunkOffset(c)' = ChunkOffset(c)
    BY DEF ChunkSize, ChunkOffset
  <2>2. Piece(c)' = Piece(c)
    BY <2>1 DEF Piece
  <2>3. SparseMd5(Piece(c), ChunkOffset(c))' = SparseMd5(Piece(c), ChunkOffset(c))
    BY <2>1, <2>2
  <2>4. SparseMd5(rq[c].data, rq[c].off)' = SparseMd5(q.data, q.off)
    BY <1>2
  <2>5. Live(c)
    BY DEF Live
  <2> QED
    BY <1>1, <1>2, <2>1, <2>3, <2>4, <2>5 DEF RequestInv
<1>6. StoredInv(c)'
  BY <1>2 DEF StoredInv
<1>7. ClientInv(c)'
  BY <1>4, <1>5, <1>6 DEF ClientInv, LocalInv
<1>8. \A e \in Client : total'[e] >= total[e]
  BY <1>1 DEF TypeInv
<1> QED
  BY <1>2, <1>3, <1>7, <1>8, OneClientStep

(* The answer of a handler. *)
LEMMA RespondStep ==
    ASSUME Inv, NEW c \in Client, NEW r \in Reply, Respond(c, r), Busy(c),
           UNCHANGED <<provider, file, call, st, total, buf, cut, touched, acked>>,
           r.why = "stored" => touched[c] = TRUE,
           r.ok = TRUE => AnswerInv(c)' /\ AckInv(c)' /\ ReadInv(c)'
    PROVE  Inv'
<1>1. TypeInv
  BY DEF Inv
<1>2. rq[c] \in Request
  BY <1>1 DEF TypeInv
<1> DEFINE q == [rq[c] EXCEPT !.pc = "reply", !.reply = r]
<1>3. rq' = [rq EXCEPT ![c] = q]
  BY DEF Respond
<1>4. /\ q \in Request /\ q.pc = "reply" /\ q.reply = r /\ q.off = rq[c].off
      /\ q.size = rq[c].size /\ q.md5 = rq[c].md5 /\ q.data = rq[c].data /\ q.done = rq[c].done
  BY <1>2 DEF Request
<1> HIDE DEF q
<1>5. rq'[c] = q
  BY <1>1, <1>3 DEF TypeInv
<1>6. r.ok # TRUE => AnswerInv(c)' /\ AckInv(c)' /\ ReadInv(c)'
  <2>1. ~Answered(c)
    BY DEF Answered, Busy
  <2>2. r.ok # TRUE => ~Answered(c)'
    BY <1>4, <1>5 DEF Answered
  <2> QED
    BY <2>1, <2>2, Unanswered
<1> QED
  BY <1>3, <1>4, <1>6, RequestStep

LEMMA ErrorReplyType ==
    ASSUME NEW w \in {"none", "md5", "errno", "stored"}
    PROVE  /\ ErrorReply(w) \in Reply /\ ErrorReply(w).ok = FALSE /\ ErrorReply(w).why = w
<1>1. NoReply \in Reply /\ NoReply.ok = FALSE
  BY DEF NoReply, Reply, Digest
<1>2. ErrorReply(w) = [NoReply EXCEPT !.why = w]
  BY DEF ErrorReply
<1> QED
  BY <1>1, <1>2 DEF Reply

(* The request is lost, or its handler fails. *)
LEMMA FailSteps ==
    ASSUME Inv, NEW c \in Client, Lose(c) \/ HandlerFails(c)
    PROVE  Inv'
<1>1. TypeInv /\ RequestInv(c) /\ StoredInv(c)
  BY InvParts
<1>2. Busy(c)
  BY DEF Lose, HandlerFails, Busy
<1>3. CASE HandlerFails(c)
  BY <1>2, <1>3, ErrorReplyType, RespondStep DEF HandlerFails
<1>4. CASE Lose(c)
  <2> DEFINE q == [rq[c] EXCEPT !.pc = "lost"]
  <2>1. /\ rq[c].pc = "sent" /\ rq' = [rq EXCEPT ![c] = q]
        /\ UNCHANGED <<provider, file, call, st, total, buf, cut, touched, acked>>
    BY <1>4 DEF Lose
  <2>2. rq[c] \in Request
    BY <1>1 DEF TypeInv
  <2>3. /\ q \in Request /\ q.pc = "lost" /\ q.reply = rq[c].reply /\ q.off = rq[c].off
        /\ q.size = rq[c].size /\ q.md5 = rq[c].md5 /\ q.data = rq[c].data /\ q.done = rq[c].done
    BY <2>2 DEF Request
  <2> HIDE DEF q
  <2>4. ~Answered(c) /\ ~Answered(c)'
    BY <1>1, <2>1, <2>3 DEF Answered, TypeInv
  <2>5. q.reply.why = "stored" => touched[c] = TRUE
    BY <1>1, <2>3 DEF StoredInv
  <2> QED
    BY <1>2, <2>1, <2>3, <2>4, <2>5, Unanswered, RequestStep
<1> QED
  BY <1>3, <1>4

(* A body goes on to pwrite only if it agrees with its MD5 header. *)
LEMMA ArriveStep ==
    ASSUME Inv, NEW c \in Client, ArriveWrite(c)
    PROVE  Inv'
<1>1. TypeInv /\ RequestInv(c) /\ StoredInv(c)
  BY InvParts
<1>2. /\ rq[c].pc = "sent" /\ call[c].op = "write"
      /\ UNCHANGED <<provider, file, call, st, total, buf, cut, touched, acked>>
  BY DEF ArriveWrite
<1>3. PICK body \in Delivered(rq[c].data) :
         IF SparseMd5(body, rq[c].off) = rq[c].md5
           THEN rq' = [rq EXCEPT ![c].data = body, ![c].pc = "pwrite"]
           ELSE Respond(c, ErrorReply("md5"))
  BY DEF ArriveWrite
<1>4. Busy(c) /\ rq[c] \in Request /\ rq[c].data \in Seq(Byte)
  BY <1>1, <1>2 DEF Busy, TypeInv, Request
<1>5. body \in Seq(Byte) /\ Len(body) = Len(rq[c].data)
  BY <1>4, DeliveredFacts
<1>6. CASE SparseMd5(body, rq[c].off) # rq[c].md5
  BY <1>2, <1>3, <1>4, <1>6, ErrorReplyType, RespondStep
<1>7. CASE SparseMd5(body, rq[c].off) = rq[c].md5
  <2> DEFINE q == [rq[c] EXCEPT !.data = body, !.pc = "pwrite"]
  <2>1. rq' = [rq EXCEPT ![c] = q]
    BY <1>3, <1>7
  <2>2. /\ q \in Request /\ q.pc = "pwrite" /\ q.reply = rq[c].reply /\ q.off = rq[c].off
        /\ q.size = rq[c].size /\ q.md5 = rq[c].md5 /\ q.data = body /\ q.done = rq[c].done
    BY <1>4, <1>5 DEF Request
  <2> HIDE DEF q
  <2>3. ~Answered(c) /\ ~Answered(c)'
    BY <1>1, <1>2, <2>1, <2>2 DEF Answered, TypeInv
  <2>4. q.reply.why = "stored" => touched[c] = TRUE
    BY <1>1, <2>2 DEF StoredInv
  <2>5. q.done = 0
    BY <1>1, <1>2, <2>2 DEF RequestInv
  <2>6. SparseMd5(q.data, q.off) = q.md5
    BY <1>7, <2>2
  <2> QED
    BY <1>2, <1>4, <1>5, <2>1, <2>2, <2>3, <2>4, <2>5, <2>6, Unanswered, RequestStep
<1> QED
  BY <1>6, <1>7

LEMMA OutsideFacts ==
    ASSUME NEW x \in Nat, NEW from \in Nat, NEW n \in Nat, NEW l \in Nat,
           x - 1 \notin from .. from + n - 1, x > 0, x <= l
    PROVE  x \in 1 .. l /\ (x <= from \/ x > from + n)
OBVIOUS

LEMMA WithinFacts ==
    ASSUME NEW o \in Nat, NEW s \in Nat, NEW t \in Nat, NEW k \in Nat, NEW n \in Nat,
           NEW l \in Nat, NEW q \in Nat, q = o + t, k + n <= l, t + l <= s
    PROVE  o <= q + k /\ q + k + n <= o + s
OBVIOUS

(* One pwrite: what others have stored and not had touched stays, and so    *)
(* do acknowledged bytes, since c only writes in the chunk its call is at.  *)
LEMMA PwriteStep ==
    ASSUME Inv, NEW c \in Client, Pwrite(c)
    PROVE  Inv'
<1>1. /\ TypeInv /\ CallInv(c) /\ RequestInv(c) /\ AnswerInv(c)
      /\ StoredInv(c) /\ AckInv(c) /\ ReadInv(c)
  BY InvParts
<1> DEFINE q == rq[c]
           from == q.off + q.done
<1>2. q.pc = "pwrite" /\ UNCHANGED <<provider, call, st, total, buf, cut, acked>>
  BY DEF Pwrite
<1>3. PICK n \in 1 .. Len(q.data) - q.done :
         /\ file' = Overlay(file, from, SubSeq(q.data, q.done + 1, q.done + n))
         /\ rq' = [rq EXCEPT ![c].done = q.done + n,
                             ![c].pc = IF q.done + n = Len(q.data) THEN "verify" ELSE "pwrite"]
         /\ Touch(c, from .. from + n - 1)
  BY DEF Pwrite
<1>4. /\ q \in Request /\ q.off \in Nat /\ q.done \in Nat /\ q.data \in Seq(Byte)
      /\ Len(q.data) \in Nat /\ q.done + n <= Len(q.data) /\ n \in Nat /\ n > 0
  <2>1. q \in Request
    BY <1>1 DEF TypeInv
  <2>2. q.off \in Nat /\ q.done \in Nat /\ q.data \in Seq(Byte)
    BY <2>1 DEF Request
  <2> QED
    BY <2>1, <2>2
<1> DEFINE d == SubSeq(q.data, q.done + 1, q.done + n)
<1>5. d \in Seq(Byte) /\ Len(d) = n /\ \A i \in 1 .. n : d[i] = q.data[q.done + i]
  BY <1>4, PieceFacts
<1>6. file \in Seq(Byte) /\ Len(file) \in Nat /\ from \in Nat
  BY <1>1, <1>4 DEF TypeInv
<1> HIDE DEF d
<1>7. /\ file' \in Seq(Byte)
      /\ Len(file') = IF Len(file) > from + n THEN Len(file) ELSE from + n
      /\ \A i \in 1 .. n : file'[from + i] = d[i]
      /\ \A i \in 1 .. Len(file) : i <= from \/ i > from + n => file'[i] = file[i]
  <2>1. file' = Overlay(file, from, d)
    BY <1>3 DEF d
  <2>2. d \in Seq(Byte) /\ Len(d) = n
    BY <1>5
  <2> HIDE DEF from, q
  <2>3. /\ Overlay(file, from, d) \in Seq(Byte)
        /\ Len(Overlay(file, from, d)) = IF Len(file) > from + Len(d) THEN Len(file) ELSE from + Len(d)
        /\ \A i \in 1 .. Len(d) : Overlay(file, from, d)[from + i] = d[i]
        /\ \A i \in 1 .. Len(file) :
              i <= from \/ i > from + Len(d) => Overlay(file, from, d)[i] = file[i]
    <3>1. file \in Seq(Byte) /\ from \in Nat /\ d \in Seq(Byte)
      BY <1>6, <2>2
    <3>2. /\ Overlay(file, from, d) \in Seq(Byte)
          /\ Len(Overlay(file, from, d)) = IF Len(file) > from + Len(d) THEN Len(file)
                                                                       ELSE from + Len(d)
      BY <3>1, OverlayFacts
    <3>3. \A i \in 1 .. Len(d) : Overlay(file, from, d)[from + i] = d[i]
      BY <3>1, OverlayFacts
    <3>4. \A i \in 1 .. Len(file) :
             i <= from \/ i > from + Len(d) => Overlay(file, from, d)[i] = file[i]
      BY <3>1, OverlayFacts
    <3> QED
      BY <3>2, <3>3, <3>4
  <2> QED
    BY <2>1, <2>2, <2>3
<1> DEFINE m == [q EXCEPT !.done = q.done + n,
                          !.pc = IF q.done + n = Len(q.data) THEN "verify" ELSE "pwrite"]
<1>8. rq' = [rq EXCEPT ![c] = m]
  BY <1>3
<1>9. /\ m \in Request /\ m.done = q.done + n /\ m.pc \in {"verify", "pwrite"}
      /\ m.pc = "verify" => m.done = Len(q.data)
      /\ m.off = q.off /\ m.data = q.data /\ m.size = q.size /\ m.md5 = q.md5
      /\ m.reply = q.reply
  <2>1. q.done + n \in Nat
    BY <1>4
  <2> QED
    BY <1>4, <2>1 DEF Request
<1> HIDE DEF m
<1>10. /\ rq' \in [Client -> Request] /\ rq'[c] = m
       /\ \A e \in Client : e # c => rq'[e] = rq[e]
  BY <1>1, <1>8, <1>9 DEF TypeInv
<1>11. /\ touched' \in [Client -> BOOLEAN] /\ touched'[c] = touched[c]
       /\ \A e \in Client : touched'[e] = FALSE =>
             /\ touched[e] = FALSE
             /\ e # c /\ rq[e].pc \in {"pwrite", "verify"} =>
                   \A p \in from .. from + n - 1 : ~InRange(e, p)
       /\ \A e \in Client : touched[e] = TRUE => touched'[e] = TRUE
  <2> HIDE DEF from
  <2>1. touched \in [Client -> BOOLEAN]
    BY <1>1 DEF TypeInv
  <2>2. touched' = [e \in Client |-> touched[e] \/ (e # c /\ rq[e].pc \in {"pwrite", "verify"}
                             /\ \E p \in from .. from + n - 1 : InRange(e, p))]
    BY <1>3 DEF Touch, from
  <2>3. touched' \in [Client -> BOOLEAN]
    BY <2>1, <2>2
  <2>4. \A e \in Client : touched'[e] <=> touched[e] \/ (e # c /\ rq[e].pc \in {"pwrite", "verify"}
                             /\ \E p \in from .. from + n - 1 : InRange(e, p))
    BY <2>2
  <2>5. \A e \in Client : touched[e] \in BOOLEAN /\ touched'[e] \in BOOLEAN
    BY <2>1, <2>3
  <2> QED
    BY <2>3, <2>4, <2>5
<1>12. TypeInv'
  BY <1>1, <1>2, <1>7, <1>10, <1>11 DEF TypeInv
<1>13. /\ q.off = call[c].off + total[c] /\ Len(q.data) = ChunkSize(c) /\ call[c].op = "write"
       /\ call[c].off \in Nat /\ total[c] \in Nat /\ total[c] + Len(q.data) <= call[c].size
       /\ call[c].size \in Nat
  <2>1. Live(c)
    BY <1>2 DEF Live, Busy
  <2>2. call[c].op = "write"
    BY <1>1, <1>2 DEF RequestInv
  <2>3. q.off = ChunkOffset(c) /\ Len(q.data) = ChunkSize(c)
    BY <1>1, <2>1, <2>2 DEF RequestInv
  <2> QED
    BY <1>1, <2>2, <2>3, ChunkFacts, CallFacts
<1>a. ~Answered(c) /\ ~Answered(c)'
  BY <1>2, <1>9, <1>10 DEF Answered
<1>14. LocalInv(c)'
  <2>1. ChunkSize(c)' = ChunkSize(c) /\ ChunkOffset(c)' = ChunkOffset(c)
    BY <1>2 DEF ChunkSize, ChunkOffset
  <2>2. Piece(c)' = Piece(c)
    BY <1>2, <2>1 DEF Piece
  <2>3. SparseMd5(Piece(c), ChunkOffset(c))' = SparseMd5(Piece(c), ChunkOffset(c))
    BY <2>1, <2>2
  <2>4. SparseMd5(rq[c].data, rq[c].off)' = SparseMd5(q.data, q.off)
    BY <1>9, <1>10
  <2>5. Live(c)
    BY <1>2 DEF Live, Busy
  <2>6. CallInv(c)'
    BY <1>1, <1>2, <1>9, <1>10 DEF CallInv, Busy
  <2>7. RequestInv(c)'
    BY <1>1, <1>2, <1>4, <1>9, <1>10, <2>1, <2>3, <2>4, <2>5 DEF RequestInv
  <2>8. AnswerInv(c)'
    BY <1>a DEF AnswerInv
  <2> QED
    BY <2>6, <2>7, <2>8 DEF LocalInv
<1>15. StoredInv(c)'
  <2>1. rq'[c].reply.why = "stored" => touched'[c] = TRUE
    BY <1>1, <1>9, <1>10, <1>11 DEF StoredInv
  <2>l. Len(file) \in Nat /\ Len(file') \in Nat /\ from \in Nat /\ n \in Nat
    BY <1>4, <1>6, <1>7
  <2>2. ASSUME touched'[c] = FALSE, NEW i \in 1 .. q.done + n
        PROVE  q.off + i <= Len(file') /\ file'[q.off + i] = q.data[i]
    <3>i. i \in Nat /\ i > 0 /\ i <= q.done + n
      BY <1>4
    <3>1. CASE i <= q.done
      <4>1. q.off + i <= Len(file) /\ file[q.off + i] = q.data[i]
        <5>1. i \in 1 .. q.done
          BY <1>4, <3>1
        <5> QED
          BY <1>1, <1>2, <1>11, <2>2, <5>1 DEF StoredInv
      <4>2. q.off + i \in 1 .. Len(file) /\ q.off + i <= from
        <5> DEFINE o == q.off
                   k == q.done
        <5>1. o \in Nat /\ k \in Nat /\ i \in Nat /\ i > 0 /\ i <= k /\ from = o + k
          BY <1>4, <3>i, <3>1
        <5>2. o + i <= Len(file) /\ Len(file) \in Nat
          BY <1>6, <4>1
        <5> HIDE DEF o, k, from
        <5> QED
          BY <5>1, <5>2 DEF o
      <4>3. file'[q.off + i] = file[q.off + i]
        <5> HIDE DEF from, q
        <5> QED
          BY <1>7, <4>2
      <4>4. Len(file') >= Len(file)
        BY <1>7, <2>l
      <4> HIDE DEF from
      <4> QED
        BY <2>l, <3>i, <1>4, <4>1, <4>3, <4>4
    <3>2. CASE ~(i <= q.done)
      <4>1. i - q.done \in 1 .. n /\ q.off + i = from + (i - q.done) /\ q.done + (i - q.done) = i
        <5> DEFINE o == q.off
                   k == q.done
        <5>1. /\ o \in Nat /\ k \in Nat /\ i \in Nat /\ n \in Nat /\ from = o + k
              /\ i <= k + n /\ ~(i <= k)
          BY <1>4, <3>i, <3>2
        <5> HIDE DEF o, k, from
        <5>2. i - k \in 1 .. n /\ o + i = from + (i - k) /\ k + (i - k) = i
          BY <5>1
        <5> QED
          BY <5>2 DEF o, k
      <4> HIDE DEF from, q
      <4>2. file'[q.off + i] = q.data[i]
        <5>1. file'[from + (i - q.done)] = d[i - q.done]
          BY <1>7, <4>1
        <5>2. d[i - q.done] = q.data[q.done + (i - q.done)]
          BY <1>5, <4>1
        <5> QED
          BY <4>1, <5>1, <5>2
      <4>3. q.off + i <= Len(file')
        <5>1. Len(file') >= from + n
          BY <1>7, <2>l
        <5>2. i - q.done <= n /\ i - q.done \in Nat
          BY <2>l, <4>1
        <5> QED
          BY <2>l, <4>1, <5>1, <5>2
      <4> QED
        BY <4>2, <4>3
    <3> QED
      BY <3>1, <3>2
  <2> QED
    BY <1>9, <1>10, <2>1, <2>2 DEF StoredInv
<1>16. AckInv(c)'
  <2> SUFFICES ASSUME NEW p \in call[c].off .. call[c].off + total[c] - 1 + 0,
                      Sampled(p), Private(c, p)'
               PROVE  Holds(c, p)'
    BY <1>2, <1>a DEF AckInv
  <2>1. Private(c, p)
    BY <1>2 DEF Private
  <2>2. Holds(c, p)
    BY <1>1, <1>13, <1>a, <2>1 DEF AckInv
  <2>3. p \in Nat /\ p + 1 \in 1 .. Len(file) /\ p + 1 <= from
    <3>1. p \in Nat /\ p + 1 <= q.off
      BY <1>13
    <3>2. p < Len(file)
      BY <2>2 DEF Holds
    <3>3. p + 1 <= from
      BY <1>4, <3>1
    <3> HIDE DEF from, q
    <3> QED
      BY <1>6, <3>1, <3>2, <3>3
  <2>4. file'[p + 1] = file[p + 1] /\ p < Len(file')
    BY <1>4, <1>6, <1>7, <2>3
  <2> QED
    BY <1>2, <2>2, <2>4 DEF Holds
<1>17. ReadInv(c)'
  BY <1>2, <1>13 DEF ReadInv
<1>18. ASSUME NEW e \in Client, e # c PROVE ClientInv(e)'
  <2>1. /\ LocalInv(e) /\ StoredInv(e) /\ AckInv(e) /\ ReadInv(e) /\ CallInv(e) /\ RequestInv(e)
    BY DEF Inv, ClientInv, LocalInv
  <2>2. rq'[e] = rq[e]
    BY <1>10, <1>18
  <2>3. LocalInv(e)'
    BY <1>2, <2>1, <2>2, LocalKept
  <2>4. ReadInv(e)'
    <3>1. \A x \in Client : total'[x] >= total[x]
      BY <1>1, <1>2 DEF TypeInv
    <3> QED
      BY <1>1, <1>2, <1>12, <2>1, <2>2, <3>1, ReadKept
  <2>5. StoredInv(e)'
    <3>1. rq'[e].reply.why = "stored" => touched'[e] = TRUE
      BY <1>11, <2>1, <2>2 DEF StoredInv
    <3>2. ASSUME rq[e].pc \in {"pwrite", "verify"}, touched'[e] = FALSE, NEW i \in 1 .. rq[e].done
          PROVE  rq[e].off + i <= Len(file') /\ file'[rq[e].off + i] = rq[e].data[i]
      <4>1. rq[e].off + i <= Len(file) /\ file[rq[e].off + i] = rq[e].data[i]
        BY <1>11, <2>1, <3>2 DEF StoredInv
      <4>2. /\ rq[e].off \in Nat /\ rq[e].done \in Nat /\ Len(rq[e].data) \in Nat
            /\ rq[e].done <= Len(rq[e].data)
        <5>1. rq[e] \in Request
          BY <1>1 DEF TypeInv
        <5>2. rq[e].data \in Seq(Byte)
          BY <5>1 DEF Request
        <5> QED
          BY <2>1, <5>1, <5>2 DEF Request, RequestInv
      <4>3. InRange(e, rq[e].off + i - 1)
        BY <3>2, <4>2 DEF InRange
      <4>4. rq[e].off + i - 1 \notin from .. from + n - 1
        BY <1>11, <1>18, <3>2, <4>3
      <4>5. rq[e].off + i \in 1 .. Len(file) /\ (rq[e].off + i <= from \/ rq[e].off + i > from + n)
        <5>1. n \in Nat /\ from \in Nat
          BY <1>4, <1>6
        <5>2. /\ rq[e].off + i \in Nat /\ rq[e].off + i > 0
              /\ rq[e].off + i <= Len(file) /\ Len(file) \in Nat
          BY <1>6, <4>1, <4>2
        <5> DEFINE x == rq[e].off + i
        <5> HIDE DEF from
        <5>3. x - 1 \notin from .. from + n - 1
          <6>1. rq[e].off + i - 1 = x - 1
            BY <3>2, <4>2
          <6> HIDE DEF x
          <6> QED
            BY <4>4, <6>1
        <5>4. x \in Nat /\ x > 0 /\ x <= Len(file) /\ Len(file) \in Nat
          BY <5>2
        <5> HIDE DEF x
        <5>5. x \in 1 .. Len(file) /\ (x <= from \/ x > from + n)
          BY <5>1, <5>3, <5>4, OutsideFacts
        <5> QED
          BY <5>5 DEF x
      <4>6. file'[rq[e].off + i] = file[rq[e].off + i]
        BY <1>7, <4>5
      <4>7. rq[e].off + i <= Len(file')
        <5>1. Len(file') >= Len(file) /\ Len(file) \in Nat /\ Len(file') \in Nat
          <6> HIDE DEF from
          <6> QED
            BY <1>4, <1>6, <1>7
        <5> QED
          BY <4>5, <5>1
      <4> QED
        BY <4>1, <4>6, <4>7
    <3> QED
      BY <2>2, <3>1, <3>2 DEF StoredInv
  <2>6. AckInv(e)'
    <3>1. Answered(e)' <=> Answered(e)
      BY <1>2, <2>2 DEF Answered
    <3>2. ChunkSize(e)' = ChunkSize(e)
      BY <1>2 DEF ChunkSize
    <3> DEFINE last == call[e].off + total[e] - 1 + (IF Answered(e) THEN ChunkSize(e) ELSE 0)
    <3> SUFFICES ASSUME call[e].op = "write", NEW p \in call[e].off .. last, Sampled(p),
                        Private(e, p)'
                 PROVE  Holds(e, p)'
      BY <1>2, <3>1, <3>2 DEF AckInv
    <3>3. Private(e, p)
      BY <1>2 DEF Private
    <3>4. Holds(e, p)
      BY <2>1, <3>3 DEF AckInv
    <3>5. p \in Nat
      <4>1. call[e].off \in Nat /\ total[e] \in Nat /\ ChunkSize(e) \in Nat
        BY <1>1, <2>1, ChunkFacts, CallFacts
      <4> QED
        BY <4>1
    <3>6. ~(p >= call[c].off /\ p < call[c].off + call[c].size)
      BY <1>13, <1>18, <3>3 DEF Private
    <3>7. p + 1 \in 1 .. Len(file) /\ (p + 1 <= from \/ p + 1 > from + n)
      <4>1. p < Len(file)
        BY <3>4 DEF Holds
      <4>2. /\ call[c].off <= from /\ from + n <= call[c].off + call[c].size
            /\ call[c].off \in Nat /\ call[c].size \in Nat /\ n \in Nat
        <5>1. /\ q.off \in Nat /\ q.done \in Nat /\ n \in Nat /\ Len(q.data) \in Nat
              /\ q.done + n <= Len(q.data)
          BY <1>4
        <5>2. /\ call[c].off \in Nat /\ call[c].size \in Nat /\ total[c] \in Nat
              /\ q.off = call[c].off + total[c] /\ total[c] + Len(q.data) <= call[c].size
          BY <1>13
        <5> HIDE DEF q
        <5>3. call[c].off <= q.off + q.done /\ q.off + q.done + n <= call[c].off + call[c].size
          BY <5>1, <5>2, WithinFacts
        <5> QED
          BY <5>1, <5>2, <5>3
      <4> HIDE DEF from, q, last
      <4> QED
        BY <1>6, <3>5, <3>6, <4>1, <4>2
    <3>8. file'[p + 1] = file[p + 1] /\ p < Len(file')
      BY <1>4, <1>6, <1>7, <3>5, <3>7
    <3> QED
      BY <1>2, <3>4, <3>8 DEF Holds
  <2> QED
    BY <2>3, <2>4, <2>5, <2>6 DEF ClientInv
<1> QED
  BY <1>12, <1>14, <1>15, <1>16, <1>17, <1>18 DEF Inv, ClientInv

(* What is in the file and has not been touched is read back as it was. *)
LEMMA ReadBack ==
    ASSUME NEW f \in Seq(Byte), NEW off \in Nat, NEW d \in Seq(Byte),
           \A i \in 1 .. Len(d) : off + i <= Len(f) /\ f[off + i] = d[i]
    PROVE  Pread(f, off, Len(d)) = d
<1> DEFINE x == Pread(f, off, Len(d))
           n == Len(d)
<1>1. n \in Nat
  OBVIOUS
<1>2. /\ x \in Seq(Byte) /\ Len(x) <= n
      /\ \A i \in 1 .. Len(x) : off + i <= Len(f) /\ x[i] = f[off + i]
      /\ \A i \in 1 .. n : off + i <= Len(f) => i <= Len(x)
  <2>1. x \in Seq(Byte) /\ Len(x) <= n
    BY <1>1, PreadFacts
  <2>2. \A i \in 1 .. Len(x) : off + i <= Len(f) /\ x[i] = f[off + i]
    BY <1>1, PreadFacts
  <2>3. \A i \in 1 .. n : off + i <= Len(f) => i <= Len(x)
    BY <1>1, PreadFacts
  <2> QED
    BY <2>1, <2>2, <2>3
<1> HIDE DEF x
<1>3. Len(x) \in Nat
  BY <1>2
<1>4. Len(x) = n
  <2>1. CASE n = 0
    BY <1>2, <1>3, <2>1
  <2>2. CASE n # 0
    <3>1. n \in 1 .. n
      BY <1>1, <2>2
    <3>2. n <= Len(x)
      BY <1>2, <3>1
    <3> QED
      BY <1>1, <1>2, <1>3, <3>2
  <2> QED
    BY <2>1, <2>2
<1>5. \A i \in 1 .. n : x[i] = d[i]
  BY <1>2, <1>4
<1>6. x = d
  BY <1>2, <1>4, <1>5, SeqEqual
<1> QED
  BY <1>6 DEF x


(* The stored bytes are read back.  Bytes with the MD5 the client sent are  *)
(* the caller's where they are sampled, and fewer bytes than the chunk has  *)
(* have that MD5 only if no sampled byte is missing.                        *)
LEMMA VerifyStep ==
    ASSUME Inv, NEW c \in Client, Verify(c)
    PROVE  Inv'
<1>1. /\ TypeInv /\ CallInv(c) /\ RequestInv(c) /\ StoredInv(c) /\ AckInv(c)
  BY InvParts
<1> DEFINE off  == rq[c].off
           len  == Len(rq[c].data)
           back == Pread(file, off, len)
           m    == SparseMd5(back, off)
           good == [NoReply EXCEPT !.ok = TRUE, !.n = len, !.md5 = m]
<1>2. /\ rq[c].pc = "verify"
      /\ UNCHANGED <<provider, file, call, st, total, buf, cut, touched, acked>>
      /\ \/ Respond(c, ErrorReply("errno"))
         \/ Respond(c, ErrorReply("stored")) /\ (Len(back) < len \/ m # rq[c].md5)
         \/ Respond(c, good) /\ m = rq[c].md5
  BY DEF Verify
<1>3. Busy(c) /\ Live(c) /\ ~Answered(c)
  BY <1>2 DEF Busy, Live, Answered
<1>4. file \in Seq(Byte) /\ rq[c].data \in Seq(Byte) /\ off \in Nat /\ len \in Nat
  <2>1. rq[c] \in Request /\ file \in Seq(Byte)
    BY <1>1 DEF TypeInv
  <2>2. rq[c].data \in Seq(Byte) /\ off \in Nat
    BY <2>1 DEF Request
  <2> QED
    BY <2>1, <2>2
<1>5. /\ call[c].op = "write" /\ SparseMd5(rq[c].data, off) = rq[c].md5
      /\ rq[c].done = len /\ len = ChunkSize(c) /\ off = ChunkOffset(c)
      /\ rq[c].md5 = SparseMd5(Piece(c), off)
  BY <1>1, <1>2, <1>3 DEF RequestInv
<1>6. CASE Respond(c, ErrorReply("errno"))
  BY <1>2, <1>3, <1>6, ErrorReplyType, RespondStep
<1>7. CASE Respond(c, ErrorReply("stored")) /\ (Len(back) < len \/ m # rq[c].md5)
  <2>1. touched[c] = TRUE
    <3> SUFFICES ASSUME touched[c] = FALSE PROVE FALSE
      BY <1>1 DEF TypeInv
    <3>1. \A i \in 1 .. len : off + i <= Len(file) /\ file[off + i] = rq[c].data[i]
      BY <1>1, <1>2, <1>5 DEF StoredInv
    <3>2. back = rq[c].data
      BY <1>4, <3>1, ReadBack
    <3>3. m = rq[c].md5 /\ ~(Len(back) < len)
      <4>1. m = rq[c].md5
        BY <1>5, <3>2
      <4>2. Len(back) = len
        BY <3>2
      <4> HIDE DEF len, back
      <4> QED
        BY <1>4, <4>1, <4>2
    <3> QED
      BY <1>7, <3>3
  <2> QED
    BY <1>2, <1>3, <1>7, <2>1, ErrorReplyType, RespondStep
<1>8. CASE Respond(c, good) /\ m = rq[c].md5
  <2>1. /\ back \in Seq(Byte) /\ Len(back) <= len
        /\ \A i \in 1 .. Len(back) : off + i <= Len(file) /\ back[i] = file[off + i]
    <3>1. file \in Seq(Byte) /\ off \in Nat /\ len \in Nat
      BY <1>4
    <3> HIDE DEF off, len
    <3> HIDE DEF good, m
    <3>2. back \in Seq(Byte)
      BY <3>1, PreadFacts
    <3>3. Len(back) <= len
      BY <3>1, PreadFacts
    <3>4. \A i \in 1 .. Len(back) : off + i <= Len(file) /\ back[i] = file[off + i]
      BY <3>1, PreadFacts
    <3> QED
      BY <3>2, <3>3, <3>4
  <2>2. m \in Digest
    BY <1>4, <2>1 DEF Digest
  <2>3. good \in Reply /\ good.ok = TRUE /\ good.why = "none" /\ good.data = <<>>
    <3> HIDE DEF m, len
    <3>1. NoReply \in Reply /\ NoReply.why = "none" /\ NoReply.data = <<>>
      BY DEF NoReply, Reply, Digest
    <3> QED
      BY <1>4, <2>2, <3>1 DEF Reply
  <2>4. rq'[c].reply = good
    <3> HIDE DEF good
    <3>1. rq' = [rq EXCEPT ![c] = [rq[c] EXCEPT !.pc = "reply", !.reply = good]]
      BY <1>8 DEF Respond
    <3>2. rq \in [Client -> Request] /\ rq[c] \in Request
      BY <1>1 DEF TypeInv
    <3>3. [rq[c] EXCEPT !.pc = "reply", !.reply = good].reply = good
      BY <3>2 DEF Request
    <3> QED
      BY <3>1, <3>2, <3>3
  <2>5. AnswerInv(c)'
    BY <1>2, <1>5, <2>3, <2>4 DEF AnswerInv
  <2>6. ReadInv(c)'
    BY <1>2, <1>5 DEF ReadInv
  <2>7. AckInv(c)'
    <3>1. /\ call[c].off \in Nat /\ total[c] \in Nat /\ ChunkSize(c) \in Nat
          /\ off = call[c].off + total[c]
      BY <1>1, <1>5, ChunkFacts, CallFacts
    <3>2. /\ Piece(c) \in Seq(Byte) /\ Len(Piece(c)) = ChunkSize(c)
          /\ \A i \in 1 .. ChunkSize(c) : Piece(c)[i] = call[c].data[total[c] + i]
      BY <1>1, <1>5, ChunkFacts
    <3>3. Len(back) <= Len(Piece(c)) /\ SparseMd5(back, off) = SparseMd5(Piece(c), off)
      BY <1>5, <1>8, <2>1, <3>2
    <3>4. \A i \in 1 .. ChunkSize(c) : Sampled(off + i - 1) =>
             i <= Len(back) /\ back[i] = call[c].data[total[c] + i]
      <4>1. \A i \in 1 .. Len(Piece(c)) : Sampled(off + i - 1) =>
               i <= Len(back) /\ back[i] = Piece(c)[i]
        BY <1>4, <2>1, <3>2, <3>3, SameMd5
      <4> QED
        BY <3>2, <4>1
    <3>5. ChunkSize(c)' = ChunkSize(c)
      BY <1>2 DEF ChunkSize
    <3> SUFFICES ASSUME NEW p \in call[c].off .. call[c].off + total[c] - 1 + ChunkSize(c),
                        Sampled(p), Private(c, p)'
                 PROVE  Holds(c, p)'
      <4>1. /\ call'[c] = call[c] /\ total'[c] = total[c]
            /\ \A k \in {0, ChunkSize(c)} :
                  call[c].off .. call[c].off + total[c] - 1 + k
                     \subseteq call[c].off .. call[c].off + total[c] - 1 + ChunkSize(c)
        BY <1>2, <3>1
      <4> QED
        BY <3>5, <4>1 DEF AckInv
    <3>6. Private(c, p)
      BY <1>2 DEF Private
    <3>7. Holds(c, p)
      <4>1. CASE p < off
        <5>1. p \in call[c].off .. call[c].off + total[c] - 1 + 0
          BY <3>1, <4>1
        <5> QED
          BY <1>1, <1>3, <1>5, <3>6, <5>1 DEF AckInv
      <4>2. CASE ~(p < off)
        <5> DEFINE i == p - off + 1
        <5>1. /\ i \in 1 .. ChunkSize(c) /\ off + i - 1 = p /\ off + i = p + 1
              /\ total[c] + i = p - call[c].off + 1 /\ p \in Nat
          BY <3>1, <4>2
        <5>2. i <= Len(back) /\ back[i] = call[c].data[total[c] + i]
          BY <3>4, <5>1
        <5>3. i \in 1 .. Len(back)
          <6>1. Len(back) \in Nat
            BY <2>1
          <6> HIDE DEF back
          <6> QED
            BY <3>1, <5>1, <5>2, <6>1
        <5>4. p + 1 <= Len(file) /\ back[i] = file[p + 1]
          <6>1. off + i <= Len(file) /\ back[i] = file[off + i]
            BY <2>1, <5>3
          <6> QED
            BY <5>1, <6>1
        <5>5. p < Len(file)
          <6>1. Len(file) \in Nat
            BY <1>4
          <6> QED
            BY <5>1, <5>4, <6>1
        <5> QED
          BY <5>1, <5>2, <5>4, <5>5 DEF Holds
      <4> QED
        BY <4>1, <4>2
    <3> QED
      BY <1>2, <3>7 DEF Holds
  <2> HIDE DEF good
  <2> QED
    BY <1>2, <1>3, <1>8, <2>3, <2>5, <2>6, <2>7, RespondStep
<1> QED
  BY <1>2, <1>6, <1>7, <1>8

(* What is due to a read is in the file. *)
LEMMA DueStored ==
    ASSUME Inv, NEW c \in Client, call[c].op = "read", cut = -1, NEW a \in acked[c], Due(c, a)
    PROVE  a[1] \in Nat /\ a[1] < Len(file) /\ file[a[1] + 1] = a[2]
<1>1. TypeInv /\ ReadInv(c)
  BY InvParts
<1>2. PICK d \in Client : a \in AckedBytes(d)
  BY <1>1 DEF ReadInv
<1>3. call[d].op = "write"
  BY <1>2 DEF AckedBytes
<1>4. PICK i \in 1 .. total[d] : a = <<call[d].off + i - 1, call[d].data[i]>>
  BY <1>2, <1>3 DEF AckedBytes
<1>5. AckInv(d) /\ total[d] <= call[d].size
  BY InvParts DEF CallInv
<1>6. /\ call[d].off \in Nat /\ total[d] \in Nat /\ ChunkSize(d) \in Nat /\ call[d].size \in Nat
  BY InvParts, ChunkFacts, CallFacts
<1> DEFINE p == call[d].off + i - 1
<1>7. a[1] = p /\ a[2] = call[d].data[i]
  BY <1>4
<1>8. /\ p \in Nat /\ p - call[d].off + 1 = i
      /\ p \in call[d].off .. call[d].off + call[d].size - 1
      /\ p \in call[d].off .. call[d].off + total[d] - 1 + (IF Answered(d) THEN ChunkSize(d) ELSE 0)
  BY <1>5, <1>6
<1> HIDE DEF p
<1>9. Sampled(p) /\ Sole(p)
  BY <1>7 DEF Due
<1>10. Private(d, p)
  <2> SUFFICES ASSUME NEW e \in Client \ {d}, call[e].op = "write",
                      p >= call[e].off, p < call[e].off + call[e].size
               PROVE  FALSE
    BY DEF Private
  <2>1. call[e].off \in Nat /\ call[e].size \in Nat
    BY <1>1, CallFacts
  <2>2. p \in call[e].off .. call[e].off + call[e].size - 1
    BY <1>8, <2>1
  <2> QED
    BY <1>3, <1>8, <1>9, <2>2 DEF Sole
<1>11. Holds(d, p)
  BY <1>3, <1>5, <1>8, <1>9, <1>10 DEF AckInv
<1> QED
  BY <1>7, <1>8, <1>11 DEF Holds

LEMMA HandleReadStep ==
    ASSUME Inv, NEW c \in Client, HandleRead(c)
    PROVE  Inv'
<1>1. /\ TypeInv /\ CallInv(c) /\ RequestInv(c) /\ ReadInv(c)
  BY InvParts
<1> DEFINE off  == rq[c].off
           size == rq[c].size
           data == Pread(file, off, size)
           m    == SparseMd5(data, off)
           good == [NoReply EXCEPT !.ok = TRUE, !.data = data, !.md5 = m]
<1>2. /\ rq[c].pc = "sent" /\ call[c].op = "read" /\ Respond(c, good)
      /\ UNCHANGED <<provider, file, call, st, total, buf, cut, touched, acked>>
  BY DEF HandleRead
<1>3. Busy(c) /\ Live(c) /\ ~Answered(c)
  BY <1>2 DEF Busy, Live, Answered
<1>4. rq \in [Client -> Request] /\ rq[c] \in Request /\ file \in Seq(Byte)
  BY <1>1 DEF TypeInv
<1>5. off \in Nat /\ size \in Nat
  BY <1>4 DEF Request
<1>6. size = ChunkSize(c) /\ off = ChunkOffset(c)
  BY <1>1, <1>2, <1>3 DEF RequestInv
<1>7. data \in Seq(Byte)
  <2> HIDE DEF off, size, m, good
  <2> QED
    BY <1>4, <1>5, PreadFacts
<1>8. Len(data) <= size /\ (Len(file) >= off + size => Len(data) = size)
  <2> HIDE DEF off, size, m, good
  <2> QED
    BY <1>4, <1>5, PreadFacts
<1>9. \A i \in 1 .. Len(data) : data[i] = file[off + i]
  <2> HIDE DEF off, size, m, good
  <2> QED
    BY <1>4, <1>5, PreadFacts
<1>10. \A i \in 1 .. size : off + i <= Len(file) => i <= Len(data)
  <2> HIDE DEF off, size, m, good
  <2> QED
    BY <1>4, <1>5, PreadFacts
<1>11. m \in Digest
  BY <1>5, <1>7 DEF Digest
<1>12. /\ good \in Reply /\ good.ok = TRUE /\ good.why = "none"
       /\ good.data = data /\ good.md5 = m
  <2> HIDE DEF m, data
  <2>1. NoReply \in Reply /\ NoReply.why = "none"
    BY DEF NoReply, Reply, Digest
  <2> QED
    BY <1>7, <1>11, <2>1 DEF Reply
<1> HIDE DEF good
<1>13. rq'[c].reply = good /\ rq'[c].off = off
  <2>1. rq' = [rq EXCEPT ![c] = [rq[c] EXCEPT !.pc = "reply", !.reply = good]]
    BY <1>2 DEF Respond
  <2>2. LET q == [rq[c] EXCEPT !.pc = "reply", !.reply = good] IN q.reply = good /\ q.off = rq[c].off
    BY <1>4 DEF Request
  <2> QED
    BY <1>4, <2>1, <2>2
<1>14. ChunkSize(c)' = ChunkSize(c) /\ ChunkOffset(c)' = ChunkOffset(c)
  BY <1>2 DEF ChunkSize, ChunkOffset
<1>15. AnswerInv(c)'
  <2>1. SparseMd5(rq[c].reply.data, rq[c].off)' = SparseMd5(data, off)
    BY <1>12, <1>13
  <2>2. Len(rq'[c].reply.data) <= ChunkSize(c)' /\ rq'[c].reply.md5 = m
    BY <1>6, <1>8, <1>12, <1>13, <1>14
  <2> QED
    BY <1>2, <2>1, <2>2 DEF AnswerInv
<1>16. AckInv(c)'
  BY <1>2 DEF AckInv
<1>17. ReadInv(c)'
  <2>1. \A d \in Client : AckedBytes(d)' = AckedBytes(d)
    BY <1>2 DEF AckedBytes
  <2>2. \A a : Due(c, a)' <=> Due(c, a)
    BY <1>2 DEF Due, Sole
  <2>3. ASSUME NEW a \in acked[c], cut = -1, Due(c, a), a[1] >= off
        PROVE  \/ a[1] - off < Len(data) /\ data[a[1] - off + 1] = a[2]
               \/ Len(data) = size /\ a[1] >= off + size
    <3> DEFINE p == a[1]
    <3>1. p \in Nat /\ p < Len(file) /\ file[p + 1] = a[2]
      BY <1>2, <2>3, DueStored
    <3>2. Len(data) \in Nat /\ Len(file) \in Nat
      BY <1>4, <1>7
    <3>3. p >= off
      BY <2>3
    <3> HIDE DEF off, size, data, p
    <3>4. CASE p >= off + size
      BY <1>5, <1>8, <3>1, <3>2, <3>4 DEF p
    <3>5. CASE ~(p >= off + size)
      <4> DEFINE i == p - off + 1
      <4>1. i \in 1 .. size /\ off + i = p + 1 /\ off + i <= Len(file)
        BY <1>5, <3>1, <3>2, <3>3, <3>5
      <4>2. i <= Len(data)
        BY <1>10, <4>1
      <4>3. i \in 1 .. Len(data) /\ p - off < Len(data)
        BY <1>5, <3>1, <3>2, <4>1, <4>2
      <4>4. data[i] = file[p + 1]
        BY <1>9, <4>1, <4>3
      <4> QED
        BY <3>1, <4>3, <4>4 DEF p
    <3> QED
      BY <3>4, <3>5
  <2> HIDE DEF data, size, off
  <2> QED
    BY <1>1, <1>2, <1>3, <1>6, <1>12, <1>13, <1>14, <2>1, <2>2, <2>3 DEF ReadInv
<1> QED
  BY <1>2, <1>3, <1>12, <1>15, <1>16, <1>17, RespondStep

(* A truncate: what remains of the file is as it was, and what it removes   *)
(* is no longer private.                                                    *)
LEMMA HandleTruncateStep ==
    ASSUME Inv, NEW c \in Client, HandleTruncate(c)
    PROVE  Inv'
<1>1. TypeInv /\ CallInv(c) /\ RequestInv(c) /\ StoredInv(c)
  BY InvParts
<1> DEFINE size == rq[c].size
           S == {p \in 0 .. Len(file) : p >= size}
           good == [NoReply EXCEPT !.ok = TRUE]
<1>2. /\ rq[c].pc = "sent" /\ call[c].op = "truncate"
      /\ file' = Resize(file, size) /\ Touch(c, S) /\ Respond(c, good)
      /\ cut' = (IF cut = -1 \/ size < cut THEN size ELSE cut)
      /\ UNCHANGED <<provider, call, st, total, buf, acked>>
  BY DEF HandleTruncate
<1>3. rq \in [Client -> Request] /\ rq[c] \in Request /\ file \in Seq(Byte) /\ Len(file) \in Nat
  BY <1>1 DEF TypeInv
<1>4. size \in Nat
  BY <1>3 DEF Request
<1>5. good \in Reply /\ good.ok = TRUE /\ good.why = "none" /\ good.data = <<>>
  <2>1. NoReply \in Reply /\ NoReply.why = "none" /\ NoReply.data = <<>>
    BY DEF NoReply, Reply, Digest
  <2> QED
    BY <2>1 DEF Reply
<1> DEFINE m == [rq[c] EXCEPT !.pc = "reply", !.reply = good]
<1> HIDE DEF good
<1>6. rq' = [rq EXCEPT ![c] = m]
  BY <1>2 DEF Respond
<1>7. /\ m \in Request /\ m.pc = "reply" /\ m.reply = good /\ m.off = rq[c].off
      /\ m.size = rq[c].size /\ m.md5 = rq[c].md5 /\ m.data = rq[c].data /\ m.done = rq[c].done
  BY <1>3, <1>5 DEF Request
<1> HIDE DEF m
<1>8. /\ rq' \in [Client -> Request] /\ rq'[c] = m
      /\ \A e \in Client : e # c => rq'[e] = rq[e]
  BY <1>3, <1>6, <1>7
<1> HIDE DEF size
<1>9. /\ file' \in Seq(Byte) /\ Len(file') = size
      /\ \A i \in 1 .. size : i <= Len(file) => file'[i] = file[i]
  BY <1>2, <1>3, <1>4, ResizeFacts
<1>10. /\ cut' \in Nat /\ cut' <= size
       /\ cut = -1 \/ cut' <= cut
  <2>1. cut \in {-1} \cup Nat
    BY <1>1 DEF TypeInv
  <2> QED
    BY <1>2, <1>4, <2>1
<1> HIDE DEF S
<1>11. /\ touched' \in [Client -> BOOLEAN]
       /\ \A e \in Client : touched'[e] = FALSE =>
             /\ touched[e] = FALSE
             /\ e # c /\ rq[e].pc \in {"pwrite", "verify"} => \A p \in S : ~InRange(e, p)
       /\ \A e \in Client : touched[e] = TRUE => touched'[e] = TRUE
  <2>1. touched \in [Client -> BOOLEAN]
    BY <1>1 DEF TypeInv
  <2>2. touched' = [e \in Client |-> touched[e] \/ (e # c /\ rq[e].pc \in {"pwrite", "verify"}
                             /\ \E p \in S : InRange(e, p))]
    BY <1>2 DEF Touch
  <2>3. touched' \in [Client -> BOOLEAN]
    BY <2>1, <2>2
  <2>4. \A e \in Client : touched'[e] <=> touched[e] \/ (e # c /\ rq[e].pc \in {"pwrite", "verify"}
                             /\ \E p \in S : InRange(e, p))
    BY <2>2
  <2>5. \A e \in Client : touched[e] \in BOOLEAN /\ touched'[e] \in BOOLEAN
    BY <2>1, <2>3
  <2> QED
    BY <2>3, <2>4, <2>5
<1>12. TypeInv'
  BY <1>1, <1>2, <1>8, <1>9, <1>10, <1>11 DEF TypeInv
<1>13. \A e \in Client : AckedBytes(e)' = AckedBytes(e)
  BY <1>2 DEF AckedBytes
<1>14. ClientInv(c)'
  <2>1. CallInv(c)'
    BY <1>1, <1>2, <1>7, <1>8 DEF CallInv, Busy
  <2>2. RequestInv(c)'
    <3>1. ChunkSize(c)' = ChunkSize(c)
      BY <1>2 DEF ChunkSize
    <3>2. Live(c)
      BY <1>2 DEF Live, Busy
    <3> QED
      BY <1>1, <1>2, <1>7, <1>8, <3>1, <3>2 DEF RequestInv
  <2>3. AnswerInv(c)'
    BY <1>2, <1>5, <1>7, <1>8 DEF AnswerInv
  <2>4. StoredInv(c)'
    BY <1>5, <1>7, <1>8 DEF StoredInv
  <2>5. AckInv(c)' /\ ReadInv(c)'
    BY <1>2 DEF AckInv, ReadInv
  <2> QED
    BY <2>1, <2>2, <2>3, <2>4, <2>5 DEF ClientInv, LocalInv
<1>15. ASSUME NEW e \in Client, e # c PROVE ClientInv(e)'
  <2>1. LocalInv(e) /\ StoredInv(e) /\ AckInv(e) /\ ReadInv(e) /\ CallInv(e) /\ RequestInv(e)
    BY DEF Inv, ClientInv, LocalInv
  <2>2. rq'[e] = rq[e]
    BY <1>8, <1>15
  <2>3. LocalInv(e)'
    BY <1>2, <2>1, <2>2, LocalKept
  <2>4. ReadInv(e)'
    BY <1>2, <1>10, <1>13, <2>1 DEF ReadInv
  <2>5. StoredInv(e)'
    <3>1. rq'[e].reply.why = "stored" => touched'[e] = TRUE
      BY <1>11, <2>1, <2>2 DEF StoredInv
    <3>2. ASSUME rq[e].pc \in {"pwrite", "verify"}, touched'[e] = FALSE, NEW i \in 1 .. rq[e].done
          PROVE  rq[e].off + i <= Len(file') /\ file'[rq[e].off + i] = rq[e].data[i]
      <4>1. rq[e].off + i <= Len(file) /\ file[rq[e].off + i] = rq[e].data[i]
        BY <1>11, <2>1, <3>2 DEF StoredInv
      <4>2. /\ rq[e].off \in Nat /\ rq[e].done \in Nat /\ Len(rq[e].data) \in Nat
            /\ rq[e].done <= Len(rq[e].data)
        <5>1. rq[e] \in Request
          BY <1>3
        <5>2. rq[e].data \in Seq(Byte)
          BY <5>1 DEF Request
        <5> QED
          BY <2>1, <5>1, <5>2 DEF Request, RequestInv
      <4>3. InRange(e, rq[e].off + i - 1)
        BY <3>2, <4>2 DEF InRange
      <4>4. rq[e].off + i - 1 \notin S
        BY <1>11, <1>15, <3>2, <4>3
      <4>5. rq[e].off + i - 1 \in 0 .. Len(file)
        BY <1>3, <4>1, <4>2
      <4>6. ~(rq[e].off + i - 1 >= size)
        BY <4>4, <4>5 DEF S
      <4>7. rq[e].off + i \in 1 .. size
        BY <1>4, <4>2, <4>6
      <4> QED
        BY <1>9, <4>1, <4>7
    <3> QED
      BY <2>2, <3>1, <3>2 DEF StoredInv
  <2>6. AckInv(e)'
    <3>1. Answered(e)' <=> Answered(e)
      BY <1>2, <2>2 DEF Answered
    <3>2. ChunkSize(e)' = ChunkSize(e)
      BY <1>2 DEF ChunkSize
    <3> DEFINE last == call[e].off + total[e] - 1 + (IF Answered(e) THEN ChunkSize(e) ELSE 0)
    <3> SUFFICES ASSUME call[e].op = "write", NEW p \in call[e].off .. last, Sampled(p),
                        Private(e, p)'
                 PROVE  Holds(e, p)'
      BY <1>2, <3>1, <3>2 DEF AckInv
    <3>3. p \in Nat
      <4>1. call[e].off \in Nat /\ total[e] \in Nat /\ ChunkSize(e) \in Nat
        BY <1>1, <2>1, ChunkFacts, CallFacts
      <4> QED
        BY <4>1
    <3>4. p < size /\ (cut = -1 \/ p < cut)
      <4>1. p < cut'
        BY <1>10 DEF Private
      <4>2. cut \in {-1} \cup Nat
        BY <1>1 DEF TypeInv
      <4> HIDE DEF last
      <4> QED
        BY <1>4, <1>10, <3>3, <4>1, <4>2
    <3>5. Private(e, p)
      BY <1>2, <3>4 DEF Private
    <3>6. Holds(e, p)
      BY <2>1, <3>5 DEF AckInv
    <3>7. p < Len(file)
      BY <3>6 DEF Holds
    <3>8. p + 1 \in 1 .. size /\ p + 1 <= Len(file)
      <4> HIDE DEF last
      <4> QED
        BY <1>3, <1>4, <3>3, <3>4, <3>7
    <3>9. file'[p + 1] = file[p + 1] /\ p < Len(file')
      BY <1>9, <3>4, <3>8
    <3> QED
      BY <1>2, <3>6, <3>9 DEF Holds
  <2> QED
    BY <2>3, <2>4, <2>5, <2>6 DEF ClientInv
<1> QED
  BY <1>12, <1>14, <1>15 DEF Inv

-----------------------------------------------------------------------------
(* The inductive proof *)

LEMMA InvInit ==
    ASSUME Init
    PROVE  Inv
<1>1. /\ provider \in Providers /\ file = <<>> /\ cut = -1
      /\ st = [c \in Client |-> "idle"] /\ total = [c \in Client |-> 0]
      /\ buf = [c \in Client |-> <<>>] /\ rq = [c \in Client |-> NoReq]
      /\ touched = [c \in Client |-> FALSE] /\ acked = [c \in Client |-> {}]
      /\ call \in [Client -> UNION {Program[c] : c \in Client}]
      /\ \A c \in Client : call[c] \in Program[c]
  BY DEF Init
<1>2. NoReq \in Request /\ NoReq.pc = "none" /\ NoReq.done = 0 /\ NoReq.data = <<>>
      /\ NoReq.reply = NoReply
  <2>1. NoReply \in Reply /\ <<>> \in Digest
    BY DEF NoReply, Reply, Digest
  <2> QED
    BY <2>1 DEF NoReq, Request
<1>3. TypeInv
  <2>1. call \in [Client -> Calls]
    BY <1>1, ProgramAssumption DEF Calls
  <2> QED
    BY <1>1, <1>2, <2>1 DEF TypeInv
<1>4. ASSUME NEW c \in Client PROVE ClientInv(c)
  <2>1. /\ st[c] = "idle" /\ total[c] = 0 /\ buf[c] = <<>> /\ rq[c] = NoReq
        /\ touched[c] = FALSE /\ acked[c] = {}
    BY <1>1
  <2>2. ~Busy(c) /\ ~Live(c) /\ ~Answered(c)
    BY <1>2, <2>1 DEF Busy, Live, Answered
  <2>3. call[c].size \in Nat /\ call[c].off \in Nat
    BY <1>3, CallFacts
  <2>4. CallInv(c)
    BY <2>1, <2>2, <2>3 DEF CallInv
  <2>5. RequestInv(c) /\ AnswerInv(c)
    BY <1>2, <2>1, <2>2 DEF RequestInv, AnswerInv
  <2>6. StoredInv(c)
    BY <1>2, <2>1 DEF StoredInv, NoReply
  <2>7. AckInv(c)
    BY <2>1, <2>2, <2>3 DEF AckInv
  <2>8. ReadInv(c)
    BY <2>1 DEF ReadInv
  <2> QED
    BY <2>4, <2>5, <2>6, <2>7, <2>8 DEF ClientInv, LocalInv
<1> QED
  BY <1>3, <1>4 DEF Inv

LEMMA InvNext ==
    ASSUME Inv, [Next]_vars
    PROVE  Inv'
<1>1. ASSUME NEW c \in Client, ClientStep(c) PROVE Inv'
  <2>1. CASE RequestFails(c)
    BY <2>1, ReturnStep DEF RequestFails
  <2>2. CASE ReplyError(c)
    BY <2>2, ReturnStep DEF ReplyError
  <2>3. CASE ReplyTruncate(c)
    BY <2>3, ReturnStep DEF ReplyTruncate, Busy
  <2> QED
    BY <1>1, <2>1, <2>2, <2>3, StartStep, SendStep, ReplyWriteStep, ReplyReadStep DEF ClientStep
<1>2. ASSUME NEW c \in Client, ServerStep(c) \/ Lose(c) PROVE Inv'
  BY <1>2, ArriveStep, FailSteps, PwriteStep, VerifyStep, HandleReadStep, HandleTruncateStep
     DEF ServerStep
<1>3. ASSUME UNCHANGED vars PROVE Inv'
  <2>0. /\ provider' = provider /\ file' = file /\ call' = call /\ st' = st /\ total' = total
        /\ buf' = buf /\ rq' = rq /\ cut' = cut /\ touched' = touched /\ acked' = acked
    BY <1>3 DEF vars
  <2>1. TypeInv /\ TypeInv'
    BY <2>0 DEF Inv, TypeInv
  <2>2. ASSUME NEW c \in Client PROVE ClientInv(c)'
    <3>1. LocalInv(c) /\ StoredInv(c) /\ AckInv(c) /\ ReadInv(c)
      BY DEF Inv, ClientInv
    <3>2. Answered(c)' <=> Answered(c)
      BY <2>0 DEF Answered
    <3>3. \A e \in Client : total'[e] >= total[e]
      BY <2>0, <2>1 DEF TypeInv
    <3>4. LocalInv(c)'
      BY <2>0, <3>1, LocalKept
    <3>5. StoredInv(c)' /\ AckInv(c)'
      BY <2>0, <3>1, <3>2, StoredKept, AckKept
    <3>6. ReadInv(c)'
      BY <2>0, <2>1, <3>1, <3>3, ReadKept
    <3> QED
      BY <3>4, <3>5, <3>6 DEF ClientInv
  <2> QED
    BY <2>1, <2>2 DEF Inv
<1> QED
  BY <1>1, <1>2, <1>3 DEF Next, Finished

LEMMA InvAlways == Spec => []Inv
<1>1. Init => Inv
  BY InvInit
<1>2. Inv /\ [Next]_vars => Inv'
  BY InvNext
<1> QED
  BY <1>1, <1>2, PTL DEF Spec

-----------------------------------------------------------------------------
(* The theorems *)

(* Every variable keeps its type: total_read and total_written never pass   *)
(* the size the caller asked for (httpfs_read_file, httpfs_write_file), so  *)
(* a read never puts more bytes into the caller's buffer than it holds.     *)
THEOREM TypeCorrect == Spec => []TypeOK
<1>1. ASSUME Inv PROVE TypeOK
  <2>1. TypeInv
    BY <1>1 DEF Inv
  <2>2. ASSUME NEW c \in Client
        PROVE  /\ total[c] \in 0 .. call[c].size
               /\ Len(buf[c]) = IF call[c].op = "read" THEN total[c] ELSE 0
    <3>1. CallInv(c) /\ total[c] \in Nat /\ call[c].size \in Nat
      BY <1>1, InvParts, ChunkFacts, CallFacts
    <3> QED
      BY <3>1 DEF CallInv
  <2>3. ASSUME NEW c \in Client
        PROVE  /\ rq[c].pc \in {"none", "sent", "lost", "pwrite", "verify", "reply"}
               /\ rq[c].done \in 0 .. Len(rq[c].data)
    <3>1. RequestInv(c) /\ rq[c] \in Request
      BY <1>1, <2>1, InvParts DEF TypeInv
    <3>2. rq[c].done \in Nat /\ rq[c].data \in Seq(Byte)
      BY <3>1 DEF Request
    <3>3. Len(rq[c].data) \in Nat /\ rq[c].done <= Len(rq[c].data)
      BY <3>1, <3>2 DEF RequestInv
    <3>4. rq[c].pc \in {"none", "sent", "lost", "pwrite", "verify", "reply"}
      BY <3>1 DEF Request
    <3> QED
      BY <3>2, <3>3, <3>4
  <2> QED
    BY <2>1, <2>2, <2>3 DEF TypeOK, TypeInv
<1>2. Inv => TypeOK
  BY <1>1
<1> QED
  BY <1>2, InvAlways, PTL

(* httpfs_write_file goes on to the next chunk only when the bytes of this  *)
(* one are in the file: whatever the network altered, whichever pwrites of  *)
(* other clients came in between and whichever provider answered, every     *)
(* sampled byte of every acknowledged chunk that no one else overwrites or  *)
(* cuts off is stored.                                                      *)
THEOREM AckedCorrect == Spec => []AckedChunksStored
<1>1. ASSUME Inv PROVE AckedChunksStored
  <2> SUFFICES ASSUME NEW c \in Client, NEW a \in AckedBytes(c), Sampled(a[1]), Private(c, a[1])
               PROVE  Len(file) > a[1] /\ file[a[1] + 1] = a[2]
    BY DEF AckedChunksStored
  <2>1. call[c].op = "write"
    BY DEF AckedBytes
  <2>2. PICK i \in 1 .. total[c] : a = <<call[c].off + i - 1, call[c].data[i]>>
    BY <2>1 DEF AckedBytes
  <2>3. AckInv(c)
    BY <1>1, InvParts
  <2>4. call[c].off \in Nat /\ total[c] \in Nat /\ ChunkSize(c) \in Nat
    BY <1>1, InvParts, ChunkFacts, CallFacts
  <2> DEFINE p == call[c].off + i - 1
  <2>5. /\ p \in Nat /\ p - call[c].off + 1 = i
        /\ p \in call[c].off .. call[c].off + total[c] - 1 + (IF Answered(c) THEN ChunkSize(c) ELSE 0)
    BY <2>4
  <2>6. a[1] = p /\ a[2] = call[c].data[i]
    BY <2>2
  <2> HIDE DEF p
  <2>7. Holds(c, p)
    BY <2>1, <2>3, <2>5, <2>6 DEF AckInv
  <2>8. Len(file) \in Nat
    BY <1>1 DEF Inv, TypeInv
  <2>9. p < Len(file) /\ file[p + 1] = a[2]
    BY <2>5, <2>6, <2>7 DEF Holds
  <2>10. Len(file) > p
    BY <2>5, <2>8, <2>9
  <2> QED
    BY <2>6, <2>9, <2>10
<1>2. Inv => AckedChunksStored
  BY <1>1
<1> QED
  BY <1>2, InvAlways, PTL

(* handle_write reports "stored content md5 verification failed" only if    *)
(* another request wrote or cut the chunk's range since it arrived: alone,  *)
(* a write is always read back as it was sent.                              *)
THEOREM StoredCorrect == Spec => []StoredMismatchMeansOverlap
<1>1. ASSUME Inv PROVE StoredMismatchMeansOverlap
  BY <1>1, InvParts DEF StoredInv, StoredMismatchMeansOverlap
<1>2. Inv => StoredMismatchMeansOverlap
  BY <1>1
<1> QED
  BY <1>2, InvAlways, PTL

(* httpfs_read_file returns every sampled byte that had been acknowledged   *)
(* before it started, in its place: chunks are asked for at the right       *)
(* offsets and joined in order, and a short chunk ends the read only where  *)
(* nothing acknowledged follows.                                            *)
THEOREM ReadCorrect == Spec => []ReadAfterWrite
<1>1. ASSUME Inv PROVE ReadAfterWrite
  <2> SUFFICES ASSUME NEW c \in Client, call[c].op = "read", st[c] = "ok", cut = -1,
                      NEW a \in acked[c], Sampled(a[1]), a[1] >= call[c].off,
                      a[1] < call[c].off + call[c].size,
                      NEW d \in Client, call[d].op = "write", a \in AckedBytes(d), Private(d, a[1])
               PROVE  a[1] - call[c].off < Len(buf[c]) /\ buf[c][a[1] - call[c].off + 1] = a[2]
    BY DEF ReadAfterWrite
  <2> DEFINE p == a[1]
  <2>1. PICK i \in 1 .. total[d] : a = <<call[d].off + i - 1, call[d].data[i]>>
    BY DEF AckedBytes
  <2>2. \A e \in Client : /\ call[e].off \in Nat /\ call[e].size \in Nat /\ total[e] \in Nat
                          /\ total[e] <= call[e].size
    BY <1>1, InvParts, ChunkFacts, CallFacts DEF CallInv
  <2>3. p \in Nat
    BY <2>1, <2>2
  <2>4. /\ p >= call[c].off /\ p < call[c].off + call[c].size
        /\ Private(d, p) /\ Sampled(p)
    OBVIOUS
  <2> HIDE DEF p
  <2>5. Sole(p)
    <3>1. ASSUME NEW e \in Client, call[e].op = "write",
                 p \in call[e].off .. call[e].off + call[e].size - 1
          PROVE  e = d
      <4>1. p >= call[e].off /\ p < call[e].off + call[e].size
        BY <2>2, <2>3, <3>1
      <4> QED
        BY <2>4, <3>1, <4>1 DEF Private
    <3> QED
      BY <3>1 DEF Sole
  <2>6. p \in call[c].off .. call[c].off + call[c].size - 1
    BY <2>2, <2>3, <2>4
  <2>7. Due(c, a)
    BY <2>4, <2>5, <2>6 DEF Due, p
  <2>8. p < ChunkOffset(c) /\ buf[c][p - call[c].off + 1] = a[2]
    BY <1>1, <2>7, InvParts DEF ReadInv, p
  <2>9. Len(buf[c]) = total[c] /\ ChunkOffset(c) = call[c].off + total[c]
    BY <1>1, InvParts DEF CallInv, ChunkOffset
  <2>10. p - call[c].off < Len(buf[c])
    BY <2>2, <2>3, <2>8, <2>9
  <2> QED
    BY <2>8, <2>10 DEF p
<1>2. Inv => ReadAfterWrite
  BY <1>1
<1> QED
  BY <1>2, InvAlways, PTL

(* A write whose body does not match its MD5 header leaves the file alone:  *)
(* a step changes the file only as a truncate, or as a pwrite of bytes that *)
(* agree with the header.                                                   *)
THEOREM RejectedCorrect == Spec => RejectedWriteLeavesFile
<1> DEFINE Allowed ==
       file' # file =>
         \E c \in Client :
            \/ call[c].op = "truncate" /\ rq[c].pc = "sent" /\ rq'[c].pc = "reply"
            \/ /\ rq[c].pc = "pwrite" /\ rq'[c].done > rq[c].done
               /\ SparseMd5(rq[c].data, rq[c].off) = rq[c].md5
<1>1. ASSUME Inv, [Next]_vars, file' # file PROVE Allowed
  <2>1. PICK c \in Client : Pwrite(c) \/ HandleTruncate(c)
    <3>1. PICK c \in Client : ClientStep(c) \/ ServerStep(c)
      BY <1>1 DEF Next, Finished, Lose, vars
    <3>2. ~ClientStep(c)
      BY <1>1 DEF ClientStep, Start, SendRequest, RequestFails, ReplyError, ReplyWrite, ReplyRead,
         ReplyTruncate
    <3>3. ServerStep(c) => Pwrite(c) \/ HandleTruncate(c)
      BY <1>1 DEF ServerStep, ArriveWrite, HandlerFails, Verify, HandleRead
    <3> QED
      BY <3>1, <3>2, <3>3
  <2>2. RequestInv(c) /\ rq \in [Client -> Request] /\ rq[c] \in Request
    BY <1>1, InvParts DEF TypeInv
  <2>3. CASE HandleTruncate(c)
    <3>1. rq[c].pc = "sent" /\ call[c].op = "truncate"
      BY <2>3 DEF HandleTruncate
    <3>2. rq'[c].pc = "reply"
      <4> DEFINE r == [NoReply EXCEPT !.ok = TRUE]
      <4>1. rq' = [rq EXCEPT ![c] = [rq[c] EXCEPT !.pc = "reply", !.reply = r]]
        BY <2>3 DEF HandleTruncate, Respond
      <4> HIDE DEF r
      <4>2. [rq[c] EXCEPT !.pc = "reply", !.reply = r].pc = "reply"
        BY <2>2 DEF Request
      <4> QED
        BY <2>2, <4>1, <4>2
    <3> QED
      BY <3>1, <3>2
  <2>4. CASE Pwrite(c)
    <3>1. rq[c].pc = "pwrite"
      BY <2>4 DEF Pwrite
    <3>2. SparseMd5(rq[c].data, rq[c].off) = rq[c].md5
      BY <2>2, <3>1 DEF RequestInv
    <3>3. PICK n \in 1 .. Len(rq[c].data) - rq[c].done :
             rq' = [rq EXCEPT ![c].done = rq[c].done + n,
                              ![c].pc = IF rq[c].done + n = Len(rq[c].data) THEN "verify"
                                                                           ELSE "pwrite"]
      BY <2>4 DEF Pwrite
    <3>4. rq[c].done \in Nat /\ rq[c].data \in Seq(Byte)
      BY <2>2 DEF Request
    <3>5. n \in Nat /\ n > 0
      <4>1. Len(rq[c].data) \in Nat
        BY <3>4
      <4> QED
        BY <3>4, <4>1
    <3> DEFINE k == IF rq[c].done + n = Len(rq[c].data) THEN "verify" ELSE "pwrite"
    <3>6. rq'[c].done = rq[c].done + n
      <4>1. rq' = [rq EXCEPT ![c] = [rq[c] EXCEPT !.done = rq[c].done + n, !.pc = k]]
        BY <3>3
      <4> HIDE DEF k
      <4>2. [rq[c] EXCEPT !.done = rq[c].done + n, !.pc = k].done = rq[c].done + n
        BY <2>2 DEF Request
      <4> QED
        BY <2>2, <4>1, <4>2
    <3>7. rq'[c].done > rq[c].done
      BY <3>4, <3>5, <3>6
    <3> QED
      BY <3>1, <3>2, <3>7
  <2> QED
    BY <2>1, <2>3, <2>4
<1>2. Inv /\ [Next]_vars => [Allowed]_vars
  BY <1>1
<1> QED
  BY <1>2, InvAlways, PTL DEF Spec, RejectedWriteLeavesFile

-----------------------------------------------------------------------------
(* ChunkIo implements FileService: every step of a client, a handler or the *)
(* network is a step of the service on the mapped state, or none.           *)

(* A step of c changes what is mapped of c alone. *)
LEMMA Mapped ==
    ASSUME NEW c \in Client, call' = call,
           \A d \in Client : d # c => st'[d] = st[d] /\ rq'[d] = rq[d]
    PROVE  /\ [d \in Client |-> Outcome(d)]' = [[d \in Client |-> Outcome(d)] EXCEPT ![c] = Outcome(c)']
           /\ [d \in Client |-> AnswerOf(d)]' = [[d \in Client |-> AnswerOf(d)] EXCEPT ![c] = AnswerOf(c)']
<1>1. \A d \in Client : d # c => Outcome(d)' = Outcome(d) /\ AnswerOf(d)' = AnswerOf(d)
  BY DEF Outcome, Returned, AnswerOf
<1> QED
  BY <1>1

(* A step of c that shows neither in its outcome nor in its answer. *)
LEMMA HiddenStep ==
    ASSUME NEW c \in Client, UNCHANGED <<file, call, total, buf>>,
           \A d \in Client : d # c => st'[d] = st[d] /\ rq'[d] = rq[d],
           Outcome(c)' = Outcome(c), AnswerOf(c)' = AnswerOf(c)
    PROVE  UNCHANGED Service!fvars
<1>1. /\ [d \in Client |-> Outcome(d)]' = [d \in Client |-> Outcome(d)]
      /\ [d \in Client |-> AnswerOf(d)]' = [d \in Client |-> AnswerOf(d)]
  BY Mapped
<1> QED
  BY <1>1 DEF Service!fvars

(* The chunk a call is at is the service's. *)
LEMMA ChunkMapped ==
    ASSUME Inv, NEW c \in Client
    PROVE  /\ Service!First(c) = ChunkOffset(c)
           /\ Service!Extent(c) = ChunkSize(c)
           /\ Service!Chunk(c) = ChunkOffset(c) .. ChunkOffset(c) + ChunkSize(c) - 1
<1>1. total[c] \in Nat /\ call[c].size \in Nat /\ total[c] <= call[c].size
  BY InvParts, ChunkFacts, CallFacts DEF CallInv
<1>2. Service!First(c) = ChunkOffset(c)
  BY DEF Service!First, ChunkOffset
<1>3. Service!Extent(c) = ChunkSize(c)
  BY <1>1, ChunkAssumption DEF Service!Extent, Service!Least, ChunkSize
<1> QED
  BY <1>2, <1>3 DEF Service!Chunk

LEMMA OutcomeFacts ==
    ASSUME NEW c \in Client
    PROVE  /\ st[c] \in {"idle", "send", "wait"} => Outcome(c) = "none"
           /\ st[c] \in {"ok", "err"} => Outcome(c) = st[c]
           /\ st[c] # "wait" \/ rq[c].pc # "reply" \/ ~rq[c].reply.ok => AnswerOf(c) = Service!Nothing
BY DEF Outcome, Returned, AnswerOf, Service!Nothing

LEMMA OutcomeFactsNext ==
    ASSUME NEW c \in Client
    PROVE  /\ st'[c] \in {"idle", "send", "wait"} => Outcome(c)' = "none"
           /\ st'[c] \in {"ok", "err"} => Outcome(c)' = st'[c]
           /\ st'[c] # "wait" \/ rq'[c].pc # "reply" \/ ~rq'[c].reply.ok => AnswerOf(c)' = Service!Nothing
BY DEF Outcome, Returned, AnswerOf, Service!Nothing

(* A call that returns with an error. *)
LEMMA FailStep ==
    ASSUME TypeInv, NEW c \in Client, st[c] \in {"send", "wait"}, Return(c, "err"),
           UNCHANGED <<file, call, total, buf, rq>>
    PROVE  Service!Fail(c)
<1>1. st'[c] = "err" /\ \A d \in Client : d # c => st'[d] = st[d]
  BY DEF TypeInv, Return
<1>2. /\ Outcome(c) = "none" /\ Outcome(c)' = "err" /\ AnswerOf(c)' = Service!Nothing
  BY <1>1, OutcomeFacts, OutcomeFactsNext
<1>3. /\ [d \in Client |-> Outcome(d)]' = [[d \in Client |-> Outcome(d)] EXCEPT ![c] = "err"]
      /\ [d \in Client |-> AnswerOf(d)]' = [[d \in Client |-> AnswerOf(d)] EXCEPT ![c] = Service!Nothing]
  BY <1>1, <1>2, Mapped
<1> QED
  BY <1>2, <1>3 DEF Service!Fail

LEMMA InitSimulated == Init => Service!FInit
<1> SUFFICES ASSUME Init PROVE Service!FInit
  OBVIOUS
<1>1. \A c \in Client : st[c] = "idle"
  BY DEF Init
<1>2. \A c \in Client : Outcome(c) = "none" /\ AnswerOf(c) = Service!Nothing
  BY <1>1, OutcomeFacts
<1>3. /\ [c \in Client |-> Outcome(c)] = [c \in Client |-> "none"]
      /\ [c \in Client |-> AnswerOf(c)] = [c \in Client |-> Service!Nothing]
  BY <1>2
<1> QED
  BY <1>3 DEF Init, Service!FInit

-----------------------------------------------------------------------------
(* The client's steps *)

LEMMA StartSimulated ==
    ASSUME Inv, NEW c \in Client, Start(c)
    PROVE  Service!Trivial(c) \/ UNCHANGED Service!fvars
<1>1. TypeInv
  BY DEF Inv
<1> DEFINE Empty == call[c].size = 0 /\ call[c].op # "truncate"
<1>2. /\ st[c] = "idle" /\ UNCHANGED <<file, call, total, buf, rq>>
      /\ st'[c] = (IF Empty THEN "ok" ELSE "send")
      /\ \A d \in Client : d # c => st'[d] = st[d]
  BY <1>1 DEF Start, TypeInv
<1>3. Outcome(c) = "none" /\ AnswerOf(c) = Service!Nothing /\ AnswerOf(c)' = Service!Nothing
  BY <1>2, OutcomeFacts, OutcomeFactsNext
<1>4. CASE Empty
  <2>1. Outcome(c)' = "ok"
    BY <1>2, <1>4, OutcomeFactsNext
  <2>2. /\ [d \in Client |-> Outcome(d)]' = [[d \in Client |-> Outcome(d)] EXCEPT ![c] = "ok"]
        /\ [d \in Client |-> AnswerOf(d)]' = [d \in Client |-> AnswerOf(d)]
    BY <1>2, <1>3, <2>1, Mapped
  <2> QED
    BY <1>2, <1>3, <1>4, <2>2 DEF Service!Trivial
<1>5. CASE ~Empty
  <2>1. Outcome(c)' = "none"
    BY <1>2, <1>5, OutcomeFactsNext
  <2> QED
    BY <1>2, <1>3, <2>1, HiddenStep
<1> QED
  BY <1>4, <1>5

LEMMA SendSimulated ==
    ASSUME Inv, NEW c \in Client, SendRequest(c)
    PROVE  UNCHANGED Service!fvars
<1>1. TypeInv /\ CallInv(c)
  BY InvParts
<1>2. /\ st[c] = "send" /\ st' = [st EXCEPT ![c] = "wait"] /\ rq' = [rq EXCEPT ![c] = Fresh(c)]
      /\ UNCHANGED <<file, call, total, buf>>
  BY DEF SendRequest, Fresh, Piece
<1>3. Fresh(c).pc = "sent"
  BY <1>1, FreshFacts
<1>4. /\ st'[c] = "wait" /\ rq'[c].pc = "sent"
      /\ \A d \in Client : d # c => st'[d] = st[d] /\ rq'[d] = rq[d]
  BY <1>1, <1>2, <1>3 DEF TypeInv
<1>5. /\ Outcome(c)' = Outcome(c) /\ AnswerOf(c)' = AnswerOf(c)
  BY <1>2, <1>4, OutcomeFacts, OutcomeFactsNext
<1> QED
  BY <1>2, <1>4, <1>5, HiddenStep

(* What a client that has a positive answer sees of it. *)
LEMMA AnswerMapped ==
    ASSUME Inv, NEW c \in Client, st[c] = "wait", rq[c].pc = "reply", rq[c].reply.ok
    PROVE  /\ Outcome(c) = "none" /\ Answered(c)
           /\ call[c].op = "read" => AnswerOf(c) = Service!Bytes(rq[c].reply.data)
           /\ call[c].op # "read" => AnswerOf(c) = Service!Stored
<1>1. Answered(c)
  <2>1. rq[c] \in Request
    BY InvParts DEF TypeInv
  <2>2. rq[c].reply.ok \in BOOLEAN
    BY <2>1 DEF Request, Reply
  <2> QED
    BY <2>2 DEF Answered
<1>2. call[c].op # "read" => rq[c].reply.data = <<>>
  BY <1>1, InvParts DEF AnswerInv
<1> QED
  BY <1>1, <1>2, OutcomeFacts DEF AnswerOf, Service!Bytes, Service!Stored

LEMMA ReplyWriteSimulated ==
    ASSUME Inv, NEW c \in Client, ReplyWrite(c)
    PROVE  Service!Acknowledge(c) \/ Service!Fail(c)
<1>1. TypeInv /\ CallInv(c)
  BY InvParts
<1> DEFINE n == ChunkSize(c)
           good == rq[c].reply.n = n /\ rq[c].reply.md5 = rq[c].md5
           how == IF total[c] + n < call[c].size THEN "send" ELSE "ok"
<1>2. /\ st[c] = "wait" /\ rq[c].pc = "reply" /\ rq[c].reply.ok /\ call[c].op = "write"
      /\ UNCHANGED <<file, call, buf, rq>>
  BY DEF ReplyWrite
<1>3. CASE ~good
  <2>1. total' = total /\ Return(c, "err")
    BY <1>3 DEF ReplyWrite
  <2> QED
    BY <1>1, <1>2, <2>1, FailStep
<1>4. CASE good
  <2>1. total' = [total EXCEPT ![c] = @ + n] /\ st' = [st EXCEPT ![c] = how]
    BY <1>4 DEF ReplyWrite, Return
  <2>2. /\ st'[c] = how /\ \A d \in Client : d # c => st'[d] = st[d]
    BY <1>1, <2>1 DEF TypeInv
  <2>3. AnswerOf(c) = Service!Stored
    BY <1>2, AnswerMapped
  <2>4. /\ n \in Nat /\ total[c] \in Nat /\ total[c] + n <= call[c].size /\ call[c].size \in Nat
        /\ Service!Extent(c) = n
    BY <1>1, ChunkFacts, CallFacts, ChunkMapped
  <2> HIDE DEF n
  <2>5. /\ AnswerOf(c)' = Service!Nothing
        /\ Outcome(c)' = (IF total[c] + n = call[c].size THEN "ok" ELSE "none")
    <3>1. AnswerOf(c)' = Service!Nothing
      BY <2>2, OutcomeFactsNext
    <3>2. Outcome(c)' = (IF total[c] + n < call[c].size THEN "none" ELSE "ok")
      BY <2>2, OutcomeFactsNext
    <3>3. (total[c] + n < call[c].size) <=> ~(total[c] + n = call[c].size)
      BY <2>4
    <3> QED
      BY <3>1, <3>2, <3>3
  <2>6. /\ [d \in Client |-> Outcome(d)]' =
              [[d \in Client |-> Outcome(d)] EXCEPT
                  ![c] = IF total[c] + n = call[c].size THEN "ok" ELSE "none"]
        /\ [d \in Client |-> AnswerOf(d)]' =
              [[d \in Client |-> AnswerOf(d)] EXCEPT ![c] = Service!Nothing]
    BY <1>2, <2>2, <2>5, Mapped
  <2>7. Service!Advance(c, n, total[c] + n = call[c].size)
    BY <1>2, <2>1, <2>6 DEF Service!Advance
  <2> QED
    BY <1>2, <2>3, <2>4, <2>7 DEF Service!Acknowledge
<1> QED
  BY <1>3, <1>4

LEMMA ReplyTruncateSimulated ==
    ASSUME Inv, NEW c \in Client, ReplyTruncate(c)
    PROVE  Service!Acknowledge(c)
<1>1. TypeInv
  BY InvParts
<1>2. /\ st[c] = "wait" /\ rq[c].pc = "reply" /\ rq[c].reply.ok /\ call[c].op = "truncate"
      /\ st' = [st EXCEPT ![c] = "ok"] /\ UNCHANGED <<file, call, total, buf, rq>>
  BY DEF ReplyTruncate, Return
<1>3. /\ st'[c] = "ok" /\ \A d \in Client : d # c => st'[d] = st[d]
  BY <1>1, <1>2 DEF TypeInv
<1>4. /\ AnswerOf(c) = Service!Stored /\ AnswerOf(c)' = Service!Nothing /\ Outcome(c)' = "ok"
  BY <1>2, <1>3, AnswerMapped, OutcomeFactsNext
<1>5. /\ [d \in Client |-> Outcome(d)]' = [[d \in Client |-> Outcome(d)] EXCEPT ![c] = "ok"]
      /\ [d \in Client |-> AnswerOf(d)]' = [[d \in Client |-> AnswerOf(d)] EXCEPT ![c] = Service!Nothing]
  BY <1>2, <1>3, <1>4, Mapped
<1>6. total' = [total EXCEPT ![c] = @ + 0]
  BY <1>1, <1>2 DEF TypeInv
<1>7. Service!Advance(c, 0, TRUE)
  BY <1>2, <1>5, <1>6 DEF Service!Advance
<1> QED
  BY <1>2, <1>4, <1>7 DEF Service!Acknowledge

(* The part that was joined to the buffer. *)
LEMMA JoinedPart ==
    ASSUME NEW x \in Seq(Byte), NEW y \in Seq(Byte), NEW m \in Nat, Len(x) = m
    PROVE  SubSeq(x \o y, m + 1, m + Len(y)) = y
<1> DEFINE s == x \o y
           n == Len(y)
<1>1. n \in Nat
  OBVIOUS
<1>2. /\ s \in Seq(Byte) /\ Len(s) = m + n
      /\ \A i \in 1 .. m + n : s[i] = IF i <= m THEN x[i] ELSE y[i - m]
  BY JoinFacts
<1> HIDE DEF s
<1> DEFINE t == SubSeq(s, m + 1, m + n)
<1>3. /\ t \in Seq(Byte) /\ Len(t) = n
      /\ \A i \in 1 .. n : t[i] = s[m + i]
  <2> HIDE DEF n
  <2>1. m + n <= Len(s)
    BY <1>1, <1>2
  <2> QED
    BY <1>1, <1>2, <2>1, PieceFacts
<1>4. \A i \in 1 .. n : t[i] = y[i]
  <2> SUFFICES ASSUME NEW i \in 1 .. n PROVE t[i] = y[i]
    OBVIOUS
  <2> HIDE DEF t, n
  <2>1. m + i \in 1 .. m + n /\ ~(m + i <= m) /\ (m + i) - m = i
    BY <1>1
  <2>2. s[m + i] = y[(m + i) - m]
    BY <1>2, <2>1
  <2> QED
    BY <1>3, <2>1, <2>2
<1> HIDE DEF t
<1>5. t = y
  BY <1>3, <1>4, SeqEqual
<1> QED
  BY <1>5 DEF t, s

LEMMA ReplyReadSimulated ==
    ASSUME Inv, NEW c \in Client, ReplyRead(c)
    PROVE  Service!Deliver(c) \/ Service!Fail(c)
<1>1. TypeInv /\ CallInv(c) /\ RequestInv(c) /\ AnswerInv(c)
  BY InvParts
<1> DEFINE r == rq[c].reply.data
           k == ChunkSize(c)
<1>2. /\ st[c] = "wait" /\ rq[c].pc = "reply" /\ rq[c].reply.ok /\ call[c].op = "read"
      /\ UNCHANGED <<file, call, rq>>
  BY DEF ReplyRead
<1>3. PICK body \in Delivered(r) :
         IF Len(body) <= k /\ SparseMd5(body, rq[c].off) = rq[c].reply.md5
           THEN /\ buf' = [buf EXCEPT ![c] = @ \o body]
                /\ total' = [total EXCEPT ![c] = @ + Len(body)]
                /\ Return(c, IF Len(body) < k \/ total[c] + Len(body) = call[c].size
                             THEN "ok" ELSE "send")
           ELSE UNCHANGED <<buf, total>> /\ Return(c, "err")
  BY DEF ReplyRead
<1> DEFINE n == Len(body)
           good == n <= k /\ SparseMd5(body, rq[c].off) = rq[c].reply.md5
           ends == n < k \/ total[c] + n = call[c].size
<1>4. CASE ~good
  <2>1. UNCHANGED <<buf, total>> /\ Return(c, "err")
    BY <1>3, <1>4
  <2> QED
    BY <1>1, <1>2, <2>1, FailStep
<1>5. CASE good
  <2>1. /\ buf' = [buf EXCEPT ![c] = buf[c] \o body]
        /\ total' = [total EXCEPT ![c] = @ + n]
        /\ st' = [st EXCEPT ![c] = IF ends THEN "ok" ELSE "send"]
    BY <1>3, <1>5 DEF Return
  <2>2. rq[c] \in Request /\ r \in Seq(Byte) /\ rq[c].off \in Nat
    BY <1>1 DEF TypeInv, Request, Reply
  <2>3. body \in Seq(Byte) /\ n = Len(r) /\ n \in Nat
    <3>1. body \in Seq(Byte) /\ Len(body) = Len(r)
      BY <2>2, DeliveredFacts
    <3> QED
      BY <3>1
  <2>4. Answered(c) /\ AnswerOf(c) = Service!Bytes(r)
    BY <1>2, AnswerMapped
  <2>5. rq[c].off = ChunkOffset(c) /\ Service!First(c) = ChunkOffset(c) /\ Service!Extent(c) = k
    BY <1>1, <1>2, ChunkMapped DEF RequestInv, Live
  <2>6. \A i \in 1 .. n : Sampled(ChunkOffset(c) + i - 1) => body[i] = r[i]
    <3>1. SparseMd5(body, rq[c].off) = SparseMd5(r, rq[c].off)
      BY <1>1, <1>2, <1>5, <2>4 DEF AnswerInv
    <3>2. Len(body) = Len(r) /\ Len(body) <= Len(r)
      BY <2>2, <2>3
    <3>3. \A i \in 1 .. Len(r) : Sampled(rq[c].off + i - 1) => i <= Len(body) /\ body[i] = r[i]
      BY <2>2, <2>3, <3>1, <3>2, SameMd5
    <3> QED
      BY <2>3, <2>5, <3>3
  <2>7. buf[c] \in Seq(Byte) /\ Len(buf[c]) = total[c] /\ total[c] \in Nat
    BY <1>1, <1>2 DEF TypeInv, CallInv
  <2>8. /\ Len(buf[c] \o body) = total[c] + n
        /\ \A i \in 1 .. total[c] + n :
              (buf[c] \o body)[i] = IF i <= total[c] THEN buf[c][i] ELSE body[i - total[c]]
    <3>1. body \in Seq(Byte)
      BY <2>3
    <3> QED
      BY <2>7, <3>1, JoinFacts
  <2>9. SubSeq(buf[c] \o body, total[c] + 1, total[c] + n) = body
    BY <2>3, <2>7, JoinedPart
  <2>10. buf'[c] = buf[c] \o body
    BY <1>1, <2>1 DEF TypeInv
  <2> HIDE DEF n, r, k, ends
  <2>11. Len(buf'[c]) = total[c] + n
    BY <2>8, <2>10
  <2>12. buf' = [buf EXCEPT ![c] = @ \o SubSeq(buf'[c], total[c] + 1, total[c] + n)]
    BY <2>1, <2>9, <2>10
  <2>13. \A i \in 1 .. n : Service!IsSampled(ChunkOffset(c) + i - 1) => buf'[c][total[c] + i] = r[i]
    <3> SUFFICES ASSUME NEW i \in 1 .. n, Sampled(ChunkOffset(c) + i - 1)
                 PROVE  buf'[c][total[c] + i] = r[i]
      BY DEF Service!IsSampled, Sampled
    <3>1. /\ total[c] + i \in 1 .. total[c] + n /\ ~(total[c] + i <= total[c])
          /\ (total[c] + i) - total[c] = i
      <4>1. n \in Nat /\ total[c] \in Nat
        BY <2>3, <2>7
      <4> QED
        BY <4>1
    <3>2. (buf[c] \o body)[total[c] + i] = body[(total[c] + i) - total[c]]
      BY <2>8, <3>1
    <3> QED
      BY <2>6, <2>10, <3>1, <3>2
  <2>14. /\ st'[c] = (IF ends THEN "ok" ELSE "send")
         /\ \A d \in Client : d # c => st'[d] = st[d]
    BY <1>1, <2>1 DEF TypeInv
  <2>15. /\ AnswerOf(c)' = Service!Nothing
         /\ Outcome(c)' = (IF ends THEN "ok" ELSE "none")
    BY <2>14, OutcomeFactsNext
  <2>16. /\ [d \in Client |-> Outcome(d)]' =
              [[d \in Client |-> Outcome(d)] EXCEPT ![c] = IF ends THEN "ok" ELSE "none"]
         /\ [d \in Client |-> AnswerOf(d)]' =
              [[d \in Client |-> AnswerOf(d)] EXCEPT ![c] = Service!Nothing]
    BY <1>2, <2>14, <2>15, Mapped
  <2>17. Service!Advance(c, n, ends)
    BY <1>2, <2>1, <2>16 DEF Service!Advance
  <2>18. AnswerOf(c).kind = "bytes" /\ AnswerOf(c).data = r
    BY <2>4 DEF Service!Bytes
  <2>19. n = Len(r)
    BY <2>3
  <2>20. Service!Advance(c, n, n < Service!Extent(c) \/ total[c] + n = call[c].size)
    BY <2>5, <2>17 DEF ends
  <2> QED
    BY <2>5, <2>11, <2>12, <2>13, <2>18, <2>19, <2>20 DEF Service!Deliver
<1> QED
  BY <1>4, <1>5

-----------------------------------------------------------------------------
(* The server's steps *)

LEMMA Responded ==
    ASSUME TypeInv, NEW c \in Client, NEW r, Respond(c, r)
    PROVE  /\ rq'[c].pc = "reply" /\ rq'[c].reply = r
           /\ \A d \in Client : d # c => rq'[d] = rq[d]
<1> DEFINE q == [rq[c] EXCEPT !.pc = "reply", !.reply = r]
<1>1. rq' = [rq EXCEPT ![c] = q]
  BY DEF Respond
<1>2. rq \in [Client -> Request] /\ rq[c] \in Request
  BY DEF TypeInv
<1>3. q.pc = "reply" /\ q.reply = r
  BY <1>2 DEF Request
<1> HIDE DEF q
<1> QED
  BY <1>1, <1>2, <1>3

(* A handler's step that gives its client no positive answer. *)
LEMMA QuietStep ==
    ASSUME NEW c \in Client, Busy(c), UNCHANGED <<file, call, st, total, buf>>,
           \A d \in Client : d # c => rq'[d] = rq[d],
           st[c] # "wait" \/ rq'[c].pc # "reply" \/ ~rq'[c].reply.ok
    PROVE  UNCHANGED Service!fvars
<1>1. AnswerOf(c) = Service!Nothing /\ AnswerOf(c)' = Service!Nothing
  BY OutcomeFacts, OutcomeFactsNext DEF Busy
<1>2. Outcome(c)' = Outcome(c)
  BY DEF Outcome, Returned
<1> QED
  BY <1>1, <1>2, HiddenStep

(* The answer of a handler whose client waits for it. *)
LEMMA AnswerStep ==
    ASSUME Inv, NEW c \in Client, Busy(c), st[c] = "wait", NEW r \in Reply, r.ok = TRUE,
           Respond(c, r), UNCHANGED <<call, st, total, buf>>, NEW a,
           a = [kind |-> IF call[c].op = "read" THEN "bytes" ELSE "done", data |-> r.data]
    PROVE  Service!Answer(c, a)
<1>1. TypeInv
  BY DEF Inv
<1>2. /\ rq'[c].pc = "reply" /\ rq'[c].reply = r
      /\ \A d \in Client : d # c => rq'[d] = rq[d]
  BY <1>1, Responded
<1>3. Outcome(c) = "none" /\ AnswerOf(c) = Service!Nothing
  BY OutcomeFacts DEF Busy
<1>4. AnswerOf(c)' = a /\ Outcome(c)' = Outcome(c)
  BY <1>2 DEF AnswerOf, Outcome, Returned
<1>5. /\ [d \in Client |-> Outcome(d)]' = [d \in Client |-> Outcome(d)]
      /\ [d \in Client |-> AnswerOf(d)]' = [[d \in Client |-> AnswerOf(d)] EXCEPT ![c] = a]
  BY <1>2, <1>4, Mapped
<1> QED
  BY <1>3, <1>5 DEF Service!Answer

LEMMA ArriveSimulated ==
    ASSUME Inv, NEW c \in Client, ArriveWrite(c) \/ HandlerFails(c) \/ Lose(c)
    PROVE  UNCHANGED Service!fvars
<1>1. TypeInv /\ rq \in [Client -> Request] /\ rq[c] \in Request
  BY DEF Inv, TypeInv
<1>2. Busy(c) /\ UNCHANGED <<file, call, st, total, buf>>
  BY DEF ArriveWrite, HandlerFails, Lose, Busy
<1>3. ASSUME NEW w \in {"md5", "errno"}, Respond(c, ErrorReply(w))
      PROVE  UNCHANGED Service!fvars
  BY <1>1, <1>2, <1>3, Responded, ErrorReplyType, QuietStep
<1>4. CASE HandlerFails(c)
  BY <1>3, <1>4 DEF HandlerFails
<1>5. CASE Lose(c)
  <2>1. /\ rq'[c].pc = "lost" /\ \A d \in Client : d # c => rq'[d] = rq[d]
    BY <1>1, <1>5 DEF Lose, Request
  <2> QED
    BY <1>2, <2>1, QuietStep
<1>6. CASE ArriveWrite(c)
  <2>1. PICK body \in Delivered(rq[c].data) :
           \/ rq' = [rq EXCEPT ![c].data = body, ![c].pc = "pwrite"]
           \/ Respond(c, ErrorReply("md5"))
    BY <1>6 DEF ArriveWrite
  <2>2. CASE rq' = [rq EXCEPT ![c].data = body, ![c].pc = "pwrite"]
    <3>1. /\ rq'[c].pc = "pwrite" /\ \A d \in Client : d # c => rq'[d] = rq[d]
      <4> DEFINE q == [rq[c] EXCEPT !.data = body, !.pc = "pwrite"]
      <4>1. rq' = [rq EXCEPT ![c] = q]
        BY <2>2
      <4>2. q.pc = "pwrite"
        BY <1>1 DEF Request
      <4> HIDE DEF q
      <4> QED
        BY <1>1, <4>1, <4>2
    <3> QED
      BY <1>2, <3>1, QuietStep
  <2> QED
    BY <1>3, <2>1, <2>2
<1> QED
  BY <1>4, <1>5, <1>6

LEMMA HandleReadSimulated ==
    ASSUME Inv, NEW c \in Client, HandleRead(c)
    PROVE  Service!Fetch(c) \/ UNCHANGED Service!fvars
<1>1. TypeInv /\ CallInv(c) /\ RequestInv(c) /\ rq[c] \in Request /\ file \in Seq(Byte)
  BY InvParts DEF TypeInv
<1> DEFINE off  == rq[c].off
           size == rq[c].size
           data == Pread(file, off, size)
           m    == SparseMd5(data, off)
           good == [NoReply EXCEPT !.ok = TRUE, !.data = data, !.md5 = m]
<1>2. /\ rq[c].pc = "sent" /\ call[c].op = "read" /\ Respond(c, good)
      /\ UNCHANGED <<file, call, st, total, buf>>
  BY DEF HandleRead
<1>3. Busy(c) /\ Live(c)
  BY <1>2 DEF Busy, Live
<1>4. off \in Nat /\ size \in Nat /\ off = ChunkOffset(c) /\ size = ChunkSize(c)
  BY <1>1, <1>2, <1>3 DEF RequestInv, Request
<1>5. CASE st[c] # "wait"
  BY <1>1, <1>2, <1>3, <1>5, Responded, QuietStep
<1>6. CASE st[c] = "wait"
  <2>1. data \in Seq(Byte)
    <3> HIDE DEF off, size, m, good
    <3> QED
      BY <1>1, <1>4, PreadFacts
  <2>2. m \in Digest
    BY <1>4, <2>1 DEF Digest
  <2>3. good \in Reply /\ good.ok = TRUE /\ good.data = data
    <3> HIDE DEF m, data
    <3>1. NoReply \in Reply
      BY DEF NoReply, Reply, Digest
    <3> QED
      BY <2>1, <2>2, <3>1 DEF Reply
  <2>4. data = SubSeq(file, Service!First(c) + 1,
                      Service!Least(Service!First(c) + Service!Extent(c), Len(file)))
    BY <1>4, ChunkMapped DEF Pread, Service!Least
  <2> HIDE DEF good, data
  <2>5. Service!Answer(c, Service!Bytes(data))
    <3>1. Service!Bytes(data) = [kind |-> IF call[c].op = "read" THEN "bytes" ELSE "done",
                                 data |-> good.data]
      BY <1>2, <2>3 DEF Service!Bytes
    <3> QED
      BY <1>2, <1>3, <1>6, <2>3, <3>1, AnswerStep
  <2> QED
    BY <1>2, <2>4, <2>5 DEF Service!Fetch
<1> QED
  BY <1>5, <1>6

LEMMA HandleTruncateSimulated ==
    ASSUME Inv, NEW c \in Client, HandleTruncate(c)
    PROVE  Service!Cut(c) \/ Service!LateCut(c)
<1>1. TypeInv /\ CallInv(c) /\ RequestInv(c) /\ rq[c] \in Request /\ file \in Seq(Byte)
  BY InvParts DEF TypeInv
<1> DEFINE good == [NoReply EXCEPT !.ok = TRUE]
<1>2. /\ rq[c].pc = "sent" /\ call[c].op = "truncate" /\ Respond(c, good)
      /\ file' = Resize(file, rq[c].size)
      /\ UNCHANGED <<call, st, total, buf>>
  BY DEF HandleTruncate
<1>3. Busy(c) /\ Live(c)
  BY <1>2 DEF Busy, Live
<1>4. rq[c].size = call[c].size /\ call[c].size \in Nat
  BY <1>1, <1>2, <1>3, CallFacts DEF RequestInv
<1>5. Service!Resized(c)
  <2>1. Len(file) \in Nat
    BY <1>1
  <2>2. \A i \in 1 .. call[c].size :
           Service!At(file, i - 1) = IF i <= Len(file) THEN file[i] ELSE 0
    <3> SUFFICES ASSUME NEW i \in 1 .. call[c].size
                 PROVE  Service!At(file, i - 1) = IF i <= Len(file) THEN file[i] ELSE 0
      OBVIOUS
    <3>1. (i - 1 < Len(file) <=> i <= Len(file)) /\ i - 1 + 1 = i
      BY <1>4, <2>1
    <3> QED
      BY <3>1 DEF Service!At
  <2> QED
    BY <1>2, <1>4, <2>2 DEF Service!Resized, Resize
<1>6. good \in Reply /\ good.ok = TRUE /\ good.data = <<>>
  <2>1. NoReply \in Reply /\ NoReply.data = <<>>
    BY DEF NoReply, Reply, Digest
  <2> QED
    BY <2>1 DEF Reply
<1> HIDE DEF good
<1>7. CASE st[c] = "wait"
  <2>1. Service!Stored = [kind |-> IF call[c].op = "read" THEN "bytes" ELSE "done", data |-> good.data]
    BY <1>2, <1>6 DEF Service!Stored
  <2>2. Service!Answer(c, Service!Stored)
    BY <1>2, <1>3, <1>6, <1>7, <2>1, AnswerStep
  <2> QED
    BY <1>2, <1>5, <2>2 DEF Service!Cut
<1>8. CASE st[c] = "err"
  <2>1. Outcome(c) = "err" /\ Outcome(c)' = Outcome(c)
    BY <1>2, <1>8, OutcomeFacts, OutcomeFactsNext
  <2>2. AnswerOf(c)' = AnswerOf(c)
    BY <1>2, <1>8, OutcomeFacts, OutcomeFactsNext
  <2>3. \A d \in Client : d # c => rq'[d] = rq[d]
    BY <1>1, <1>2, Responded
  <2>4. /\ [d \in Client |-> Outcome(d)]' = [d \in Client |-> Outcome(d)]
        /\ [d \in Client |-> AnswerOf(d)]' = [d \in Client |-> AnswerOf(d)]
    BY <1>2, <2>1, <2>2, <2>3, Mapped
  <2> QED
    BY <1>2, <1>5, <2>1, <2>4 DEF Service!LateCut
<1> QED
  BY <1>1, <1>3, <1>7, <1>8 DEF CallInv

LEMMA VerifySimulated ==
    ASSUME Inv, NEW c \in Client, Verify(c)
    PROVE  Service!Confirm(c) \/ UNCHANGED Service!fvars
<1>1. /\ TypeInv /\ CallInv(c) /\ RequestInv(c)
  BY InvParts
<1> DEFINE off  == rq[c].off
           len  == Len(rq[c].data)
           back == Pread(file, off, len)
           m    == SparseMd5(back, off)
           good == [NoReply EXCEPT !.ok = TRUE, !.n = len, !.md5 = m]
<1>2. /\ rq[c].pc = "verify" /\ UNCHANGED <<file, call, st, total, buf>>
      /\ \/ Respond(c, ErrorReply("errno"))
         \/ Respond(c, ErrorReply("stored"))
         \/ Respond(c, good) /\ m = rq[c].md5
  BY DEF Verify
<1>3. Busy(c) /\ Live(c)
  BY <1>2 DEF Busy, Live
<1>4. ASSUME NEW w \in {"errno", "stored"}, Respond(c, ErrorReply(w))
      PROVE  UNCHANGED Service!fvars
  <2>1. /\ rq'[c].pc = "reply" /\ rq'[c].reply = ErrorReply(w)
        /\ \A d \in Client : d # c => rq'[d] = rq[d]
    BY <1>1, <1>4, Responded
  <2>2. ~rq'[c].reply.ok
    BY <2>1, ErrorReplyType
  <2> QED
    BY <1>2, <1>3, <2>1, <2>2, QuietStep
<1>5. CASE Respond(c, good) /\ st[c] # "wait"
  BY <1>1, <1>2, <1>3, <1>5, Responded, QuietStep
<1>6. CASE Respond(c, good) /\ m = rq[c].md5 /\ st[c] = "wait"
  <2>1. /\ call[c].op = "write" /\ len = ChunkSize(c) /\ off = ChunkOffset(c)
        /\ rq[c].md5 = SparseMd5(Piece(c), off)
    BY <1>1, <1>2, <1>3 DEF RequestInv
  <2>2. file \in Seq(Byte) /\ off \in Nat /\ len \in Nat /\ Len(file) \in Nat
    BY <1>1, <2>1, ChunkFacts DEF TypeInv
  <2>p. /\ back \in Seq(Byte) /\ Len(back) <= len
        /\ \A i \in 1 .. Len(back) : off + i <= Len(file) /\ back[i] = file[off + i]
    <3>1. file \in Seq(Byte) /\ off \in Nat /\ len \in Nat
      BY <2>2
    <3> HIDE DEF off, len, m, good, back
    <3>2. Pread(file, off, len) \in Seq(Byte) /\ Len(Pread(file, off, len)) <= len
      BY <3>1, PreadFacts
    <3>3. \A i \in 1 .. Len(Pread(file, off, len)) :
             off + i <= Len(file) /\ Pread(file, off, len)[i] = file[off + i]
      BY <3>1, PreadFacts
    <3> QED
      BY <3>2, <3>3 DEF back
  <2> HIDE DEF back
  <2>3. back \in Seq(Byte)
    BY <2>p
  <2>4. Len(back) <= len
    BY <2>p
  <2>5. \A i \in 1 .. Len(back) : off + i <= Len(file) /\ back[i] = file[off + i]
    BY <2>p
  <2>6. m \in Digest
    BY <2>2, <2>3 DEF Digest
  <2>7. good \in Reply /\ good.ok = TRUE /\ good.data = <<>>
    <3> HIDE DEF m, len
    <3>1. NoReply \in Reply /\ NoReply.data = <<>>
      BY DEF NoReply, Reply, Digest
    <3> QED
      BY <2>2, <2>6, <3>1 DEF Reply
  <2>8. /\ Piece(c) \in Seq(Byte) /\ Len(Piece(c)) = ChunkSize(c)
        /\ \A i \in 1 .. ChunkSize(c) : Piece(c)[i] = call[c].data[total[c] + i]
        /\ off = call[c].off + total[c] /\ call[c].off \in Nat /\ total[c] \in Nat
    BY <1>1, <2>1, ChunkFacts, CallFacts
  <2>9. \A i \in 1 .. len : Sampled(off + i - 1) => i <= Len(back) /\ back[i] = Piece(c)[i]
    <3>1. Len(back) <= Len(Piece(c)) /\ SparseMd5(back, off) = SparseMd5(Piece(c), off)
      BY <1>6, <2>1, <2>4, <2>8
    <3>2. \A i \in 1 .. Len(Piece(c)) : Sampled(off + i - 1) => i <= Len(back) /\ back[i] = Piece(c)[i]
      BY <2>2, <2>3, <2>8, <3>1, SameMd5
    <3> QED
      BY <2>1, <2>8, <3>2
  <2>10. Service!Answer(c, Service!Stored)
    <3> HIDE DEF good
    <3>1. Service!Stored = [kind |-> IF call[c].op = "read" THEN "bytes" ELSE "done",
                            data |-> good.data]
      BY <2>1, <2>7 DEF Service!Stored
    <3> QED
      BY <1>2, <1>3, <1>6, <2>7, <3>1, AnswerStep
  <2>11. ASSUME NEW p \in off .. off + len - 1, Service!IsSampled(p)
         PROVE  p < Len(file) /\ Service!At(file, p) = Service!Wanted(c, p)
    <3> DEFINE i == p - off + 1
    <3>1. Len(back) \in Nat
      BY <2>3
    <3>2. Sampled(p)
      BY <2>11 DEF Sampled, Service!IsSampled
    <3>0. /\ off = call[c].off + total[c] /\ call[c].off \in Nat /\ total[c] \in Nat
          /\ off \in Nat /\ len \in Nat
      BY <2>2, <2>8
    <3> HIDE DEF off, len, back
    <3>3. /\ i \in 1 .. len /\ off + i - 1 = p /\ off + i = p + 1 /\ p \in Nat
          /\ total[c] + i = p - call[c].off + 1
      BY <3>0
    <3>4. i <= Len(back) /\ back[i] = Piece(c)[i]
      BY <2>9, <3>2, <3>3
    <3>5. i \in 1 .. Len(back)
      <4> HIDE DEF i
      <4> QED
        BY <2>2, <3>1, <3>3, <3>4
    <3>6. p + 1 <= Len(file) /\ back[i] = file[p + 1]
      BY <2>5, <3>3, <3>5
    <3>7. Piece(c)[i] = call[c].data[p - call[c].off + 1]
      <4>1. Piece(c)[i] = call[c].data[total[c] + i]
        <5> HIDE DEF i
        <5> QED
          BY <2>1, <2>8, <3>3
      <4> QED
        BY <3>3, <4>1
    <3>8. p < Len(file)
      <4>1. p \in Nat /\ p + 1 <= Len(file) /\ Len(file) \in Nat
        BY <2>2, <3>3, <3>6
      <4> QED
        BY <4>1
    <3> QED
      BY <3>4, <3>6, <3>7, <3>8 DEF Service!At, Service!Wanted
  <2>12. Service!Chunk(c) = off .. off + len - 1
    BY <2>1, ChunkMapped
  <2> QED
    BY <1>2, <2>1, <2>10, <2>11, <2>12 DEF Service!Confirm
<1> QED
  BY <1>2, <1>4, <1>5, <1>6

(* A pwrite stores bytes of the chunk that agree with the MD5 the client    *)
(* sent for it, and fills a hole with zeros.                                *)
LEMMA PwriteSimulated ==
    ASSUME Inv, NEW c \in Client, Pwrite(c)
    PROVE  Service!Patch(c)
<1>1. TypeInv /\ CallInv(c) /\ RequestInv(c)
  BY InvParts
<1> DEFINE off  == rq[c].off
           done == rq[c].done
           data == rq[c].data
           len  == Len(data)
           from == off + done
<1>2. rq[c].pc = "pwrite" /\ UNCHANGED <<call, st, total, buf>>
  BY DEF Pwrite
<1>3. PICK n \in 1 .. len - done :
         /\ file' = Overlay(file, from, SubSeq(data, done + 1, done + n))
         /\ rq' = [rq EXCEPT ![c].done = done + n,
                             ![c].pc = IF done + n = len THEN "verify" ELSE "pwrite"]
  BY DEF Pwrite
<1>4. rq \in [Client -> Request] /\ rq[c] \in Request
  BY <1>1 DEF TypeInv
<1>5. off \in Nat /\ done \in Nat /\ data \in Seq(Byte)
  BY <1>4 DEF Request
<1>6. len \in Nat
  BY <1>5
<1>7. n \in Nat /\ n > 0 /\ done + n <= len
  <2> HIDE DEF len, done
  <2> QED
    BY <1>5, <1>6
<1>8. Busy(c) /\ Live(c)
  BY <1>2 DEF Busy, Live
<1>9. /\ call[c].op = "write" /\ len = ChunkSize(c) /\ off = ChunkOffset(c)
      /\ SparseMd5(data, off) = SparseMd5(Piece(c), off)
  BY <1>1, <1>2, <1>8 DEF RequestInv
<1>10. /\ Piece(c) \in Seq(Byte) /\ Len(Piece(c)) = len
       /\ \A i \in 1 .. len : Piece(c)[i] = call[c].data[total[c] + i]
  BY <1>1, <1>9, ChunkFacts
<1>11. off = call[c].off + total[c] /\ call[c].off \in Nat /\ total[c] \in Nat
  BY <1>1, <1>9, ChunkFacts, CallFacts
<1>12. \A i \in 1 .. len : Sampled(off + i - 1) => data[i] = call[c].data[total[c] + i]
  <2>1. Len(data) <= Len(Piece(c))
    BY <1>6, <1>10
  <2>2. \A i \in 1 .. Len(Piece(c)) : Sampled(off + i - 1) => i <= Len(data) /\ data[i] = Piece(c)[i]
    BY <1>5, <1>9, <1>10, <2>1, SameMd5
  <2> QED
    BY <1>10, <2>2
<1> DEFINE x == SubSeq(data, done + 1, done + n)
<1>13. x \in Seq(Byte) /\ Len(x) = n /\ \A i \in 1 .. n : x[i] = data[done + i]
  <2>1. done + n <= Len(data)
    BY <1>7
  <2> HIDE DEF data, done
  <2> QED
    BY <1>5, <1>7, <2>1, PieceFacts
<1> HIDE DEF x
<1>14. file \in Seq(Byte) /\ Len(file) \in Nat /\ from \in Nat
  BY <1>1, <1>5 DEF TypeInv
<1>15. file' = Overlay(file, from, x) /\ x \in Seq(Byte) /\ Len(x) = n
  BY <1>3, <1>13 DEF x
<1> DEFINE o == Overlay(file, from, x)
<1>16. /\ o \in Seq(Byte)
       /\ Len(o) = (IF Len(file) > from + n THEN Len(file) ELSE from + n)
       /\ \A i \in 1 .. n : o[from + i] = x[i]
       /\ \A i \in 1 .. Len(file) : i <= from \/ i > from + n => o[i] = file[i]
       /\ \A i \in Len(file) + 1 .. from : o[i] = 0
  <2> HIDE DEF from, o
  <2>1. /\ o \in Seq(Byte)
        /\ Len(o) = (IF Len(file) > from + Len(x) THEN Len(file) ELSE from + Len(x))
        /\ \A i \in 1 .. Len(x) : o[from + i] = x[i]
        /\ \A i \in 1 .. Len(file) : i <= from \/ i > from + Len(x) => o[i] = file[i]
        /\ \A i \in Len(file) + 1 .. from : o[i] = 0
    BY <1>14, <1>15, OverlayFacts DEF o
  <2> QED
    BY <1>15, <2>1
<1>17. file' = o
  BY <1>15
<1> HIDE DEF o
<1>18. /\ file' \in Seq(Byte) /\ Len(file') \in Nat
       /\ Len(file') = (IF Len(file) > from + n THEN Len(file) ELSE from + n)
  BY <1>16, <1>17
<1>19. from >= off /\ from + n <= off + len
  <2> HIDE DEF off, done, len
  <2> QED
    BY <1>5, <1>6, <1>7
<1>20. Service!Chunk(c) = off .. off + len - 1
  BY <1>9, ChunkMapped
<1>21. Len(file') >= Len(file) /\ (Len(file') > Len(file) => Len(file') - 1 \in off .. off + len - 1)
  <2>1. off \in Nat /\ len \in Nat /\ n \in Nat /\ n > 0 /\ from \in Nat /\ Len(file) \in Nat
    BY <1>5, <1>6, <1>7, <1>14
  <2> HIDE DEF off, len, from
  <2> QED
    BY <1>18, <1>19, <2>1
<1>22. ASSUME NEW p \in 0 .. Len(file') - 1
       PROVE  \/ Service!At(file', p) = Service!At(file, p)
              \/ /\ p \in off .. off + len - 1
                 /\ Service!IsSampled(p) => Service!At(file', p) = Service!Wanted(c, p)
  <2>1. p \in Nat /\ p < Len(file') /\ Service!At(file', p) = file'[p + 1]
    <3>1. p \in Nat /\ p < Len(file')
      BY <1>18
    <3> QED
      BY <3>1 DEF Service!At
  <2>2. off \in Nat /\ len \in Nat /\ n \in Nat /\ from \in Nat /\ Len(file) \in Nat /\ done \in Nat
    BY <1>5, <1>6, <1>7, <1>14
  <2>3. CASE p \in from .. from + n - 1
    <3> DEFINE i == p - off + 1
    <3>1. p \in off .. off + len - 1
      <4> HIDE DEF off, len, from
      <4> QED
        BY <1>19, <2>2, <2>3
    <3>2. /\ i - done \in 1 .. n /\ from + (i - done) = p + 1 /\ done + (i - done) = i
          /\ i \in 1 .. len /\ off + i - 1 = p /\ total[c] + i = p - call[c].off + 1
      <4>1. i \in 1 .. len /\ off + i - 1 = p
        <5> HIDE DEF off, len
        <5> QED
          BY <2>2, <3>1
      <4>2. i - done \in 1 .. n /\ from + (i - done) = p + 1 /\ done + (i - done) = i
        <5> HIDE DEF off, done
        <5>1. from = off + done /\ p >= from /\ p <= from + n - 1
          BY <2>1, <2>2, <2>3
        <5> HIDE DEF from
        <5> QED
          BY <2>1, <2>2, <5>1
      <4>3. total[c] + i = p - call[c].off + 1
        <5> HIDE DEF off
        <5> QED
          BY <1>11, <2>1
      <4> QED
        BY <4>1, <4>2, <4>3
    <3> HIDE DEF i, from
    <3>3. file'[p + 1] = data[i]
      <4>1. file'[from + (i - done)] = x[i - done]
        BY <1>16, <1>17, <3>2
      <4>2. x[i - done] = data[done + (i - done)]
        BY <1>13, <3>2
      <4> QED
        BY <3>2, <4>1, <4>2
    <3>4. ASSUME Service!IsSampled(p) PROVE Service!At(file', p) = Service!Wanted(c, p)
      <4>1. Sampled(off + i - 1)
        BY <3>2, <3>4 DEF Sampled, Service!IsSampled
      <4>2. data[i] = call[c].data[total[c] + i]
        BY <1>12, <3>2, <4>1
      <4> QED
        BY <2>1, <3>2, <3>3, <4>2 DEF Service!Wanted
    <3> QED
      BY <3>1, <3>4
  <2>4. CASE p \notin from .. from + n - 1 /\ p < Len(file)
    <3>1. p + 1 \in 1 .. Len(file) /\ (p + 1 <= from \/ p + 1 > from + n)
      <4> DEFINE z == Len(file)
      <4>1. p \in Nat /\ from \in Nat /\ n \in Nat /\ z \in Nat /\ p < z
        BY <2>1, <2>2, <2>4
      <4> HIDE DEF from, z
      <4>2. p < from \/ p >= from + n
        BY <2>4, <4>1
      <4>3. p + 1 \in 1 .. z /\ (p + 1 <= from \/ p + 1 > from + n)
        BY <4>1, <4>2
      <4> QED
        BY <4>3 DEF z
    <3>2. file'[p + 1] = file[p + 1]
      <4> HIDE DEF from
      <4> QED
        BY <1>16, <1>17, <3>1
    <3> QED
      BY <2>1, <2>4, <3>2 DEF Service!At
  <2>5. CASE p \notin from .. from + n - 1 /\ ~(p < Len(file))
    <3>1. p + 1 \in Len(file) + 1 .. from
      <4> DEFINE z == Len(file)
      <4>1. /\ p \in Nat /\ from \in Nat /\ n \in Nat /\ z \in Nat /\ ~(p < z)
            /\ p < (IF z > from + n THEN z ELSE from + n)
        BY <1>18, <2>1, <2>2, <2>5
      <4> HIDE DEF from, z
      <4>2. p < from \/ p >= from + n
        BY <2>5, <4>1
      <4>3. p + 1 \in z + 1 .. from
        BY <4>1, <4>2
      <4> QED
        BY <4>3 DEF z
    <3>2. file'[p + 1] = 0
      <4> HIDE DEF from
      <4> QED
        BY <1>16, <1>17, <3>1
    <3> QED
      BY <2>1, <2>5, <3>2 DEF Service!At
  <2> QED
    BY <2>3, <2>4, <2>5
<1>23. rq'[c].pc # "reply" /\ \A d \in Client : d # c => rq'[d] = rq[d]
  <2> DEFINE k == IF done + n = len THEN "verify" ELSE "pwrite"
             q == [rq[c] EXCEPT !.done = done + n, !.pc = k]
  <2>1. rq' = [rq EXCEPT ![c] = q]
    BY <1>3
  <2>2. k # "reply"
    OBVIOUS
  <2> HIDE DEF k
  <2>3. q.pc # "reply"
    BY <1>4, <2>2 DEF Request
  <2> HIDE DEF q
  <2> QED
    BY <1>4, <2>1, <2>3
<1>24. AnswerOf(c)' = AnswerOf(c) /\ Outcome(c)' = Outcome(c) /\ Outcome(c) # "ok"
  <2>1. AnswerOf(c)' = AnswerOf(c)
    BY <1>2, <1>23, OutcomeFacts, OutcomeFactsNext
  <2>2. st[c] \in {"wait", "err"} /\ st'[c] = st[c]
    BY <1>1, <1>2, <1>8 DEF CallInv
  <2> QED
    BY <2>1, <2>2, OutcomeFacts, OutcomeFactsNext
<1>25. /\ [d \in Client |-> Outcome(d)]' = [d \in Client |-> Outcome(d)]
       /\ [d \in Client |-> AnswerOf(d)]' = [d \in Client |-> AnswerOf(d)]
  BY <1>2, <1>23, <1>24, Mapped
<1> HIDE DEF off, len
<1> QED
  BY <1>2, <1>9, <1>18, <1>20, <1>21, <1>22, <1>24, <1>25 DEF Service!Patch

-----------------------------------------------------------------------------
(* The theorem *)

(* httpfs_read_file and httpfs_write_file against handle_read, handle_write *)
(* and handle_truncate keep the promises of FileService, for every set of   *)
(* clients and calls, every chunk size and stride and every provider: the   *)
(* file changes only inside the chunk a call is at, at sampled offsets only *)
(* to the caller's bytes, and never for a call that has succeeded; a chunk  *)
(* is acknowledged only after the file held its sampled bytes; and a read   *)
(* delivers what the file held at one moment per chunk.                     *)
THEOREM FileImplemented == Spec => ImplementsFile
<1>1. Init => Service!FInit
  BY InitSimulated
<1>2. Inv /\ [Next]_vars => [Service!FNext]_(Service!fvars)
  <2> SUFFICES ASSUME Inv, [Next]_vars
               PROVE  Service!FNext \/ UNCHANGED Service!fvars
    OBVIOUS
  <2>1. CASE UNCHANGED vars
    <3>1. /\ UNCHANGED <<file, call, total, buf>>
          /\ \A c \in Client : Outcome(c)' = Outcome(c) /\ AnswerOf(c)' = AnswerOf(c)
      BY <2>1 DEF vars, Outcome, Returned, AnswerOf
    <3> QED
      BY <3>1 DEF Service!fvars
  <2>2. ASSUME NEW c \in Client, ClientStep(c) PROVE Service!FNext \/ UNCHANGED Service!fvars
    <3>1. TypeInv
      BY DEF Inv
    <3>2. CASE RequestFails(c) \/ ReplyError(c)
      <4>1. Service!Fail(c)
        BY <3>1, <3>2, FailStep DEF RequestFails, ReplyError
      <4> QED
        BY <4>1 DEF Service!FNext
    <3>3. CASE Start(c) \/ SendRequest(c)
      <4>1. Service!Trivial(c) \/ UNCHANGED Service!fvars
        BY <3>3, StartSimulated, SendSimulated
      <4> QED
        BY <4>1 DEF Service!FNext
    <3>4. CASE ReplyWrite(c) \/ ReplyTruncate(c)
      <4>1. Service!Acknowledge(c) \/ Service!Fail(c)
        BY <3>4, ReplyWriteSimulated, ReplyTruncateSimulated
      <4> QED
        BY <4>1 DEF Service!FNext
    <3>5. CASE ReplyRead(c)
      <4>1. Service!Deliver(c) \/ Service!Fail(c)
        BY <3>5, ReplyReadSimulated
      <4> QED
        BY <4>1 DEF Service!FNext
    <3> QED
      BY <2>2, <3>2, <3>3, <3>4, <3>5 DEF ClientStep
  <2>3. ASSUME NEW c \in Client, ServerStep(c) \/ Lose(c)
        PROVE  Service!FNext \/ UNCHANGED Service!fvars
    <3>1. CASE ArriveWrite(c) \/ HandlerFails(c) \/ Lose(c)
      BY <3>1, ArriveSimulated
    <3>2. CASE Pwrite(c)
      <4>1. Service!Patch(c)
        BY <3>2, PwriteSimulated
      <4> QED
        BY <4>1 DEF Service!FNext
    <3>3. CASE Verify(c)
      <4>1. Service!Confirm(c) \/ UNCHANGED Service!fvars
        BY <3>3, VerifySimulated
      <4> QED
        BY <4>1 DEF Service!FNext
    <3>4. CASE HandleRead(c)
      <4>1. Service!Fetch(c) \/ UNCHANGED Service!fvars
        BY <3>4, HandleReadSimulated
      <4> QED
        BY <4>1 DEF Service!FNext
    <3>5. CASE HandleTruncate(c)
      <4>1. Service!Cut(c) \/ Service!LateCut(c)
        BY <3>5, HandleTruncateSimulated
      <4> QED
        BY <4>1 DEF Service!FNext
    <3> QED
      BY <2>3, <3>1, <3>2, <3>3, <3>4, <3>5 DEF ServerStep
  <2> QED
    BY <2>1, <2>2, <2>3 DEF Next, Finished
<1> QED
  BY <1>1, <1>2, InvAlways, PTL DEF Spec, ImplementsFile, Service!FSpec

=============================================================================
