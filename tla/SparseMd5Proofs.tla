--------------------------- MODULE SparseMd5Proofs ---------------------------
(* What md5_transform is given, for every block size, width of the length,  *)
(* sampling period, chunk and offset.                                       *)
EXTENDS SparseMd5, SequenceTheorems, TLAPS

(* What buffer[] and an input may hold. *)
Val == Bytes \cup {Unset, Mark, 0}
       \cup UNION {{LengthOf(n)[j] : j \in 1 .. LengthBytes} : n \in Nat}

(* The context has taken the bytes of s: the whole blocks were given to     *)
(* md5_transform, the others are at the front of the buffer, and bit_count  *)
(* has counted them all.                                                    *)
Taken(c, s) ==
    /\ c.bit_count = 8 * Len(s)
    /\ c.fed \in Seq(Val) /\ c.buffer \in [0 .. Block - 1 -> Val]
    /\ \E k \in Nat : Len(c.fed) = Block * k
    /\ Len(s) - Len(c.fed) \in 0 .. Block - 1
    /\ \A j \in 1 .. Len(c.fed) : c.fed[j] = s[j]
    /\ \A j \in Len(c.fed) + 1 .. Len(s) : c.buffer[j - Len(c.fed) - 1] = s[j]

(* What the context has taken after Pad. *)
Padded == Message \o Padding(PadLength(Len(Message) % Block))

(* The chunk and the loop variable keep their types. *)
ChunkOK ==
    /\ data \in Seq(Bytes) /\ Len(data) <= MaxSize /\ base_offset \in Nat
    /\ i \in 0 .. Len(data)

(* The inductive invariant: at each step the context has taken exactly what *)
(* the code has handed to it so far.                                        *)
TakenInv ==
    /\ ChunkOK
    /\ pc \in {"sample", "pad", "length", "done"}
    /\ pc = "sample" => Taken(ctx, Picked(i))
    /\ pc = "pad" => Taken(ctx, Message)
    /\ pc \in {"length", "done"} => bits = LengthOf(8 * Len(Message))
    /\ pc = "length" => Taken(ctx, Padded)
    /\ pc = "done" => Taken(ctx, Padded \o bits)

-----------------------------------------------------------------------------
(* Division *)

(* A positive multiple of b is at least b. *)
LEMMA MultipleAtLeast ==
  ASSUME NEW b \in Nat \ {0}, NEW d \in Nat \ {0}
  PROVE  b * d >= b
OBVIOUS

(* Quotient and remainder are unique. *)
LEMMA DivUnique ==
  ASSUME NEW b \in Nat \ {0}, NEW q \in Nat, NEW r \in 0 .. b - 1
  PROVE  (b * q + r) \div b = q /\ (b * q + r) % b = r
OBVIOUS

LEMMA DivMod ==
  ASSUME NEW a \in Nat, NEW b \in Nat \ {0}
  PROVE  /\ a \div b \in Nat /\ a % b \in 0 .. b - 1
         /\ a = b * (a \div b) + (a % b)
OBVIOUS

(* Multiples of b in the same half-open stretch of length b are equal. *)
LEMMA MultipleUnique ==
  ASSUME NEW b \in Nat \ {0}, NEW d \in Int, NEW k \in Int,
         b * d <= b * k, b * d > b * k - b
  PROVE  d = k
OBVIOUS

-----------------------------------------------------------------------------
(* The buffer *)

(* memcpy within the buffer changes the places it copies to and no other. *)
LEMMA CopyFits ==
  ASSUME NEW buffer \in [0 .. Block - 1 -> Val], NEW at \in Nat,
         NEW input \in Seq(Val), at + Len(input) <= Block
  PROVE  /\ Copy(buffer, at, input) \in [0 .. Block - 1 -> Val]
         /\ \A j \in at .. at + Len(input) - 1 : Copy(buffer, at, input)[j] = input[j - at + 1]
         /\ \A j \in 0 .. at - 1 : Copy(buffer, at, input)[j] = buffer[j]
<1> DEFINE to == at .. at + Len(input) - 1
<1>1. /\ Len(input) \in Nat /\ DOMAIN input = 1 .. Len(input)
      /\ \A j \in 1 .. Len(input) : input[j] \in Val
  OBVIOUS
<1>2. DOMAIN buffer \cup to = 0 .. Block - 1
  BY <1>1, Md5Assumption
<1>3. Copy(buffer, at, input) = [j \in 0 .. Block - 1 |-> IF j \in to THEN input[j - at + 1] ELSE buffer[j]]
  BY <1>2, Zenon DEF Copy
<1>4. \A j \in to : j \in 0 .. Block - 1 /\ j - at + 1 \in 1 .. Len(input)
  BY <1>1, Md5Assumption
<1>5. \A j \in 0 .. at - 1 : j \in 0 .. Block - 1 /\ j \notin to
  BY <1>1, Md5Assumption
<1> HIDE DEF to
<1>6. Copy(buffer, at, input) \in [0 .. Block - 1 -> Val]
  BY <1>1, <1>3, <1>4
<1>7. \A j \in to : Copy(buffer, at, input)[j] = input[j - at + 1]
  BY <1>3, <1>4
<1>8. \A j \in 0 .. at - 1 : Copy(buffer, at, input)[j] = buffer[j]
  BY <1>3, <1>5
<1> QED
  BY <1>6, <1>7, <1>8 DEF to

LEMMA FrontTaken ==
  ASSUME NEW buffer \in [0 .. Block - 1 -> Val]
  PROVE  /\ Front(buffer, Block) \in Seq(Val) /\ Len(Front(buffer, Block)) = Block
         /\ \A j \in 1 .. Block : Front(buffer, Block)[j] = buffer[j - 1]
<1>1. /\ Front(buffer, Block) \in [1 .. Block -> Val]
      /\ \A j \in 1 .. Block : Front(buffer, Block)[j] = buffer[j - 1]
  BY Md5Assumption DEF Front
<1> QED
  BY <1>1, Md5Assumption, SeqDef

(* The place in the buffer is the part of the message not yet in a block. *)
LEMMA IndexTaken ==
  ASSUME NEW c, NEW s \in Seq(Val), Taken(c, s)
  PROVE  Index(c) = Len(s) - Len(c.fed) /\ Len(s) % Block = Len(s) - Len(c.fed)
<1>1. Len(s) \in Nat /\ Len(c.fed) \in Nat
  BY DEF Taken
<1>2. PICK k \in Nat : Len(c.fed) = Block * k
  BY DEF Taken
<1> DEFINE r == Len(s) - Len(c.fed)
<1>3. r \in 0 .. Block - 1
  BY DEF Taken
<1>4. Len(s) = Block * k + r
  BY <1>1, <1>2, Md5Assumption
<1> HIDE DEF r
<1>5. (Block * k + r) % Block = r
  BY <1>3, Md5Assumption, DivUnique
<1>6. (8 * Len(s)) \div 8 = Len(s)
  BY <1>1
<1>7. c.bit_count = 8 * Len(s)
  BY DEF Taken
<1> QED
  BY <1>4, <1>5, <1>6, <1>7 DEF Index, r

(* What the concatenation of the message and an input holds. *)
LEMMA ConcatHolds ==
  ASSUME NEW s \in Seq(Val), NEW t \in Seq(Val)
  PROVE  /\ s \o t \in Seq(Val) /\ Len(s \o t) = Len(s) + Len(t)
         /\ \A j \in 1 .. Len(s) : (s \o t)[j] = s[j]
         /\ \A j \in Len(s) + 1 .. Len(s) + Len(t) : (s \o t)[j] = t[j - Len(s)]
OBVIOUS

LEMMA SubSeqHolds ==
  ASSUME NEW s \in Seq(Val), NEW m \in Nat \ {0}, NEW n \in 0 .. Len(s), m <= n + 1
  PROVE  /\ SubSeq(s, m, n) \in Seq(Val) /\ Len(SubSeq(s, m, n)) = n - m + 1
         /\ \A j \in 1 .. n - m + 1 : SubSeq(s, m, n)[j] = s[j + m - 1]
OBVIOUS

LEMMA ModSmall ==
  ASSUME NEW b \in Nat \ {0}, NEW a \in 0 .. b - 1
  PROVE  a % b = a
OBVIOUS

(* An input that does not complete the block is kept in the buffer. *)
LEMMA UpdateKeeps ==
  ASSUME NEW c, NEW s \in Seq(Val), NEW input \in Seq(Val), Taken(c, s),
         Len(input) < Block - (Len(s) - Len(c.fed)),
         8 * (Len(s) + Len(input)) < Radix ^ LengthBytes
  PROVE  Taken(md5_update(c, input), s \o input)
<1> DEFINE W == Radix ^ LengthBytes
           r == Len(s) - Len(c.fed)
           f == Len(c.fed)
           l == Len(s)
           n == Len(input)
           kept == SubSeq(input, 1, n)
           buffer == Copy(c.buffer, r, kept)
           new == md5_update(c, input)
<1>1. W \in Nat /\ 8 * (l + n) < W /\ l \in Nat /\ n \in Nat /\ f \in Nat /\ Block \in Nat
  BY Md5Assumption DEF Taken
<1>2. /\ c.bit_count = 8 * l /\ c.fed \in Seq(Val) /\ c.buffer \in [0 .. Block - 1 -> Val]
      /\ r \in 0 .. Block - 1
  BY DEF Taken
<1>3. \A j \in 1 .. f : c.fed[j] = s[j]
  BY DEF Taken
<1>4. \A j \in f + 1 .. l : c.buffer[j - f - 1] = s[j]
  BY DEF Taken
<1>5. \E k \in Nat : f = Block * k
  BY DEF Taken
<1>6. /\ kept \in Seq(Val) /\ Len(kept) = n
      /\ \A j \in 1 .. n : kept[j] = input[j]
  OBVIOUS
<1>7. r \in Nat /\ n < Block - r /\ l = f + r
  BY <1>1, <1>2
<1>8. /\ s \o input \in Seq(Val) /\ Len(s \o input) = l + n
      /\ \A j \in 1 .. l : (s \o input)[j] = s[j]
      /\ \A j \in l + 1 .. l + n : (s \o input)[j] = input[j - l]
  BY ConcatHolds
<1>9. (8 * l + 8 * n) % W = 8 * (l + n)
  <2> HIDE DEF l, n, W
  <2>1. 8 * l + 8 * n = 8 * (l + n) /\ 8 * (l + n) \in 0 .. W - 1 /\ W \in Nat \ {0}
    BY <1>1
  <2> QED
    BY <2>1, ModSmall
<1>10. new = [bit_count |-> 8 * (l + n), buffer |-> buffer, fed |-> c.fed]
  <2>1. Index(c) = r
    BY IndexTaken
  <2>2. ~ (n >= Block - r)
    BY <1>1, <1>7
  <2>3. 0 + 1 = 1
    OBVIOUS
  <2> QED
    BY <1>2, <1>9, <2>1, <2>2, <2>3, Zenon DEF md5_update
<1>11. /\ buffer \in [0 .. Block - 1 -> Val]
       /\ \A j \in r .. r + n - 1 : buffer[j] = kept[j - r + 1]
       /\ \A j \in 0 .. r - 1 : buffer[j] = c.buffer[j]
  <2>1. r + Len(kept) <= Block
    BY <1>1, <1>6, <1>7
  <2> HIDE DEF kept, r, n
  <2> QED
    BY <1>2, <1>6, <1>7, <2>1, CopyFits
<1> HIDE DEF W, r, f, l, n, kept, buffer, new
<1>12. \A j \in 1 .. f : c.fed[j] = (s \o input)[j]
  <2>1. \A j \in 1 .. f : j \in 1 .. l
    BY <1>1, <1>7
  <2> QED
    BY <1>3, <1>8, <2>1, Zenon
<1>13. ASSUME NEW j \in f + 1 .. l + n
       PROVE  buffer[j - f - 1] = (s \o input)[j]
  <2>1. CASE j <= l
    <3>1. j \in f + 1 .. l /\ j \in 1 .. l /\ j - f - 1 \in 0 .. r - 1
      BY <1>1, <1>7, <2>1
    <3> QED
      BY <1>4, <1>8, <1>11, <3>1
  <2>2. CASE j > l
    <3>1. /\ j \in l + 1 .. l + n /\ j - l \in 1 .. n
          /\ j - f - 1 \in r .. r + n - 1 /\ (j - f - 1) - r + 1 = j - l
      BY <1>1, <1>7, <2>2
    <3>2. buffer[j - f - 1] = kept[(j - f - 1) - r + 1]
      BY <1>11, <3>1, Zenon
    <3> QED
      BY <1>6, <1>8, <3>1, <3>2, Zenon
  <2>3. j <= l \/ j > l
    BY <1>1
  <2> QED
    BY <2>1, <2>2, <2>3, Zenon
<1>14. (l + n) - f \in 0 .. Block - 1
  BY <1>1, <1>7
<1>15. Len(c.fed) = f
  BY DEF f
<1>16. new.bit_count = 8 * (l + n) /\ new.buffer = buffer /\ new.fed = c.fed
  BY <1>10
<1>17. Taken(new, s \o input)
  BY <1>2, <1>5, <1>8, <1>11, <1>12, <1>13, <1>14, <1>15, <1>16, Zenon DEF Taken
<1> QED
  BY <1>17 DEF new

(* An input that completes the block: the block and the whole blocks of the *)
(* input go to md5_transform, the rest of the input is kept.                *)
LEMMA UpdateFeeds ==
  ASSUME NEW c, NEW s \in Seq(Val), NEW input \in Seq(Val), Taken(c, s),
         Len(input) >= Block - (Len(s) - Len(c.fed)),
         8 * (Len(s) + Len(input)) < Radix ^ LengthBytes
  PROVE  Taken(md5_update(c, input), s \o input)
<1> DEFINE W == Radix ^ LengthBytes
           r == Len(s) - Len(c.fed)
           f == Len(c.fed)
           l == Len(s)
           n == Len(input)
           p == Block - r
           q == (n - p) \div Block
           rest == p + Block * q
           start == SubSeq(input, 1, p)
           filled == Copy(c.buffer, r, start)
           block == Front(filled, Block)
           whole == SubSeq(input, p + 1, rest)
           fed == c.fed \o block \o whole
           kept == SubSeq(input, rest + 1, n)
           buffer == Copy(filled, 0, kept)
           new == md5_update(c, input)
           t == s \o input
<1>1. W \in Nat /\ 8 * (l + n) < W /\ l \in Nat /\ n \in Nat /\ f \in Nat /\ Block \in Nat \ {0}
  BY Md5Assumption DEF Taken
<1>2. /\ c.bit_count = 8 * l /\ c.fed \in Seq(Val) /\ c.buffer \in [0 .. Block - 1 -> Val]
      /\ r \in 0 .. Block - 1
  BY DEF Taken
<1>3. \A j \in 1 .. f : c.fed[j] = s[j]
  BY DEF Taken
<1>4. \A j \in f + 1 .. l : c.buffer[j - f - 1] = s[j]
  BY DEF Taken
<1>5. PICK k \in Nat : f = Block * k
  BY DEF Taken
<1>6. r \in Nat /\ p \in 1 .. Block /\ p + r = Block /\ n >= p /\ l = f + r
  BY <1>1, <1>2
<1>7. q \in Nat /\ rest \in p .. n /\ n - rest \in 0 .. Block - 1 /\ rest = p + Block * q
  <2> HIDE DEF p, n
  <2> DEFINE d == n - p
  <2>1. d \in Nat /\ n = p + d
    BY <1>1, <1>6
  <2>2. q = d \div Block
    OBVIOUS
  <2> HIDE DEF d, q
  <2>3. /\ d \div Block \in Nat /\ d % Block \in 0 .. Block - 1
        /\ d = Block * (d \div Block) + (d % Block)
    BY <1>1, <2>1, DivMod
  <2> DEFINE z == Block * q
             y == d % Block
  <2>4. /\ q \in Nat /\ z \in Nat /\ y \in 0 .. Block - 1
        /\ d = z + y /\ rest = p + z
    <3>1. q \in Nat
      BY <2>2, <2>3
    <3>2. z \in Nat
      BY <1>1, <3>1
    <3>3. y \in 0 .. Block - 1 /\ d = z + y /\ rest = p + z
      BY <2>2, <2>3, Zenon
    <3> QED
      BY <3>1, <3>2, <3>3
  <2> HIDE DEF z, y, rest
  <2>5. rest \in p .. n /\ n - rest \in 0 .. Block - 1
    BY <1>1, <1>6, <2>1, <2>4
  <2> QED
    BY <2>4, <2>5 DEF z
<1>8. /\ t \in Seq(Val) /\ Len(t) = l + n
      /\ \A j \in 1 .. l : t[j] = s[j]
      /\ \A j \in l + 1 .. l + n : t[j] = input[j - l]
  BY ConcatHolds
<1>9. (8 * l + 8 * n) % W = 8 * (l + n)
  <2> HIDE DEF l, n, W
  <2>1. 8 * l + 8 * n = 8 * (l + n) /\ 8 * (l + n) \in 0 .. W - 1 /\ W \in Nat \ {0}
    BY <1>1
  <2> QED
    BY <2>1, ModSmall
<1>10. new = [bit_count |-> 8 * (l + n), buffer |-> buffer, fed |-> fed]
  <2>1. Index(c) = r
    BY IndexTaken
  <2> QED
    BY <1>2, <1>6, <1>9, <2>1, Zenon DEF md5_update
<1> HIDE DEF W, r, f, l, n, p, q, rest, new, t
<1>11. /\ start \in Seq(Val) /\ Len(start) = p
       /\ \A j \in 1 .. p : start[j] = input[j]
  <2>1. p \in 0 .. Len(input) /\ 1 <= p + 1 /\ 1 \in Nat \ {0} /\ p - 1 + 1 = p
    BY <1>1, <1>6 DEF n
  <2>2. /\ start \in Seq(Val) /\ Len(start) = p - 1 + 1
        /\ \A j \in 1 .. p - 1 + 1 : start[j] = input[j + 1 - 1]
    BY <2>1, SubSeqHolds
  <2> QED
    BY <1>6, <2>1, <2>2
<1>12. /\ whole \in Seq(Val) /\ Len(whole) = Block * q
       /\ \A j \in 1 .. Block * q : whole[j] = input[j + p]
  <2>1. rest \in 0 .. Len(input) /\ p + 1 <= rest + 1 /\ p + 1 \in Nat \ {0}
    BY <1>1, <1>6, <1>7 DEF n
  <2>2. /\ whole \in Seq(Val) /\ Len(whole) = rest - (p + 1) + 1
        /\ \A j \in 1 .. rest - (p + 1) + 1 : whole[j] = input[j + (p + 1) - 1]
    BY <2>1, SubSeqHolds
  <2>3. Block * q \in Int /\ rest - (p + 1) + 1 = Block * q
    BY <1>1, <1>6, <1>7
  <2>4. \A j \in 1 .. Block * q : j + (p + 1) - 1 = j + p
    BY <1>1, <1>6
  <2> QED
    BY <2>2, <2>3, <2>4
<1>13. /\ kept \in Seq(Val) /\ Len(kept) = n - rest
       /\ \A j \in 1 .. n - rest : kept[j] = input[j + rest]
  <2>1. n \in 0 .. Len(input) /\ rest + 1 <= n + 1 /\ rest + 1 \in Nat \ {0}
    BY <1>1, <1>6, <1>7 DEF n
  <2>2. /\ kept \in Seq(Val) /\ Len(kept) = n - (rest + 1) + 1
        /\ \A j \in 1 .. n - (rest + 1) + 1 : kept[j] = input[j + (rest + 1) - 1]
    BY <2>1, SubSeqHolds
  <2>3. rest \in Int /\ n - (rest + 1) + 1 = n - rest
    BY <1>1, <1>6, <1>7
  <2>4. \A j \in 1 .. n - rest : j + (rest + 1) - 1 = j + rest
    BY <1>1, <2>3
  <2> QED
    BY <2>2, <2>3, <2>4
<1>14. /\ filled \in [0 .. Block - 1 -> Val]
       /\ \A j \in r .. Block - 1 : filled[j] = start[j - r + 1]
       /\ \A j \in 0 .. r - 1 : filled[j] = c.buffer[j]
  <2>1. r + Len(start) <= Block /\ r + Len(start) - 1 = Block - 1
    BY <1>1, <1>6, <1>11
  <2> HIDE DEF start
  <2>2. /\ filled \in [0 .. Block - 1 -> Val]
        /\ \A j \in r .. r + Len(start) - 1 : filled[j] = start[j - r + 1]
        /\ \A j \in 0 .. r - 1 : filled[j] = c.buffer[j]
    <3>1. /\ c.buffer \in [0 .. Block - 1 -> Val] /\ r \in Nat /\ start \in Seq(Val)
          /\ r + Len(start) <= Block
      BY <1>2, <1>6, <1>11, <2>1
    <3> QED
      BY <3>1, CopyFits, Zenon
  <2> QED
    BY <2>1, <2>2, Zenon
<1>15. /\ block \in Seq(Val) /\ Len(block) = Block
       /\ \A j \in 1 .. Block : block[j] = filled[j - 1]
  <2> HIDE DEF filled
  <2> QED
    BY <1>14, FrontTaken
<1>16. /\ buffer \in [0 .. Block - 1 -> Val]
       /\ \A j \in 0 .. n - rest - 1 : buffer[j] = kept[j + 1]
  <2>1. 0 \in Nat /\ 0 + Len(kept) <= Block /\ 0 + Len(kept) - 1 = n - rest - 1
    BY <1>1, <1>7, <1>13
  <2>2. \A j \in 0 .. n - rest - 1 : j - 0 + 1 = j + 1
    OBVIOUS
  <2> HIDE DEF kept, filled
  <2>3. /\ buffer \in [0 .. Block - 1 -> Val]
        /\ \A j \in 0 .. 0 + Len(kept) - 1 : buffer[j] = kept[j - 0 + 1]
    BY <1>13, <1>14, <2>1, CopyFits
  <2> QED
    BY <2>1, <2>2, <2>3
<1> HIDE DEF start, filled, block, whole, kept, buffer
<1>17. /\ c.fed \o block \in Seq(Val) /\ Len(c.fed \o block) = f + Block
       /\ \A j \in 1 .. f : (c.fed \o block)[j] = c.fed[j]
       /\ \A j \in f + 1 .. f + Block : (c.fed \o block)[j] = block[j - f]
  BY <1>2, <1>15, ConcatHolds DEF f
<1>18. /\ fed \in Seq(Val) /\ Len(fed) = f + Block + Block * q
       /\ \A j \in 1 .. f + Block : fed[j] = (c.fed \o block)[j]
       /\ \A j \in f + Block + 1 .. f + Block + Block * q : fed[j] = whole[j - (f + Block)]
  <2> DEFINE g == c.fed \o block
  <2>1. /\ g \o whole \in Seq(Val) /\ Len(g \o whole) = Len(g) + Len(whole)
        /\ \A j \in 1 .. Len(g) : (g \o whole)[j] = g[j]
        /\ \A j \in Len(g) + 1 .. Len(g) + Len(whole) : (g \o whole)[j] = whole[j - Len(g)]
    BY <1>12, <1>17, ConcatHolds
  <2>2. Block * q \in Nat /\ f + Block + Block * q = (f + Block) + Block * q
    BY <1>1, <1>7
  <2> HIDE DEF g
  <2>3. fed = g \o whole /\ Len(g) = f + Block /\ Len(whole) = Block * q
    BY <1>12, <1>17 DEF g
  <2> QED
    BY <2>1, <2>2, <2>3 DEF g
<1> HIDE DEF fed
<1> DEFINE z == Block * q
           g == f + Block + z
<1>19. z \in Nat /\ g \in Nat /\ g = f + Block + z /\ rest = p + z /\ (l + n) - g = n - rest
  BY <1>1, <1>6, <1>7
<1>20. /\ Len(fed) = g /\ Len(whole) = z
       /\ \A j \in 1 .. f + Block : fed[j] = (c.fed \o block)[j]
       /\ \A j \in f + Block + 1 .. g : fed[j] = whole[j - (f + Block)]
       /\ \A j \in 1 .. z : whole[j] = input[j + p]
  BY <1>12, <1>18
<1>21. \E m \in Nat : g = Block * m
  <2>1. g = Block * (k + 1 + q) /\ k + 1 + q \in Nat
    BY <1>1, <1>5, <1>7
  <2> QED
    BY <2>1
<1> HIDE DEF z, g
<1>22. ASSUME NEW j \in 1 .. g
       PROVE  fed[j] = t[j]
  <2>1. CASE j \in 1 .. f
    <3>1. j \in 1 .. l /\ j \in 1 .. f + Block
      BY <1>1, <1>6, <2>1
    <3> QED
      BY <1>3, <1>8, <1>17, <1>20, <2>1, <3>1, Zenon
  <2>2. CASE j \in f + 1 .. l
    <3>1. /\ j \in 1 .. l /\ j \in f + 1 .. f + Block /\ j \in 1 .. f + Block
          /\ j - f \in 1 .. Block /\ (j - f) - 1 = j - f - 1 /\ j - f - 1 \in 0 .. r - 1
      BY <1>1, <1>6, <2>2
    <3>2. fed[j] = filled[j - f - 1]
      BY <1>15, <1>17, <1>20, <3>1
    <3> QED
      BY <1>4, <1>8, <1>14, <2>2, <3>1, <3>2
  <2>3. CASE j \in l + 1 .. f + Block
    <3>1. /\ j \in l + 1 .. l + n /\ j \in f + 1 .. f + Block /\ j \in 1 .. f + Block
          /\ j - f \in 1 .. Block /\ (j - f) - 1 = j - f - 1 /\ j - f - 1 \in r .. Block - 1
          /\ (j - f - 1) - r + 1 = j - l /\ j - l \in 1 .. p
      BY <1>1, <1>6, <2>3
    <3>2. fed[j] = filled[j - f - 1]
      BY <1>15, <1>17, <1>20, <3>1
    <3>3. filled[j - f - 1] = start[j - l]
      BY <1>14, <3>1
    <3> QED
      BY <1>8, <1>11, <3>1, <3>2, <3>3
  <2>4. CASE j \in f + Block + 1 .. g
    <3>1. /\ j \in l + 1 .. l + n /\ j - (f + Block) \in 1 .. z
          /\ (j - (f + Block)) + p = j - l
      BY <1>1, <1>6, <1>7, <1>19, <2>4
    <3> QED
      BY <1>8, <1>20, <2>4, <3>1
  <2>5. j \in 1 .. f \/ j \in f + 1 .. l \/ j \in l + 1 .. f + Block \/ j \in f + Block + 1 .. g
    BY <1>1, <1>6, <1>19
  <2> QED
    BY <2>1, <2>2, <2>3, <2>4, <2>5, Zenon
<1>23. ASSUME NEW j \in g + 1 .. l + n
       PROVE  buffer[j - g - 1] = t[j]
  <2>1. /\ j \in l + 1 .. l + n /\ j - g - 1 \in 0 .. n - rest - 1 /\ (j - g - 1) + 1 = j - g
        /\ j - g \in 1 .. n - rest /\ (j - g) + rest = j - l
    BY <1>1, <1>6, <1>7, <1>19
  <2> QED
    BY <1>8, <1>13, <1>16, <2>1
<1>24. (l + n) - g \in 0 .. Block - 1
  BY <1>7, <1>19
<1>25. new.bit_count = 8 * (l + n) /\ new.buffer = buffer /\ new.fed = fed
  BY <1>10
<1>26. Taken(new, t)
  BY <1>8, <1>16, <1>18, <1>20, <1>21, <1>22, <1>23, <1>24, <1>25, Zenon DEF Taken
<1> QED
  BY <1>26 DEF new, t

(* md5_update takes its input, wherever in a block the message stands. *)
LEMMA UpdateTaken ==
  ASSUME NEW c, NEW s \in Seq(Val), NEW input \in Seq(Val), Taken(c, s),
         8 * (Len(s) + Len(input)) < Radix ^ LengthBytes
  PROVE  Taken(md5_update(c, input), s \o input)
<1>1. Len(s) - Len(c.fed) \in Int /\ Len(input) \in Int /\ Block \in Int
  BY Md5Assumption DEF Taken
<1>2. \/ Len(input) < Block - (Len(s) - Len(c.fed))
      \/ Len(input) >= Block - (Len(s) - Len(c.fed))
  BY <1>1
<1> QED
  BY <1>2, UpdateKeeps, UpdateFeeds, Zenon

-----------------------------------------------------------------------------
(* The sampled bytes *)

LEMMA TimesMonotone ==
  ASSUME NEW b \in Nat, NEW x \in Int, NEW y \in Int, x <= y
  PROVE  b * x <= b * y
OBVIOUS

(* First is the first place of the chunk at a multiple of Period. *)
LEMMA FirstHolds ==
  ASSUME base_offset \in Nat
  PROVE  /\ First \in 0 .. Period - 1
         /\ \E q \in Nat : base_offset + First = Period * q
<1> DEFINE m == base_offset % Period
           d == base_offset \div Period
<1>1. Period \in Nat \ {0}
  BY Md5Assumption
<1>2. d \in Nat /\ m \in 0 .. Period - 1 /\ base_offset = Period * d + m
  BY <1>1, DivMod
<1>3. First = (Period - m) % Period
  BY DEF First
<1> HIDE DEF m, d
<1>4. CASE m = 0
  <2>1. Period * 1 + 0 = Period - m /\ 1 \in Nat /\ 0 \in 0 .. Period - 1
    BY <1>1, <1>4
  <2>2. (Period * 1 + 0) % Period = 0
    BY <1>1, <2>1, DivUnique
  <2>3. First = 0
    BY <1>3, <2>1, <2>2, Zenon
  <2>4. base_offset + First = Period * d /\ First \in 0 .. Period - 1
    BY <1>1, <1>2, <1>4, <2>3
  <2> QED
    BY <1>2, <2>4
<1>5. CASE m # 0
  <2>1. Period - m \in 0 .. Period - 1
    BY <1>1, <1>2, <1>5
  <2>2. First = Period - m
    BY <1>1, <1>3, <2>1, ModSmall
  <2>3. base_offset + First = Period * (d + 1) /\ d + 1 \in Nat
    BY <1>1, <1>2, <2>2
  <2> QED
    BY <2>1, <2>2, <2>3
<1> QED
  BY <1>4, <1>5

(* The k-th sampled byte from zero is at First + Period * k: Count(n) is    *)
(* the least k for which that is not among the first n.                     *)
LEMMA CountHolds ==
  ASSUME base_offset \in Nat, NEW n \in Nat
  PROVE  /\ Count(n) \in 0 .. n
         /\ n <= First + Period * Count(n)
         /\ Count(n) = 0 \/ First + Period * (Count(n) - 1) < n
<1>1. Period \in Nat \ {0} /\ First \in 0 .. Period - 1
  BY Md5Assumption, FirstHolds
<1>2. CASE First >= n
  <2>1. Count(n) = 0
    BY <1>2 DEF Count
  <2>2. Period * 0 = 0
    BY <1>1
  <2> QED
    BY <1>1, <1>2, <2>1, <2>2
<1>3. CASE First < n
  <2> DEFINE a == n - First - 1
             d == a \div Period
             m == a % Period
             z == Period * d
  <2>1. a \in Nat
    BY <1>1, <1>3
  <2>2. Count(n) = d + 1
    BY <1>1, <1>3 DEF Count
  <2> HIDE DEF a
  <2>3. d \in Nat /\ m \in 0 .. Period - 1 /\ a = Period * d + m
    BY <1>1, <2>1, DivMod
  <2> HIDE DEF d, m
  <2>4. z \in Nat /\ Period * (d + 1) = z + Period /\ (d + 1) - 1 = d /\ a = z + m
    BY <1>1, <2>3
  <2>5. d <= z
    BY <1>1, <2>3
  <2> HIDE DEF z
  <2>6. n = First + z + m + 1
    BY <1>1, <2>3, <2>4 DEF a
  <2>7. d + 1 \in 0 .. n /\ n <= First + (z + Period) /\ First + z < n
    BY <1>1, <2>3, <2>4, <2>5, <2>6
  <2> QED
    BY <2>2, <2>4, <2>7 DEF z
<1> QED
  BY <1>1, <1>2, <1>3

LEMMA CountUnique ==
  ASSUME base_offset \in Nat, NEW n \in Nat, NEW k \in Nat,
         n <= First + Period * k, k = 0 \/ First + Period * (k - 1) < n
  PROVE  Count(n) = k
<1> DEFINE h == Count(n)
<1>1. /\ h \in Nat /\ n <= First + Period * h
      /\ h = 0 \/ First + Period * (h - 1) < n
  BY CountHolds
<1>2. Period \in Nat \ {0} /\ First \in Nat
  BY Md5Assumption, FirstHolds
<1> HIDE DEF h
<1>3. ASSUME NEW x \in Nat, NEW y \in Nat, x < y, n <= First + Period * x,
             y = 0 \/ First + Period * (y - 1) < n
      PROVE  FALSE
  <2>1. x <= y - 1 /\ y # 0 /\ y - 1 \in Int
    BY <1>3
  <2>2. Period * x <= Period * (y - 1)
    BY <1>2, <2>1, TimesMonotone
  <2>3. Period * x \in Int /\ Period * (y - 1) \in Int
    BY <1>2, <2>1
  <2> QED
    BY <1>2, <1>3, <2>1, <2>2, <2>3
<1>4. h < k \/ k < h \/ h = k
  BY <1>1
<1> QED
  BY <1>1, <1>3, <1>4 DEF h

(* Byte n is sampled exactly when it is the next of those places. *)
LEMMA SampledNext ==
  ASSUME base_offset \in Nat, NEW n \in Nat
  PROVE  /\ Sampled(n) => n = First + Period * Count(n) /\ Count(n + 1) = Count(n) + 1
         /\ ~ Sampled(n) => Count(n + 1) = Count(n)
<1> DEFINE k == Count(n)
<1>1. /\ k \in Nat /\ n <= First + Period * k
      /\ k = 0 \/ First + Period * (k - 1) < n
  BY CountHolds
<1>2. Period \in Nat \ {0} /\ First \in 0 .. Period - 1
  BY Md5Assumption, FirstHolds
<1>3. PICK q \in Nat : base_offset + First = Period * q
  BY FirstHolds
<1> HIDE DEF k
<1>4. ASSUME Sampled(n)
      PROVE  n = First + Period * k
  <2> DEFINE e == (base_offset + n) \div Period
             d == e - q
  <2>1. e \in Nat /\ base_offset + n = Period * e
    <3>1. base_offset + n \in Nat
      OBVIOUS
    <3> QED
      BY <1>2, <1>4, <3>1, DivMod DEF Sampled
  <2> HIDE DEF e
  <2>2. d \in Int /\ n - First = Period * d
    BY <1>2, <1>3, <2>1
  <2> HIDE DEF d
  <2> DEFINE z == Period * d
             y == Period * k
  <2>3. z \in Int /\ y \in Int /\ Period * (k - 1) = y - Period /\ (k = 0 => y = 0)
    BY <1>1, <1>2, <2>2
  <2>4. z <= y /\ z > y - Period
    <3> HIDE DEF z, y
    <3>1. n - First = z /\ n <= First + y /\ (k = 0 \/ First + (y - Period) < n)
      BY <1>1, <2>2, <2>3 DEF z, y
    <3> QED
      BY <1>2, <2>3, <3>1
  <2>5. d = k
    BY <1>1, <1>2, <2>2, <2>4, MultipleUnique
  <2> QED
    BY <1>1, <1>2, <2>2, <2>5
<1>5. ASSUME n = First + Period * k
      PROVE  Sampled(n)
  <2>1. q + k \in Nat /\ 0 \in 0 .. Period - 1 /\ base_offset + n = Period * (q + k) + 0
    BY <1>1, <1>2, <1>3, <1>5
  <2>2. (Period * (q + k) + 0) % Period = 0
    BY <1>2, <2>1, DivUnique
  <2> QED
    BY <2>1, <2>2, Zenon DEF Sampled
<1>6. CASE Sampled(n)
  <2>1. n = First + Period * k
    BY <1>4, <1>6
  <2>2. /\ k + 1 \in Nat /\ n + 1 \in Nat /\ (k + 1) - 1 = k
        /\ First + Period * k < n + 1 /\ Period * (k + 1) = Period * k + Period
        /\ Period * k \in Int
    BY <1>1, <1>2, <2>1
  <2>3. n + 1 <= First + Period * (k + 1)
    BY <1>2, <2>1, <2>2
  <2>4. Count(n + 1) = k + 1
    BY <2>2, <2>3, CountUnique
  <2> QED
    BY <1>6, <2>1, <2>4 DEF k
<1>7. CASE ~ Sampled(n)
  <2>1. n # First + Period * k /\ Period * k \in Int /\ Period * (k - 1) \in Int
    BY <1>1, <1>2, <1>5, <1>7
  <2>2. n + 1 <= First + Period * k /\ (k = 0 \/ First + Period * (k - 1) < n + 1) /\ n + 1 \in Nat
    BY <1>1, <1>2, <2>1
  <2>3. Count(n + 1) = k
    BY <1>1, <2>2, CountUnique
  <2> QED
    BY <1>7, <2>3 DEF k
<1> QED
  BY <1>6, <1>7

(* What Picked(n) holds, and that it lies within the chunk. *)
LEMMA PickedHolds ==
  ASSUME ChunkOK, NEW n \in 0 .. Len(data)
  PROVE  /\ Picked(n) \in Seq(Val) /\ Len(Picked(n)) = Count(n) /\ Count(n) \in 0 .. n
         /\ \A j \in 1 .. Count(n) : Picked(n)[j] = data[First + Period * (j - 1) + 1]
<1> DEFINE k == Count(n)
<1>1. base_offset \in Nat /\ data \in Seq(Bytes) /\ Len(data) \in Nat /\ n \in Nat
  BY DEF ChunkOK
<1>2. k \in 0 .. n /\ (k = 0 \/ First + Period * (k - 1) < n)
  BY <1>1, CountHolds
<1>3. Period \in Nat \ {0} /\ First \in Nat
  BY <1>1, Md5Assumption, FirstHolds
<1> HIDE DEF k
<1>4. ASSUME NEW j \in 1 .. k
      PROVE  data[First + Period * (j - 1) + 1] \in Val
  <2>1. j - 1 <= k - 1 /\ j - 1 \in Nat /\ k - 1 \in Int /\ k # 0 /\ n <= Len(data)
    BY <1>1, <1>2
  <2>2. Period * (j - 1) <= Period * (k - 1)
    BY <1>3, <2>1, TimesMonotone
  <2>3. Period * (j - 1) \in Nat /\ Period * (k - 1) \in Int
    BY <1>3, <2>1
  <2>4. First + Period * (j - 1) + 1 \in 1 .. Len(data)
    BY <1>1, <1>2, <1>3, <2>1, <2>2, <2>3
  <2>5. \A x \in 1 .. Len(data) : data[x] \in Bytes
    BY <1>1
  <2> QED
    BY <2>4, <2>5 DEF Val
<1>5. /\ Picked(n) \in [1 .. k -> Val]
      /\ \A j \in 1 .. k : Picked(n)[j] = data[First + Period * (j - 1) + 1]
  BY <1>4, Zenon DEF Picked, k
<1>6. k \in Nat
  BY <1>1, <1>2
<1>7. Picked(n) \in Seq(Val) /\ Len(Picked(n)) = k
  BY <1>5, <1>6
<1> QED
  BY <1>2, <1>5, <1>7 DEF k

(* Byte n adds itself to the sampled bytes, or nothing. *)
LEMMA PickedNext ==
  ASSUME ChunkOK, NEW n \in 0 .. Len(data) - 1
  PROVE  /\ <<data[n + 1]>> \in Seq(Val)
         /\ Sampled(n) => Picked(n + 1) = Picked(n) \o <<data[n + 1]>>
         /\ ~ Sampled(n) => Picked(n + 1) = Picked(n)
<1>1. base_offset \in Nat /\ data \in Seq(Bytes) /\ Len(data) \in Nat
  BY DEF ChunkOK
<1>2. n \in Nat /\ n \in 0 .. Len(data) /\ n + 1 \in 0 .. Len(data) /\ n + 1 \in 1 .. Len(data)
  BY <1>1
<1>3. data[n + 1] \in Val
  <2>1. \A x \in 1 .. Len(data) : data[x] \in Bytes
    BY <1>1
  <2> QED
    BY <1>2, <2>1 DEF Val
<1>4. ASSUME Sampled(n)
      PROVE  Picked(n + 1) = Picked(n) \o <<data[n + 1]>>
  <2> DEFINE k == Count(n)
             s == Picked(n)
             t == <<data[n + 1]>>
             u == Picked(n + 1)
  <2>1. n = First + Period * k /\ Count(n + 1) = k + 1
    BY <1>1, <1>2, <1>4, SampledNext
  <2>2. /\ s \in Seq(Val) /\ Len(s) = k /\ k \in 0 .. n
        /\ \A j \in 1 .. k : s[j] = data[First + Period * (j - 1) + 1]
    BY <1>2, PickedHolds
  <2>3. /\ u \in Seq(Val) /\ Len(u) = Count(n + 1)
        /\ \A j \in 1 .. Count(n + 1) : u[j] = data[First + Period * (j - 1) + 1]
    BY <1>2, PickedHolds
  <2>4. t \in Seq(Val) /\ Len(t) = 1 /\ t[1] = data[n + 1]
    BY <1>3
  <2> HIDE DEF k, s, t, u
  <2>5. k \in Nat
    BY <1>2, <2>2
  <2>6. /\ s \o t \in Seq(Val) /\ Len(s \o t) = k + 1
        /\ \A j \in 1 .. k : (s \o t)[j] = s[j]
        /\ \A j \in k + 1 .. k + 1 : (s \o t)[j] = t[j - k]
    <3>1. /\ s \o t \in Seq(Val) /\ Len(s \o t) = Len(s) + Len(t)
          /\ \A j \in 1 .. Len(s) : (s \o t)[j] = s[j]
          /\ \A j \in Len(s) + 1 .. Len(s) + Len(t) : (s \o t)[j] = t[j - Len(s)]
      BY <2>2, <2>4, ConcatHolds
    <3> QED
      BY <2>2, <2>4, <3>1, Zenon
  <2>7. ASSUME NEW j \in 1 .. k + 1
        PROVE  u[j] = (s \o t)[j]
    <3>1. CASE j \in 1 .. k
      <4>1. u[j] = data[First + Period * (j - 1) + 1]
        BY <2>1, <2>3
      <4> QED
        BY <2>2, <2>6, <3>1, <4>1
    <3>2. CASE j = k + 1
      <4>1. j - 1 = k /\ j - k = 1 /\ j \in k + 1 .. k + 1
        BY <2>5, <3>2
      <4>2. u[j] = data[n + 1]
        <5>1. u[j] = data[First + Period * (j - 1) + 1]
          BY <2>1, <2>3
        <5>2. First \in Int /\ Period * k \in Int
          BY <1>1, <2>5, Md5Assumption, FirstHolds
        <5>3. First + Period * k + 1 = n + 1
          BY <2>1, <5>2
        <5> QED
          BY <4>1, <5>1, <5>3
      <4> QED
        BY <2>4, <2>6, <4>1, <4>2
    <3>3. j \in 1 .. k \/ j = k + 1
      BY <2>5
    <3> QED
      BY <3>1, <3>2, <3>3, Zenon
  <2>8. Len(u) = Len(s \o t)
    BY <2>1, <2>3, <2>6
  <2>9. \A j \in 1 .. Len(u) : u[j] = (s \o t)[j]
    BY <2>1, <2>3, <2>7
  <2>10. u = s \o t
    BY <2>3, <2>6, <2>8, <2>9, SeqEqual
  <2> QED
    BY <2>10 DEF u, s, t
<1>5. ASSUME ~ Sampled(n)
      PROVE  Picked(n + 1) = Picked(n)
  <2>1. Count(n + 1) = Count(n)
    BY <1>1, <1>2, <1>5, SampledNext
  <2> QED
    BY <2>1, Zenon DEF Picked
<1> QED
  BY <1>3, <1>4, <1>5

-----------------------------------------------------------------------------
(* The padding *)

LEMMA PadLengthHolds ==
  ASSUME NEW r \in 0 .. Block - 1
  PROVE  /\ PadLength(r) \in 1 .. Block
         /\ \E k \in {1, 2} : r + PadLength(r) + LengthBytes = Block * k
BY Md5Assumption DEF PadLength

LEMMA PaddingHolds ==
  ASSUME NEW n \in Nat
  PROVE  /\ Padding(n) \in Seq(Val) /\ Len(Padding(n)) = n
         /\ \A j \in 1 .. n : Padding(n)[j] = IF j = 1 THEN Mark ELSE 0
<1>1. /\ Padding(n) \in [1 .. n -> Val]
      /\ \A j \in 1 .. n : Padding(n)[j] = IF j = 1 THEN Mark ELSE 0
  BY DEF Padding, Val
<1> QED
  BY <1>1

LEMMA LengthHolds ==
  ASSUME NEW n \in Nat
  PROVE  LengthOf(n) \in Seq(Val) /\ Len(LengthOf(n)) = LengthBytes
<1>1. LengthOf(n) \in [1 .. LengthBytes -> Val]
  <2>1. ASSUME NEW j \in 1 .. LengthBytes
        PROVE  LengthOf(n)[j] \in Val
    <3> DEFINE of(x) == {LengthOf(x)[y] : y \in 1 .. LengthBytes}
    <3>1. LengthOf(n)[j] \in of(n)
      OBVIOUS
    <3> HIDE DEF of
    <3>2. LengthOf(n)[j] \in UNION {of(x) : x \in Nat}
      BY <3>1
    <3> QED
      BY <3>2 DEF of, Val
  <2>2. LengthOf(n) = [j \in 1 .. LengthBytes |-> LengthOf(n)[j]]
    BY Zenon DEF LengthOf
  <2> QED
    BY <2>1, <2>2, Zenon
<1>2. LengthBytes \in Nat
  BY Md5Assumption
<1> QED
  BY <1>1, <1>2

(* What the code has handed to md5_update after each part of md5_final. *)
LEMMA PaddedHolds ==
  ASSUME ChunkOK
  PROVE  LET m == Len(Message)
             pad == PadLength(m % Block)
         IN  /\ Message \in Seq(Val) /\ m \in 0 .. MaxSize /\ pad \in 1 .. Block
             /\ Padding(pad) \in Seq(Val) /\ Len(Padding(pad)) = pad
             /\ Padded \in Seq(Val) /\ Len(Padded) = m + pad
             /\ LengthOf(8 * m) \in Seq(Val) /\ Len(LengthOf(8 * m)) = LengthBytes
             /\ \E k \in Nat : m + pad + LengthBytes = Block * k
<1> DEFINE m == Len(Message)
           r == m % Block
           pad == PadLength(r)
<1>1. Block \in Nat \ {0} /\ LengthBytes \in Nat /\ MaxSize \in Nat
  BY Md5Assumption
<1>2. Message \in Seq(Val) /\ m \in 0 .. MaxSize
  <2>1. Len(data) \in Nat /\ Len(data) <= MaxSize /\ Len(data) \in 0 .. Len(data)
    BY DEF ChunkOK
  <2>2. Message \in Seq(Val) /\ m = Count(Len(data)) /\ Count(Len(data)) \in 0 .. Len(data)
    BY <2>1, PickedHolds DEF Message
  <2> HIDE DEF m
  <2> QED
    BY <1>1, <2>1, <2>2
<1> HIDE DEF m
<1>3. m \in Nat /\ 8 * m \in Nat
  BY <1>1, <1>2
<1>4. r \in 0 .. Block - 1 /\ m \div Block \in Nat /\ m = Block * (m \div Block) + r
  BY <1>1, <1>3, DivMod
<1> HIDE DEF r
<1>5. pad \in 1 .. Block /\ \E k \in {1, 2} : r + pad + LengthBytes = Block * k
  BY <1>4, PadLengthHolds
<1> HIDE DEF pad
<1>6. pad \in Nat
  BY <1>1, <1>5
<1>7. Padding(pad) \in Seq(Val) /\ Len(Padding(pad)) = pad
  BY <1>6, PaddingHolds
<1>8. Padded = Message \o Padding(pad)
  BY DEF Padded, pad, r, m
<1>9. Padded \in Seq(Val) /\ Len(Padded) = m + pad
  BY <1>2, <1>7, <1>8, ConcatHolds DEF m
<1>10. LengthOf(8 * m) \in Seq(Val) /\ Len(LengthOf(8 * m)) = LengthBytes
  BY <1>3, LengthHolds
<1>11. \E k \in Nat : m + pad + LengthBytes = Block * k
  <2>1. PICK x \in {1, 2} : r + pad + LengthBytes = Block * x
    BY <1>5
  <2> DEFINE d == m \div Block
  <2>2. d \in Nat /\ m = Block * d + r
    BY <1>4
  <2> HIDE DEF d
  <2>3. Block * (d + x) = Block * d + Block * x /\ d + x \in Nat /\ Block * d \in Nat /\ Block * x \in Nat
    BY <1>1, <2>1, <2>2
  <2>4. r \in Nat
    BY <1>4, <1>1
  <2>5. m + pad + LengthBytes = Block * (d + x)
    BY <1>1, <1>6, <2>1, <2>2, <2>3, <2>4
  <2> QED
    BY <2>3, <2>5
<1> QED
  BY <1>2, <1>5, <1>7, <1>9, <1>10, <1>11 DEF m, r, pad

-----------------------------------------------------------------------------
(* The invariant *)

LEMMA InitTaken ==
  ASSUME Init
  PROVE  TakenInv
<1>1. PICK n \in 0 .. MaxSize : data \in [1 .. n -> Bytes]
  BY DEF Init
<1>2. n \in Nat /\ n <= MaxSize
  BY <1>1, Md5Assumption
<1>3. data \in Seq(Bytes) /\ Len(data) = n
  BY <1>1, <1>2
<1>4. ChunkOK
  BY <1>2, <1>3, Md5Assumption DEF Init, ChunkOK
<1>5. 0 \in 0 .. Len(data)
  BY <1>2, <1>3
<1>6. Picked(0) \in Seq(Val) /\ Len(Picked(0)) = 0
  <2>1. /\ Picked(0) \in Seq(Val) /\ Len(Picked(0)) = Count(0) /\ Count(0) \in 0 .. 0
    BY <1>4, <1>5, PickedHolds
  <2> QED
    BY <2>1
<1>7. Taken(Empty, Picked(0))
  <2> DEFINE s == Picked(0)
  <2>1. Empty.bit_count = 0 /\ Empty.fed = <<>> /\ Len(Empty.fed) = 0 /\ Empty.fed \in Seq(Val)
    BY DEF Empty
  <2>2. Empty.buffer \in [0 .. Block - 1 -> Val]
    BY DEF Empty, Val
  <2>3. Block * 0 = 0 /\ 8 * 0 = 0 /\ 0 - 0 \in 0 .. Block - 1 /\ 0 \in Nat /\ 1 .. 0 = {} /\ 0 + 1 .. 0 = {}
    BY Md5Assumption
  <2> HIDE DEF s
  <2>4. Len(s) = 0
    BY <1>6 DEF s
  <2>5. Taken(Empty, s)
    BY <2>1, <2>2, <2>3, <2>4 DEF Taken
  <2> QED
    BY <2>5 DEF s
<1> QED
  BY <1>4, <1>7 DEF Init, TakenInv

LEMMA ChunkKept ==
  ASSUME UNCHANGED <<data, base_offset>>
  PROVE  /\ Message' = Message /\ Padded' = Padded
         /\ \A n : Picked(n)' = Picked(n)
BY DEF Message, Padded, Picked, Count, First

(* One turn of the loop takes the byte when it is sampled. *)
LEMMA SampleKeeps ==
  ASSUME TakenInv, Sample
  PROVE  TakenInv'
<1>1. ChunkOK /\ pc = "sample" /\ Taken(ctx, Picked(i)) /\ i \in 0 .. Len(data)
  BY DEF TakenInv, Sample, ChunkOK
<1>2. UNCHANGED <<data, base_offset, bits>>
  BY DEF Sample
<1>3. Message' = Message /\ \A n : Picked(n)' = Picked(n)
  BY <1>2, ChunkKept
<1>4. CASE i = Len(data)
  <2>1. pc' = "pad" /\ i' = i /\ ctx' = ctx
    BY <1>4 DEF Sample
  <2>2. Message = Picked(i)
    BY <1>4 DEF Message
  <2>3. Taken(ctx', Message')
    BY <1>1, <1>3, <2>1, <2>2, Zenon
  <2>4. Taken(ctx, Message)'
    BY <2>3 DEF Taken
  <2>5. ChunkOK'
    BY <1>1, <1>2, <2>1 DEF ChunkOK
  <2> QED
    BY <2>1, <2>4, <2>5 DEF TakenInv
<1>5. CASE i # Len(data)
  <2>1. /\ pc' = "sample" /\ i' = i + 1
        /\ ctx' = IF Sampled(i) THEN md5_update(ctx, <<data[i + 1]>>) ELSE ctx
    BY <1>1, <1>5 DEF Sample
  <2>2. Len(data) \in Nat /\ Len(data) <= MaxSize /\ MaxSize \in Nat /\ Block \in Nat
    BY <1>1, Md5Assumption DEF ChunkOK
  <2>3. i \in 0 .. Len(data) - 1 /\ i \in Nat /\ i + 1 \in 0 .. Len(data)
    BY <1>1, <1>5, <2>2
  <2>4. /\ <<data[i + 1]>> \in Seq(Val)
        /\ Sampled(i) => Picked(i + 1) = Picked(i) \o <<data[i + 1]>>
        /\ ~ Sampled(i) => Picked(i + 1) = Picked(i)
    BY <1>1, <2>3, PickedNext
  <2>5. Taken(ctx', Picked(i + 1))
    <3>1. CASE Sampled(i)
      <4>1. Picked(i) \in Seq(Val) /\ Len(Picked(i)) \in 0 .. i
        BY <1>1, PickedHolds
      <4> DEFINE W == Radix ^ LengthBytes
                 s == Picked(i)
                 t == <<data[i + 1]>>
      <4>2. W \in Nat /\ 8 * (MaxSize + 2 * Block) < W
        BY Md5Assumption
      <4>3. Len(t) = 1 /\ t \in Seq(Val)
        BY <2>4
      <4> HIDE DEF W, s, t
      <4>4. 8 * (Len(s) + Len(t)) < W
        <5>1. Len(s) \in 0 .. i
          BY <4>1 DEF s
        <5> QED
          BY <2>2, <2>3, <4>2, <4>3, <5>1
      <4>5. Taken(md5_update(ctx, t), s \o t)
        BY <1>1, <4>1, <4>3, <4>4, UpdateTaken DEF s, W
      <4> QED
        BY <2>1, <2>4, <3>1, <4>5, Zenon DEF s, t
    <3>2. CASE ~ Sampled(i)
      BY <1>1, <2>1, <2>4, <3>2, Zenon
    <3> QED
      BY <3>1, <3>2
  <2>6. Taken(ctx, Picked(i))'
    <3>1. Picked(i)' = Picked(i + 1)
      BY <1>2, <2>1 DEF Picked, Count, First
    <3> QED
      BY <2>5, <3>1 DEF Taken
  <2>7. ChunkOK'
    BY <1>1, <1>2, <2>1, <2>3 DEF ChunkOK
  <2> QED
    BY <2>1, <2>6, <2>7 DEF TakenInv
<1> QED
  BY <1>4, <1>5

(* The padding and then the length are taken. *)
LEMMA PadKeeps ==
  ASSUME TakenInv, Pad
  PROVE  TakenInv'
<1>1. ChunkOK /\ Taken(ctx, Message)
  BY DEF TakenInv, Pad
<1>2. UNCHANGED <<data, base_offset, i>> /\ pc' = "length"
  BY DEF Pad
<1> DEFINE W == Radix ^ LengthBytes
           m == Len(Message)
           pad == PadLength(m % Block)
<1>3. /\ Message \in Seq(Val) /\ m \in 0 .. MaxSize /\ pad \in 1 .. Block
      /\ Padding(pad) \in Seq(Val) /\ Len(Padding(pad)) = pad
  BY <1>1, PaddedHolds
<1>4. W \in Nat /\ 8 * (MaxSize + 2 * Block) < W /\ MaxSize \in Nat /\ Block \in Nat
  BY Md5Assumption
<1>5. Index(ctx) = m % Block
  BY <1>1, <1>3, IndexTaken
<1>6. ctx.bit_count = 8 * m
  BY <1>1 DEF Taken
<1>7. ctx' = md5_update(ctx, Padding(pad)) /\ bits' = LengthOf(8 * m)
  BY <1>5, <1>6, Zenon DEF Pad
<1>8. Padded = Message \o Padding(pad)
  BY DEF Padded
<1> HIDE DEF W, m, pad
<1>9. 8 * (m + Len(Padding(pad))) < W
  BY <1>3, <1>4
<1>10. Taken(ctx', Padded)
  BY <1>1, <1>3, <1>7, <1>8, <1>9, UpdateTaken DEF W, m
<1>11. Message' = Message /\ Padded' = Padded
  BY <1>2, ChunkKept
<1>12. Taken(ctx, Padded)' /\ bits' = LengthOf(8 * Len(Message))'
  BY <1>7, <1>10, <1>11 DEF Taken, LengthOf, m
<1>13. ChunkOK'
  BY <1>1, <1>2 DEF ChunkOK
<1> QED
  BY <1>2, <1>12, <1>13 DEF TakenInv

LEMMA LengthKeeps ==
  ASSUME TakenInv, AppendLength
  PROVE  TakenInv'
<1> DEFINE W == Radix ^ LengthBytes
           m == Len(Message)
           pad == PadLength(m % Block)
<1>1. ChunkOK /\ Taken(ctx, Padded) /\ bits = LengthOf(8 * m)
  BY DEF TakenInv, AppendLength
<1>2. UNCHANGED <<data, base_offset, i, bits>> /\ pc' = "done" /\ ctx' = md5_update(ctx, bits)
  BY DEF AppendLength
<1>3. /\ m \in 0 .. MaxSize /\ pad \in 1 .. Block
      /\ Padded \in Seq(Val) /\ Len(Padded) = m + pad
      /\ bits \in Seq(Val) /\ Len(bits) = LengthBytes
  BY <1>1, PaddedHolds
<1>4. /\ W \in Nat /\ 8 * (MaxSize + 2 * Block) < W /\ MaxSize \in Nat /\ Block \in Nat
      /\ LengthBytes \in 1 .. Block - 1
  BY Md5Assumption
<1>5. Message' = Message /\ Padded' = Padded
  BY <1>2, ChunkKept
<1>6. bits' = LengthOf(8 * Len(Message))'
  BY <1>1, <1>2, <1>5 DEF LengthOf
<1> HIDE DEF W, m, pad
<1>7. 8 * (Len(Padded) + Len(bits)) < W
  BY <1>3, <1>4
<1>8. Taken(ctx', Padded \o bits)
  BY <1>1, <1>2, <1>3, <1>7, UpdateTaken DEF W
<1>9. Taken(ctx, Padded \o bits)'
  BY <1>2, <1>5, <1>8 DEF Taken
<1>10. ChunkOK'
  BY <1>1, <1>2 DEF ChunkOK
<1> QED
  BY <1>2, <1>6, <1>9, <1>10 DEF TakenInv

LEMMA NextTaken ==
  ASSUME TakenInv, [Next]_vars
  PROVE  TakenInv'
<1>1. CASE UNCHANGED vars
  <2>1. UNCHANGED <<data, base_offset>> /\ i' = i /\ ctx' = ctx /\ bits' = bits /\ pc' = pc
    BY <1>1 DEF vars
  <2>2. Message' = Message /\ Padded' = Padded /\ Picked(i)' = Picked(i)
    BY <2>1 DEF Message, Padded, Picked, Count, First
  <2>3. ChunkOK'
    BY <2>1 DEF TakenInv, ChunkOK
  <2>4. LengthOf(8 * Len(Message))' = LengthOf(8 * Len(Message))
    BY <2>2 DEF LengthOf
  <2>5. /\ Taken(ctx, Picked(i))' <=> Taken(ctx, Picked(i))
        /\ Taken(ctx, Message)' <=> Taken(ctx, Message)
        /\ Taken(ctx, Padded)' <=> Taken(ctx, Padded)
        /\ Taken(ctx, Padded \o bits)' <=> Taken(ctx, Padded \o bits)
    BY <2>1, <2>2, Zenon DEF Taken
  <2> QED
    BY <2>1, <2>3, <2>4, <2>5, Zenon DEF TakenInv
<1> QED
  BY <1>1, SampleKeeps, PadKeeps, LengthKeeps DEF Next, Done

(* At the end everything taken is in whole blocks. *)
LEMMA AllFed ==
  ASSUME TakenInv, pc = "done"
  PROVE  ctx.fed = Padded \o bits
<1> DEFINE s == Padded \o bits
           f == ctx.fed
           m == Len(Message)
           pad == PadLength(m % Block)
<1>1. ChunkOK /\ Taken(ctx, s) /\ bits = LengthOf(8 * m)
  BY DEF TakenInv
<1>2. /\ m \in 0 .. MaxSize /\ pad \in 1 .. Block
      /\ Padded \in Seq(Val) /\ Len(Padded) = m + pad
      /\ bits \in Seq(Val) /\ Len(bits) = LengthBytes
      /\ \E k \in Nat : m + pad + LengthBytes = Block * k
  BY <1>1, PaddedHolds
<1>3. s \in Seq(Val) /\ Len(s) = (m + pad) + LengthBytes
  BY <1>2, ConcatHolds
<1>4. Len(s) % Block = Len(s) - Len(f)
  BY <1>1, <1>3, IndexTaken
<1>5. /\ f \in Seq(Val)
      /\ \A j \in 1 .. Len(f) : f[j] = s[j]
  BY <1>1 DEF Taken
<1> HIDE DEF s, f, m, pad
<1>6. PICK k \in Nat : m + pad + LengthBytes = Block * k
  BY <1>2
<1>7. Block \in Nat \ {0} /\ MaxSize \in Nat /\ LengthBytes \in Nat
  BY Md5Assumption
<1>8. Len(s) = Block * k + 0 /\ 0 \in 0 .. Block - 1
  BY <1>2, <1>3, <1>6, <1>7
<1>9. (Block * k + 0) % Block = 0
  BY <1>7, <1>8, DivUnique
<1>10. Len(s) \in Nat /\ Len(f) \in Nat
  BY <1>3, <1>5
<1>11. Len(s) - Len(f) = 0
  BY <1>4, <1>8, <1>9, Zenon
<1>12. Len(f) = Len(s)
  BY <1>10, <1>11
<1>13. f = s
  BY <1>3, <1>5, <1>12, SeqEqual
<1> QED
  BY <1>13 DEF f, s

LEMMA TakenDigest ==
  ASSUME TakenInv
  PROVE  DigestOfPadded
<1>1. DOMAIN ctx.buffer = 0 .. Block - 1
  <2>1. \E s : Taken(ctx, s)
    BY Zenon DEF TakenInv
  <2> QED
    BY <2>1 DEF Taken
<1>2. ASSUME pc = "done"
      PROVE  LET n == Len(ctx.fed)
                 m == Len(Message)
             IN  /\ n % Block = 0
                 /\ n - (m + 1 + LengthBytes) \in 0 .. Block - 1
                 /\ SubSeq(ctx.fed, 1, m) = Message
                 /\ ctx.fed[m + 1] = Mark
                 /\ \A j \in m + 2 .. n - LengthBytes : ctx.fed[j] = 0
                 /\ SubSeq(ctx.fed, n - LengthBytes + 1, n) = LengthOf(8 * m)
  <2> DEFINE f == ctx.fed
             n == Len(f)
             m == Len(Message)
             pad == PadLength(m % Block)
             L == LengthBytes
  <2>1. ChunkOK /\ bits = LengthOf(8 * m) /\ f = Padded \o bits
    BY <1>2, AllFed DEF TakenInv
  <2>2. /\ Message \in Seq(Val) /\ m \in 0 .. MaxSize /\ pad \in 1 .. Block
        /\ Padding(pad) \in Seq(Val) /\ Len(Padding(pad)) = pad
        /\ Padded \in Seq(Val) /\ Len(Padded) = m + pad
        /\ bits \in Seq(Val) /\ Len(bits) = L
        /\ \E k \in Nat : m + pad + L = Block * k
    BY <2>1, PaddedHolds
  <2>3. Padded = Message \o Padding(pad)
    BY DEF Padded
  <2>4. Block \in Nat \ {0} /\ MaxSize \in Nat /\ L \in Nat \ {0} /\ m \in Nat /\ pad \in Nat \ {0}
    BY <2>2, Md5Assumption
  <2>5. /\ f \in Seq(Val) /\ n = (m + pad) + L
        /\ \A j \in 1 .. m + pad : f[j] = Padded[j]
        /\ \A j \in (m + pad) + 1 .. (m + pad) + L : f[j] = bits[j - (m + pad)]
    <3>1. /\ f \in Seq(Val) /\ n = Len(Padded) + Len(bits)
          /\ \A j \in 1 .. Len(Padded) : f[j] = Padded[j]
          /\ \A j \in Len(Padded) + 1 .. Len(Padded) + Len(bits) : f[j] = bits[j - Len(Padded)]
      <4> DEFINE g == Padded \o bits
      <4>1. /\ g \in Seq(Val) /\ Len(g) = Len(Padded) + Len(bits)
            /\ \A j \in 1 .. Len(Padded) : g[j] = Padded[j]
            /\ \A j \in Len(Padded) + 1 .. Len(Padded) + Len(bits) : g[j] = bits[j - Len(Padded)]
        BY <2>2, ConcatHolds
      <4>2. f = g
        BY <2>1
      <4> HIDE DEF g, f
      <4> QED
        BY <4>1, <4>2, Zenon
    <3> HIDE DEF f, n, m, pad, L
    <3> QED
      BY <2>2, <3>1, Zenon
  <2>6. /\ \A j \in 1 .. m : Padded[j] = Message[j]
        /\ \A j \in m + 1 .. m + pad : Padded[j] = Padding(pad)[j - m]
    <3>1. /\ \A j \in 1 .. Len(Message) : Padded[j] = Message[j]
          /\ \A j \in Len(Message) + 1 .. Len(Message) + Len(Padding(pad)) :
                Padded[j] = Padding(pad)[j - Len(Message)]
      BY <2>2, <2>3, ConcatHolds
    <3> HIDE DEF pad
    <3> QED
      BY <2>2, <3>1, Zenon
  <2>7. \A j \in 1 .. pad : Padding(pad)[j] = IF j = 1 THEN Mark ELSE 0
    BY <2>4, PaddingHolds
  <2>8. Len(Message) = m /\ Len(bits) = L
    BY <2>2
  <2> HIDE DEF f, n, m, pad, L
  <2>9. n % Block = 0
    <3>1. PICK k \in Nat : m + pad + L = Block * k
      BY <2>2
    <3>2. n = Block * k + 0 /\ 0 \in 0 .. Block - 1
      BY <2>4, <2>5, <3>1
    <3> QED
      BY <2>4, <3>2, DivUnique
  <2>10. n - (m + 1 + L) \in 0 .. Block - 1
    BY <2>2, <2>4, <2>5
  <2>11. SubSeq(f, 1, m) = Message
    <3> DEFINE t == SubSeq(f, 1, m)
    <3>1. m \in 0 .. n /\ 1 <= m + 1 /\ 1 \in Nat \ {0} /\ m - 1 + 1 = m
      BY <2>4, <2>5
    <3>2. /\ t \in Seq(Val) /\ Len(t) = m - 1 + 1
          /\ \A j \in 1 .. m - 1 + 1 : t[j] = f[j + 1 - 1]
      BY <2>5, <3>1, SubSeqHolds DEF n
    <3>3. \A j \in 1 .. m : j + 1 - 1 = j /\ j \in 1 .. m + pad
      BY <2>4
    <3> HIDE DEF t
    <3>4. Len(t) = m /\ \A j \in 1 .. m : t[j] = Message[j]
      BY <2>5, <2>6, <3>1, <3>2, <3>3
    <3>5. t = Message
      BY <2>2, <2>8, <3>2, <3>4, SeqEqual
    <3> QED
      BY <3>5 DEF t
  <2>12. f[m + 1] = Mark
    <3>1. m + 1 \in 1 .. m + pad /\ m + 1 \in m + 1 .. m + pad /\ (m + 1) - m = 1 /\ 1 \in 1 .. pad
      BY <2>4
    <3> QED
      BY <2>5, <2>6, <2>7, <3>1
  <2>13. ASSUME NEW j \in m + 2 .. n - L
         PROVE  f[j] = 0
    <3>1. j \in 1 .. m + pad /\ j \in m + 1 .. m + pad /\ j - m \in 1 .. pad /\ j - m # 1
      BY <2>4, <2>5
    <3> QED
      BY <2>5, <2>6, <2>7, <3>1
  <2>14. SubSeq(f, n - L + 1, n) = bits
    <3> DEFINE a == n - L + 1
               t == SubSeq(f, a, n)
    <3>1. n \in 0 .. n /\ a <= n + 1 /\ a \in Nat \ {0} /\ a = (m + pad) + 1 /\ n - a + 1 = L
      BY <2>4, <2>5
    <3> HIDE DEF a
    <3>2. /\ t \in Seq(Val) /\ Len(t) = n - a + 1
          /\ \A j \in 1 .. n - a + 1 : t[j] = f[j + a - 1]
      BY <2>5, <3>1, SubSeqHolds DEF n
    <3>3. \A j \in 1 .. L : /\ j + a - 1 \in (m + pad) + 1 .. (m + pad) + L
                            /\ (j + a - 1) - (m + pad) = j
      BY <2>4, <3>1
    <3> HIDE DEF t
    <3>4. ASSUME NEW j \in 1 .. L
          PROVE  t[j] = bits[j]
      <4>1. t[j] = f[j + a - 1]
        BY <3>1, <3>2, Zenon
      <4>2. f[j + a - 1] = bits[(j + a - 1) - (m + pad)]
        BY <2>5, <3>3, Zenon
      <4> QED
        BY <3>3, <4>1, <4>2, Zenon
    <3>5. t = bits
      <4>1. Len(t) = Len(bits) /\ \A j \in 1 .. Len(t) : t[j] = bits[j]
        BY <2>8, <3>1, <3>2, <3>4, Zenon
      <4> QED
        BY <2>2, <3>2, <4>1, SeqEqual
    <3> QED
      BY <3>5 DEF t, a
  <2> QED
    BY <2>1, <2>9, <2>10, <2>11, <2>12, <2>13, <2>14 DEF n, m, f, L
<1> QED
  BY <1>1, <1>2 DEF DigestOfPadded

(* The blocks that md5_update and md5_final give to md5_transform are those *)
(* of MD5's padding of the sampled bytes, for every chunk and offset, every *)
(* block size and width of the length field, and no memcpy leaves buffer[]. *)
THEOREM DigestCorrect == Spec => []DigestOfPadded
<1>1. Init => TakenInv
  BY InitTaken
<1>2. TakenInv /\ [Next]_vars => TakenInv'
  BY NextTaken
<1>3. TakenInv => DigestOfPadded
  BY TakenDigest
<1> QED
  BY <1>1, <1>2, <1>3, PTL DEF Spec

=============================================================================
