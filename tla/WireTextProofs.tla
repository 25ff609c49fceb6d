--------------------------- MODULE WireTextProofs ---------------------------
(* What the texts of requests and answers hold and how they are read, for   *)
(* every name, number, directory and size of the buffers.                   *)
EXTENDS Wire, SequenceTheorems, NaturalsInduction, WellFoundedInduction, TLAPS

-----------------------------------------------------------------------------
(* Induction, on sets in place of predicates *)

LEMMA LeastNumber ==
  ASSUME NEW T, T \subseteq Nat, T # {}
  PROVE  \E n \in T : \A m \in T : n <= m
<1>1. IsWellFoundedOn(OpToRel(<, Nat), Nat)
  BY NatLessThanWellFounded, Zenon
<1>2. PICK n \in T : \A m \in T : ~ (<<m, n>> \in OpToRel(<, Nat))
  BY <1>1, WFMin, Zenon
<1>3. \A m \in T : ~ (m < n)
  BY <1>2 DEF OpToRel
<1> QED
  BY <1>3

LEMMA SetInduction ==
  ASSUME NEW T, 0 \in T, \A n \in Nat : n \in T => n + 1 \in T
  PROVE  \A n \in Nat : n \in T
<1> SUFFICES ASSUME NEW k \in Nat, k \notin T PROVE FALSE
  OBVIOUS
<1> DEFINE U == {n \in Nat : n \notin T}
<1>1. U \subseteq Nat /\ U # {}
  OBVIOUS
<1> HIDE DEF U
<1>2. PICK n \in U : \A m \in U : n <= m
  BY <1>1, LeastNumber
<1>3. n # 0 /\ n - 1 \in Nat /\ n - 1 \notin U
  BY <1>1, <1>2 DEF U
<1> QED
  BY <1>2, <1>3 DEF U

-----------------------------------------------------------------------------
(* Texts *)

(* t is a sequence. *)
IsText(t) == Len(t) \in Nat /\ t \in Seq({t[i] : i \in 1 .. Len(t)})

(* The symbols of text after the first n are those of piece. *)
Has(text, n, piece) ==
    n + Len(piece) <= Len(text) /\ \A i \in 1 .. Len(piece) : text[n + i] = piece[i]

LEMMA SeqIsText ==
  ASSUME NEW X, NEW t \in Seq(X)
  PROVE  IsText(t)
<1> DEFINE Y == {t[i] : i \in 1 .. Len(t)}
<1>1. Len(t) \in Nat /\ DOMAIN t = 1 .. Len(t) /\ t = [i \in 1 .. Len(t) |-> t[i]]
  OBVIOUS
<1>2. \A i \in 1 .. Len(t) : t[i] \in Y
  OBVIOUS
<1> HIDE DEF Y
<1>3. t \in [1 .. Len(t) -> Y]
  BY <1>1, <1>2
<1>4. t \in Seq(Y)
  BY <1>1, <1>3, SeqDef
<1> QED
  BY <1>1, <1>4 DEF IsText, Y

LEMMA ConcatText ==
  ASSUME NEW a, NEW b, IsText(a), IsText(b)
  PROVE  /\ IsText(a \o b) /\ Len(a \o b) = Len(a) + Len(b)
         /\ \A i \in 1 .. Len(a) : (a \o b)[i] = a[i]
         /\ \A i \in 1 .. Len(b) : (a \o b)[Len(a) + i] = b[i]
<1> DEFINE A == {a[i] : i \in 1 .. Len(a)}
           B == {b[i] : i \in 1 .. Len(b)}
<1>1. a \in Seq(A) /\ b \in Seq(B)
  BY DEF IsText
<1> HIDE DEF A, B
<1>2. a \in Seq(A \cup B) /\ b \in Seq(A \cup B)
  BY <1>1
<1>3. a \o b \in Seq(A \cup B)
  BY <1>2
<1>4. IsText(a \o b)
  BY <1>3, SeqIsText
<1> QED
  BY <1>2, <1>4

LEMMA EmptyText == IsText(<<>>) /\ Len(<<>>) = 0
BY DEF IsText

LEMMA WordText ==
  ASSUME NEW w
  PROVE  IsText(<<w>>) /\ Len(<<w>>) = 1 /\ <<w>>[1] = w
<1>1. <<w>> \in Seq({w})
  OBVIOUS
<1> QED
  BY <1>1, SeqIsText

LEMMA HasConcat ==
  ASSUME NEW text, Len(text) \in Nat, NEW n \in Nat, NEW a, NEW b, IsText(a), IsText(b),
         Has(text, n, a \o b)
  PROVE  Has(text, n, a) /\ Has(text, n + Len(a), b) /\ n + Len(a) \in Nat
<1>1. Len(a) \in Nat /\ Len(b) \in Nat
  BY DEF IsText
<1> DEFINE c == a \o b
<1>2. /\ Len(c) = Len(a) + Len(b)
      /\ \A i \in 1 .. Len(a) : c[i] = a[i]
      /\ \A i \in 1 .. Len(b) : c[Len(a) + i] = b[i]
  BY ConcatText
<1>3. n + Len(c) <= Len(text) /\ \A i \in 1 .. Len(c) : text[n + i] = c[i]
  BY DEF Has
<1> HIDE DEF c
<1>4. Has(text, n, a)
  BY <1>1, <1>2, <1>3 DEF Has
<1>5. ASSUME NEW i \in 1 .. Len(b)
      PROVE  text[(n + Len(a)) + i] = b[i]
  <2>1. Len(a) + i \in 1 .. Len(c) /\ n + (Len(a) + i) = (n + Len(a)) + i
    BY <1>1, <1>2
  <2> QED
    BY <1>2, <1>3, <2>1
<1>6. (n + Len(a)) + Len(b) <= Len(text)
  BY <1>1, <1>2, <1>3
<1> QED
  BY <1>1, <1>4, <1>5, <1>6 DEF Has

LEMMA HasWord ==
  ASSUME NEW text, NEW n \in Nat, NEW w, Has(text, n, <<w>>), Len(text) \in Nat
  PROVE  n + 1 \in 1 .. Len(text) /\ text[n + 1] = w
BY WordText DEF Has

(* FlattenSeq puts the pieces one after the other. *)
LEMMA FlattenTurns ==
  ASSUME NEW s, Len(s) \in Nat, Len(s) # 0
  PROVE  \E f : /\ FlattenSeq(s) = f[Len(s)] /\ f[1] = s[1]
                /\ \A i \in 2 .. Len(s) : f[i] = f[i - 1] \o s[i]
<1> DEFINE join(x, i) == x \o s[i]
           solves(g, k) == g = [i \in 1 .. k |-> IF i = 1 THEN s[i] ELSE join(g[i - 1], i)]
           T == {k \in Nat : \E g : solves(g, k)}
<1>1. 0 \in T
  <2>1. solves([i \in 1 .. 0 |-> s], 0)
    OBVIOUS
  <2> QED
    BY <2>1
<1>2. ASSUME NEW k \in Nat, k \in T
      PROVE  k + 1 \in T
  <2> HIDE DEF join
  <2>1. PICK g : solves(g, k)
    BY <1>2
  <2> DEFINE h == [i \in 1 .. k + 1 |-> IF i <= k THEN g[i] ELSE IF i = 1 THEN s[i] ELSE join(g[k], i)]
  <2>2. \A i \in 1 .. k + 1 : h[i] = IF i = 1 THEN s[i] ELSE join(h[i - 1], i)
    <3> TAKE i \in 1 .. k + 1
    <3>1. CASE i <= k
      <4>1. i \in 1 .. k /\ (i # 1 => i - 1 \in 1 .. k + 1 /\ i - 1 <= k)
        BY <3>1
      <4>2. h[i] = g[i] /\ (i # 1 => h[i - 1] = g[i - 1])
        BY <3>1, <4>1
      <4>3. g[i] = IF i = 1 THEN s[i] ELSE join(g[i - 1], i)
        BY <2>1, <4>1
      <4> QED
        BY <4>2, <4>3
    <3>2. CASE i = k + 1
      <4>1. ~ (i <= k) /\ (i # 1 => i - 1 = k /\ k \in 1 .. k + 1 /\ k <= k)
        BY <3>2
      <4>2. /\ h[i] = IF i = 1 THEN s[i] ELSE join(g[k], i)
            /\ i # 1 => h[i - 1] = g[k]
        BY <4>1
      <4> QED
        BY <4>2
    <3> QED
      BY <3>1, <3>2
  <2>3. solves(h, k + 1) /\ k + 1 \in Nat
    BY <2>2
  <2> HIDE DEF h, solves
  <2> QED
    BY <2>3
<1>3. \A k \in Nat : k \in T
  <2> HIDE DEF T
  <2>1. \A n \in Nat : n \in T => n + 1 \in T
    BY <1>2, Zenon
  <2> QED
    BY <1>1, <2>1, SetInduction, Zenon
<1>4. PICK g : solves(g, Len(s))
  BY <1>3
<1> DEFINE f == CHOOSE x : solves(x, Len(s))
<1>5. FlattenSeq(s) = f[Len(s)]
  BY Zenon DEF FlattenSeq
<1>6. solves(f, Len(s))
  <2> HIDE DEF solves
  <2> QED
    BY <1>4, Zenon
<1> HIDE DEF f, join
<1>7. f[1] = s[1] /\ \A i \in 2 .. Len(s) : f[i] = join(f[i - 1], i)
  BY <1>6
<1> QED
  BY <1>5, <1>7 DEF join

LEMMA FlattenText ==
  ASSUME NEW s, Len(s) \in Nat, Len(s) # 0, \A i \in 1 .. Len(s) : IsText(s[i])
  PROVE  IsText(FlattenSeq(s))
<1>1. PICK f : /\ FlattenSeq(s) = f[Len(s)] /\ f[1] = s[1]
               /\ \A i \in 2 .. Len(s) : f[i] = f[i - 1] \o s[i]
  BY FlattenTurns
<1> DEFINE T == {i \in Nat : i + 1 <= Len(s) => IsText(f[i + 1])}
<1>2. 0 \in T
  BY <1>1
<1>3. ASSUME NEW i \in Nat, i \in T
      PROVE  i + 1 \in T
  <2> SUFFICES ASSUME (i + 1) + 1 <= Len(s) PROVE IsText(f[(i + 1) + 1])
    OBVIOUS
  <2>1. i + 1 <= Len(s) /\ (i + 1) + 1 \in 2 .. Len(s) /\ ((i + 1) + 1) - 1 = i + 1
    OBVIOUS
  <2>2. IsText(f[i + 1]) /\ IsText(s[(i + 1) + 1])
    BY <1>3, <2>1
  <2>3. f[(i + 1) + 1] = f[i + 1] \o s[(i + 1) + 1]
    BY <1>1, <2>1
  <2> QED
    BY <2>2, <2>3, ConcatText
<1>4. \A i \in Nat : i \in T
  <2> HIDE DEF T
  <2>1. \A i \in Nat : i \in T => i + 1 \in T
    BY <1>3, Zenon
  <2> QED
    BY <1>2, <2>1, SetInduction, Zenon
<1>5. Len(s) - 1 \in T
  BY <1>4
<1> QED
  BY <1>1, <1>5

(* Where the pieces of a flattened sequence are in a text *)
Laid(text, s, n, off) ==
    /\ off[0] = n /\ off[Len(s)] = n + Len(FlattenSeq(s))
    /\ \A i \in 1 .. Len(s) :
          off[i - 1] \in Nat /\ Has(text, off[i - 1], s[i]) /\ off[i] = off[i - 1] + Len(s[i])

LEMMA FlattenHas ==
  ASSUME NEW s, Len(s) \in Nat, Len(s) # 0, \A i \in 1 .. Len(s) : IsText(s[i]),
         NEW text, Len(text) \in Nat, NEW n \in Nat, Has(text, n, FlattenSeq(s))
  PROVE  \E off : Laid(text, s, n, off)
<1>1. PICK f : /\ FlattenSeq(s) = f[Len(s)] /\ f[1] = s[1]
               /\ \A i \in 2 .. Len(s) : f[i] = f[i - 1] \o s[i]
  BY FlattenTurns
<1>2. ASSUME NEW i \in 2 .. Len(s), IsText(f[i - 1])
      PROVE  /\ IsText(f[i]) /\ Len(f[i]) = Len(f[i - 1]) + Len(s[i])
             /\ Has(text, n, f[i]) => Has(text, n, f[i - 1]) /\ Has(text, n + Len(f[i - 1]), s[i])
  <2> DEFINE a == f[i - 1]
             b == s[i]
  <2>0. i \in 1 .. Len(s)
    OBVIOUS
  <2>1. f[i] = a \o b /\ IsText(a) /\ IsText(b)
    BY <1>1, <1>2, <2>0, Zenon
  <2> HIDE DEF a, b
  <2>2. IsText(a \o b) /\ Len(a \o b) = Len(a) + Len(b)
    BY <2>1, ConcatText, Zenon
  <2>3. Has(text, n, a \o b) => Has(text, n, a) /\ Has(text, n + Len(a), b)
    BY <2>1, HasConcat, Zenon
  <2>4. IsText(f[i]) /\ Len(f[i]) = Len(a) + Len(b)
        /\ (Has(text, n, f[i]) => Has(text, n, a) /\ Has(text, n + Len(a), b))
    BY <2>1, <2>2, <2>3
  <2> QED
    BY <2>4 DEF a, b
<1>3. \A i \in 1 .. Len(s) : IsText(f[i])
  <2> DEFINE T == {i \in Nat : i + 1 <= Len(s) => IsText(f[i + 1])}
  <2>1. 0 \in T
    BY <1>1
  <2>2. ASSUME NEW i \in Nat, i \in T
        PROVE  i + 1 \in T
    <3> SUFFICES ASSUME (i + 1) + 1 <= Len(s) PROVE IsText(f[(i + 1) + 1])
      OBVIOUS
    <3>1. i + 1 <= Len(s) /\ (i + 1) + 1 \in 2 .. Len(s) /\ ((i + 1) + 1) - 1 = i + 1
      OBVIOUS
    <3>2. IsText(f[((i + 1) + 1) - 1])
      BY <2>2, <3>1
    <3> QED
      BY <1>2, <3>1, <3>2
  <2>3. \A i \in Nat : i \in T
    <3> HIDE DEF T
    <3>1. \A i \in Nat : i \in T => i + 1 \in T
      BY <2>2, Zenon
    <3> QED
      BY <2>1, <3>1, SetInduction, Zenon
  <2>4. ASSUME NEW i \in 1 .. Len(s)
        PROVE  IsText(f[i])
    <3>1. i - 1 \in Nat /\ (i - 1) + 1 = i /\ i <= Len(s)
      OBVIOUS
    <3>2. i - 1 \in T
      BY <2>3, <3>1
    <3> QED
      BY <3>1, <3>2
  <2> QED
    BY <2>4
<1>4. \A i \in 1 .. Len(s) : Has(text, n, f[i])
  <2> DEFINE T == {k \in Nat : k + 1 <= Len(s) => Has(text, n, f[Len(s) - k])}
  <2>1. 0 \in T
    BY <1>1
  <2>2. ASSUME NEW k \in Nat, k \in T
        PROVE  k + 1 \in T
    <3> SUFFICES ASSUME (k + 1) + 1 <= Len(s) PROVE Has(text, n, f[Len(s) - (k + 1)])
      OBVIOUS
    <3>1. /\ k + 1 <= Len(s) /\ Len(s) - k \in 2 .. Len(s) /\ (Len(s) - k) - 1 = Len(s) - (k + 1)
          /\ (Len(s) - k) - 1 \in 1 .. Len(s)
      OBVIOUS
    <3>2. Has(text, n, f[Len(s) - k]) /\ IsText(f[(Len(s) - k) - 1])
      BY <1>3, <2>2, <3>1
    <3> QED
      BY <1>2, <3>1, <3>2
  <2>3. \A k \in Nat : k \in T
    <3> HIDE DEF T
    <3>1. \A k \in Nat : k \in T => k + 1 \in T
      BY <2>2, Zenon
    <3> QED
      BY <2>1, <3>1, SetInduction, Zenon
  <2>4. ASSUME NEW i \in 1 .. Len(s)
        PROVE  Has(text, n, f[i])
    <3>1. Len(s) - i \in Nat /\ (Len(s) - i) + 1 <= Len(s) /\ Len(s) - (Len(s) - i) = i
      OBVIOUS
    <3>2. Len(s) - i \in T
      BY <2>3, <3>1
    <3> QED
      BY <3>1, <3>2
  <2> QED
    BY <2>4
<1> DEFINE off == [i \in 0 .. Len(s) |-> IF i = 0 THEN n ELSE n + Len(f[i])]
<1>5. off[0] = n /\ off[Len(s)] = n + Len(FlattenSeq(s))
  BY <1>1
<1>6. \A i \in 1 .. Len(s) : Len(f[i]) \in Nat /\ Len(s[i]) \in Nat
  BY <1>3 DEF IsText
<1>7. ASSUME NEW i \in 1 .. Len(s)
      PROVE  /\ off[i - 1] \in Nat /\ Has(text, off[i - 1], s[i])
             /\ off[i] = off[i - 1] + Len(s[i])
  <2>1. CASE i = 1
    <3>1. off[i - 1] = n /\ off[i] = n + Len(f[1])
      BY <2>1
    <3> QED
      BY <1>1, <1>4, <2>1, <3>1
  <2>2. CASE i # 1
    <3>1. i \in 2 .. Len(s) /\ i - 1 \in 1 .. Len(s)
      BY <2>2
    <3>2. off[i - 1] = n + Len(f[i - 1]) /\ off[i] = n + Len(f[i])
      BY <3>1
    <3>3. IsText(f[i - 1]) /\ Has(text, n, f[i])
      BY <1>3, <1>4, <3>1
    <3>4. Len(f[i]) = Len(f[i - 1]) + Len(s[i]) /\ Has(text, n + Len(f[i - 1]), s[i])
      BY <1>2, <3>1, <3>3
    <3> DEFINE o == off[i - 1]
               l == Len(f[i - 1])
               e == off[i]
               q == Len(s[i])
    <3>5. o = n + l /\ e = n + (l + q) /\ l \in Nat /\ q \in Nat
      BY <1>6, <3>1, <3>2, <3>4
    <3>6. Has(text, n + l, s[i])
      BY <3>4
    <3> HIDE DEF off, o, l, e, q
    <3>7. o \in Nat /\ e = o + q
      BY <3>5
    <3>8. Has(text, o, s[i])
      BY <3>5, <3>6, Zenon
    <3> QED
      BY <3>7, <3>8 DEF o, e, q
  <2> QED
    BY <2>1, <2>2
<1> HIDE DEF off
<1>8. Laid(text, s, n, off)
  BY <1>5, <1>7, Zenon DEF Laid
<1> QED
  BY <1>8

(* ... and of members separated by commas *)
Separated(text, parts, n, at) ==
    /\ at[1] = n /\ \A i \in 1 .. Len(parts) : at[i] \in Nat /\ Has(text, at[i], parts[i])
    /\ at[Len(parts)] + Len(parts[Len(parts)]) = n + Len(Commas(parts))
    /\ \A i \in 1 .. Len(parts) - 1 : /\ Has(text, at[i] + Len(parts[i]), <<"comma">>)
                                      /\ at[i + 1] = (at[i] + Len(parts[i])) + 1

LEMMA CommasHas ==
  ASSUME NEW parts, IsText(parts), Len(parts) # 0, \A i \in 1 .. Len(parts) : IsText(parts[i]),
         NEW text, Len(text) \in Nat, NEW n \in Nat, Has(text, n, Commas(parts))
  PROVE  \E at : Separated(text, parts, n, at)
<1> DEFINE s == [i \in DOMAIN parts |-> IF i = 1 THEN parts[i] ELSE <<"comma">> \o parts[i]]
           c == <<"comma">>
<1>1. Commas(parts) = FlattenSeq(s)
  BY Zenon DEF Commas
<1>2. DOMAIN parts = 1 .. Len(parts) /\ Len(parts) \in Nat
  BY DEF IsText
<1>3. Len(s) = Len(parts)
  BY <1>2
<1>4. \A i \in 1 .. Len(parts) : s[i] = IF i = 1 THEN parts[i] ELSE c \o parts[i]
  BY <1>2
<1>5. IsText(c) /\ Len(c) = 1
  BY WordText
<1> HIDE DEF s, c
<1>6. ASSUME NEW i \in 1 .. Len(parts)
      PROVE  IsText(s[i]) /\ Len(parts[i]) \in Nat /\ (i # 1 => Len(s[i]) = 1 + Len(parts[i]))
  <2>1. IsText(parts[i]) /\ Len(parts[i]) \in Nat
    BY DEF IsText
  <2>2. IsText(c \o parts[i]) /\ Len(c \o parts[i]) = Len(c) + Len(parts[i])
    BY <1>5, <2>1, ConcatText, Zenon
  <2> QED
    BY <1>4, <1>5, <2>1, <2>2
<1>7. PICK off : Laid(text, s, n, off)
  <2>1. \A i \in 1 .. Len(s) : IsText(s[i])
    BY <1>3, <1>6
  <2>2. Len(s) \in Nat /\ Len(s) # 0 /\ Has(text, n, FlattenSeq(s))
    BY <1>1, <1>2, <1>3
  <2>3. \E off : Laid(text, s, n, off)
    BY <2>1, <2>2, FlattenHas, Zenon
  <2> QED
    BY <2>3
<1> DEFINE at == [i \in 1 .. Len(parts) |-> IF i = 1 THEN n ELSE off[i - 1] + 1]
<1>8. ASSUME NEW i \in 1 .. Len(parts)
      PROVE  /\ at[i] \in Nat /\ Has(text, at[i], parts[i]) /\ at[i] + Len(parts[i]) = off[i]
             /\ i # 1 => Has(text, off[i - 1], c) /\ at[i] = off[i - 1] + 1
  <2>1. off[i - 1] \in Nat /\ Has(text, off[i - 1], s[i]) /\ off[i] = off[i - 1] + Len(s[i])
    BY <1>3, <1>7 DEF Laid
  <2>2. CASE i = 1
    <3>1. at[i] = n /\ off[i - 1] = n /\ s[i] = parts[i]
      BY <1>4, <1>7, <2>2 DEF Laid
    <3> HIDE DEF at
    <3> QED
      BY <2>1, <2>2, <3>1
  <2>3. CASE i # 1
    <3>1. at[i] = off[i - 1] + 1 /\ s[i] = c \o parts[i]
      BY <1>4, <2>3
    <3>2. Has(text, off[i - 1], c) /\ Has(text, off[i - 1] + Len(c), parts[i])
      <4> DEFINE o == off[i - 1]
                 p == parts[i]
      <4>1. o \in Nat /\ IsText(p) /\ Has(text, o, c \o p)
        BY <2>1, <3>1
      <4> HIDE DEF o, p
      <4>2. Has(text, o, c) /\ Has(text, o + Len(c), p)
        BY <1>5, <4>1, HasConcat, Zenon
      <4> QED
        BY <4>2 DEF o, p
    <3> DEFINE o == off[i - 1]
               l == Len(parts[i])
    <3>3. at[i] = o + 1 /\ o \in Nat /\ l \in Nat /\ off[i] = o + (1 + l) /\ Has(text, o, c)
      BY <1>6, <2>1, <2>3, <3>1, <3>2
    <3>4. Has(text, o + 1, parts[i])
      BY <1>5, <3>2
    <3> HIDE DEF at, o, l
    <3>5. at[i] \in Nat /\ Has(text, at[i], parts[i]) /\ at[i] + l = off[i]
      BY <3>3, <3>4
    <3> QED
      BY <3>3, <3>5 DEF o, l
  <2> QED
    BY <2>2, <2>3
<1>9. at[1] = n
  BY <1>2
<1> HIDE DEF at
<1>10. at[Len(parts)] + Len(parts[Len(parts)]) = n + Len(Commas(parts))
  BY <1>1, <1>2, <1>3, <1>7, <1>8 DEF Laid
<1>11. ASSUME NEW i \in 1 .. Len(parts) - 1
       PROVE  /\ Has(text, at[i] + Len(parts[i]), <<"comma">>)
              /\ at[i + 1] = (at[i] + Len(parts[i])) + 1
  <2>1. i \in 1 .. Len(parts) /\ i + 1 \in 1 .. Len(parts) /\ i + 1 # 1 /\ (i + 1) - 1 = i
    BY <1>2
  <2>2. at[i] + Len(parts[i]) = off[i] /\ Has(text, off[i], c) /\ at[i + 1] = off[i] + 1
    BY <1>8, <2>1
  <2> QED
    BY <2>2 DEF c
<1>12. Separated(text, parts, n, at)
  BY <1>8, <1>9, <1>10, <1>11, Zenon DEF Separated
<1> QED
  BY <1>12

LEMMA CommasText ==
  ASSUME NEW parts, IsText(parts), Len(parts) # 0, \A i \in 1 .. Len(parts) : IsText(parts[i])
  PROVE  IsText(Commas(parts))
<1> DEFINE s == [i \in DOMAIN parts |-> IF i = 1 THEN parts[i] ELSE <<"comma">> \o parts[i]]
           c == <<"comma">>
<1>1. Commas(parts) = FlattenSeq(s)
  BY Zenon DEF Commas
<1>2. DOMAIN parts = 1 .. Len(parts) /\ Len(parts) \in Nat
  BY DEF IsText
<1>3. Len(s) = Len(parts)
  BY <1>2
<1>4. \A i \in 1 .. Len(parts) : s[i] = IF i = 1 THEN parts[i] ELSE c \o parts[i]
  BY <1>2
<1>5. IsText(c)
  BY WordText
<1> HIDE DEF s, c
<1>6. ASSUME NEW i \in 1 .. Len(s)
      PROVE  IsText(s[i])
  <2>1. IsText(parts[i])
    BY <1>3
  <2>2. IsText(c \o parts[i])
    BY <1>5, <2>1, ConcatText, Zenon
  <2> QED
    BY <1>3, <1>4, <2>1, <2>2
<1> QED
  BY <1>1, <1>2, <1>3, <1>6, FlattenText

(* brackets around a text *)
LEMMA BracketsHas ==
  ASSUME NEW a, NEW c, NEW b, IsText(c)
  PROVE  /\ IsText(<<a>> \o c \o <<b>>) /\ Len(<<a>> \o c \o <<b>>) = Len(c) + 2
         /\ \A text, n : Len(text) \in Nat /\ n \in Nat /\ Has(text, n, <<a>> \o c \o <<b>>) =>
               Has(text, n, <<a>>) /\ Has(text, n + 1, c) /\ Has(text, (n + 1) + Len(c), <<b>>)
<1> DEFINE x == <<a>>
           y == <<b>>
           z == x \o c
<1>1. IsText(x) /\ Len(x) = 1 /\ IsText(y) /\ Len(y) = 1 /\ Len(c) \in Nat
  BY WordText DEF IsText
<1> HIDE DEF x, y
<1>2. IsText(z) /\ Len(z) = Len(x) + Len(c)
  BY <1>1, ConcatText, Zenon
<1> HIDE DEF z
<1>3. IsText(z \o y) /\ Len(z \o y) = Len(z) + Len(y)
  BY <1>1, <1>2, ConcatText, Zenon
<1>4. ASSUME NEW text, NEW n, Len(text) \in Nat, n \in Nat, Has(text, n, z \o y)
      PROVE  Has(text, n, x) /\ Has(text, n + 1, c) /\ Has(text, (n + 1) + Len(c), y)
  <2>1. Has(text, n, z) /\ Has(text, n + Len(z), y)
    BY <1>1, <1>2, <1>4, HasConcat, Zenon
  <2>2. Has(text, n, x) /\ Has(text, n + Len(x), c)
    BY <1>1, <1>4, <2>1, HasConcat, Zenon DEF z
  <2>3. n + Len(z) = (n + 1) + Len(c) /\ n + Len(x) = n + 1
    BY <1>1, <1>2, <1>4
  <2> QED
    BY <2>1, <2>2, <2>3
<1>5. Len(z \o y) = Len(c) + 2
  BY <1>1, <1>2, <1>3
<1>6. <<a>> \o c \o <<b>> = z \o y
  BY DEF x, y, z
<1> QED
  BY <1>3, <1>4, <1>5, <1>6, Zenon DEF x, y

-----------------------------------------------------------------------------
(* The parser *)

(* One turn of jsmn_parse's loop. *)
Turn(p, text, n, max) == IF p.error THEN p ELSE Consume(p, text[n], n, max)

LEMMA ParsedTurns ==
  ASSUME NEW text, Len(text) \in Nat, NEW max
  PROVE  /\ Parsed(text, max)[0] = Parser0
         /\ \A n \in 1 .. Len(text) :
               Parsed(text, max)[n] = Turn(Parsed(text, max)[n - 1], text, n, max)
<1> DEFINE turn(p, n) == Turn(p, text, n, max)
           solves(g, k) == g = [n \in 0 .. k |-> IF n = 0 THEN Parser0 ELSE turn(g[n - 1], n)]
           T == {k \in Nat : \E g : solves(g, k)}
<1>1. 0 \in T
  <2>1. solves([n \in 0 .. 0 |-> Parser0], 0)
    OBVIOUS
  <2> QED
    BY <2>1
<1>2. ASSUME NEW k \in Nat, k \in T
      PROVE  k + 1 \in T
  <2> HIDE DEF turn
  <2>1. PICK g : solves(g, k)
    BY <1>2
  <2> DEFINE h == [n \in 0 .. k + 1 |-> IF n <= k THEN g[n] ELSE turn(g[k], k + 1)]
  <2>2. \A n \in 0 .. k + 1 : h[n] = IF n = 0 THEN Parser0 ELSE turn(h[n - 1], n)
    <3> TAKE n \in 0 .. k + 1
    <3>1. CASE n <= k
      <4>1. n \in 0 .. k /\ (n # 0 => n - 1 \in 0 .. k + 1 /\ n - 1 <= k)
        BY <3>1
      <4>2. h[n] = g[n] /\ (n # 0 => h[n - 1] = g[n - 1])
        BY <3>1, <4>1
      <4>3. g[n] = IF n = 0 THEN Parser0 ELSE turn(g[n - 1], n)
        BY <2>1, <4>1
      <4> QED
        BY <4>2, <4>3
    <3>2. CASE n = k + 1
      <4>1. n # 0 /\ n - 1 = k /\ ~ (n <= k) /\ k \in 0 .. k + 1 /\ k <= k
        BY <3>2
      <4>2. h[n] = turn(g[k], k + 1) /\ h[n - 1] = g[k]
        BY <4>1
      <4> QED
        BY <3>2, <4>1, <4>2
    <3> QED
      BY <3>1, <3>2
  <2>3. solves(h, k + 1) /\ k + 1 \in Nat
    BY <2>2
  <2> HIDE DEF h, solves
  <2> QED
    BY <2>3
<1>3. \A k \in Nat : k \in T
  <2> HIDE DEF T
  <2>1. \A n \in Nat : n \in T => n + 1 \in T
    BY <1>2, Zenon
  <2> QED
    BY <1>1, <2>1, SetInduction, Zenon
<1>4. Len(text) \in Nat
  OBVIOUS
<1>5. PICK g : solves(g, Len(text))
  BY <1>3, <1>4
<1>6. Parsed(text, max) = CHOOSE x : solves(x, Len(text))
  BY Zenon DEF Parsed, Turn
<1>7. solves(Parsed(text, max), Len(text))
  <2> HIDE DEF solves
  <2> QED
    BY <1>5, <1>6, Zenon
<1> HIDE DEF turn
<1> DEFINE f == Parsed(text, max)
<1> HIDE DEF f
<1>8. f = [n \in 0 .. Len(text) |-> IF n = 0 THEN Parser0 ELSE turn(f[n - 1], n)]
  BY <1>7 DEF f
<1>9. f[0] = Parser0 /\ \A n \in 1 .. Len(text) : f[n] = turn(f[n - 1], n)
  BY <1>4, <1>8
<1> QED
  BY <1>9 DEF f, turn

Token(type, start, end, parent) ==
    [type |-> type, start |-> start, end |-> end, parent |-> parent]
Kinds == {"object", "array", "string", "primitive"}
Tokens == [type : Kinds, start : Nat, end : Nat, parent : Nat]

Modes == {"top", "string", "escape", "primitive"}
Parsers == [mode : Modes, start : Nat, skip : Nat, super : Nat,
            tokens : Seq(Tokens), error : BOOLEAN]

(* A parser that was given room for max tokens. *)
Within(p, max) == p \in Parsers /\ Len(p.tokens) <= max

(* q is p but for what is named. *)
SamePlace(p, q) == q.mode = p.mode /\ q.start = p.start /\ q.skip = p.skip
SameTokens(p, q) == q.super = p.super /\ q.tokens = p.tokens

LEMMA ParserFields ==
  ASSUME NEW p \in Parsers
  PROVE  /\ p.mode \in Modes /\ p.start \in Nat /\ p.skip \in Nat /\ p.super \in Nat
         /\ p.tokens \in Seq(Tokens) /\ Len(p.tokens) \in Nat
         /\ p.error \in BOOLEAN
BY DEF Parsers

LEMMA SetError ==
  ASSUME NEW p \in Parsers
  PROVE  LET q == [p EXCEPT !.error = TRUE]
         IN  q \in Parsers /\ q.error = TRUE /\ SamePlace(p, q) /\ SameTokens(p, q)
BY DEF Parsers, SamePlace, SameTokens

LEMMA SetTokens ==
  ASSUME NEW p \in Parsers, NEW ts \in Seq(Tokens)
  PROVE  LET q == [p EXCEPT !.tokens = ts]
         IN  /\ q \in Parsers /\ q.error = p.error /\ SamePlace(p, q)
             /\ q.super = p.super /\ q.tokens = ts
BY DEF Parsers, SamePlace

LEMMA SetSuper ==
  ASSUME NEW p \in Parsers, NEW su \in Nat
  PROVE  LET q == [p EXCEPT !.super = su]
         IN  /\ q \in Parsers /\ q.error = p.error /\ SamePlace(p, q)
             /\ q.super = su /\ q.tokens = p.tokens
BY DEF Parsers, SamePlace

LEMMA SetTokensSuper ==
  ASSUME NEW p \in Parsers, NEW ts \in Seq(Tokens), NEW su \in Nat
  PROVE  LET q == [p EXCEPT !.tokens = ts, !.super = su]
         IN  /\ q \in Parsers /\ q.error = p.error /\ SamePlace(p, q)
             /\ q.super = su /\ q.tokens = ts
BY DEF Parsers, SamePlace

LEMMA SetModeStart ==
  ASSUME NEW p \in Parsers, NEW mode \in Modes, NEW start \in Nat
  PROVE  LET q == [p EXCEPT !.mode = mode, !.start = start]
         IN  /\ q \in Parsers /\ q.error = p.error /\ SameTokens(p, q)
             /\ q.mode = mode /\ q.start = start /\ q.skip = p.skip
BY DEF Parsers, SameTokens

LEMMA SetMode ==
  ASSUME NEW p \in Parsers, NEW mode \in Modes
  PROVE  LET q == [p EXCEPT !.mode = mode]
         IN  /\ q \in Parsers /\ q.error = p.error /\ SameTokens(p, q)
             /\ q.mode = mode /\ q.start = p.start /\ q.skip = p.skip
BY DEF Parsers, SameTokens

LEMMA SetModeSkip ==
  ASSUME NEW p \in Parsers, NEW mode \in Modes, NEW skip \in Nat
  PROVE  LET q == [p EXCEPT !.mode = mode, !.skip = skip]
         IN  /\ q \in Parsers /\ q.error = p.error /\ SameTokens(p, q)
             /\ q.mode = mode /\ q.start = p.start /\ q.skip = skip
BY DEF Parsers, SameTokens

LEMMA SetSkip ==
  ASSUME NEW p \in Parsers, NEW skip \in Nat
  PROVE  LET q == [p EXCEPT !.skip = skip]
         IN  /\ q \in Parsers /\ q.error = p.error /\ SameTokens(p, q)
             /\ q.mode = p.mode /\ q.start = p.start /\ q.skip = skip
BY DEF Parsers, SameTokens

(* jsmn_alloc_token: a token more, or an error and everything as before. *)
LEMMA TokenAdded ==
  ASSUME NEW max \in Nat, NEW p, Within(p, max), NEW type \in Kinds,
         NEW start \in Nat, NEW end \in Nat
  PROVE  LET q == AddToken(p, type, start, end, max)
         IN  /\ Within(q, max) /\ SamePlace(p, q) /\ q.super = p.super
             /\ Len(p.tokens) >= max => q.error = TRUE /\ q.tokens = p.tokens
             /\ Len(p.tokens) < max =>
                   /\ q.error = p.error
                   /\ q.tokens = Append(p.tokens, Token(type, start, end, p.super))
<1> DEFINE t == Token(type, start, end, p.super)
           q == AddToken(p, type, start, end, max)
<1>1. p \in Parsers /\ Len(p.tokens) \in Nat /\ p.tokens \in Seq(Tokens) /\ Len(p.tokens) <= max
  BY ParserFields DEF Within
<1>2. CASE Len(p.tokens) >= max
  <2>1. q = [p EXCEPT !.error = TRUE]
    BY <1>2 DEF AddToken, Stop
  <2> HIDE DEF q
  <2>2. q \in Parsers /\ q.error = TRUE /\ SamePlace(p, q) /\ SameTokens(p, q)
    BY <1>1, <2>1, SetError, Zenon
  <2>3. ~ (Len(p.tokens) < max)
    BY <1>1, <1>2
  <2> QED
    BY <1>1, <2>2, <2>3 DEF Within, SameTokens, q
<1>3. CASE Len(p.tokens) < max
  <2>1. t \in Tokens
    BY <1>1, ParserFields DEF Token, Tokens
  <2>2. q = [p EXCEPT !.tokens = Append(p.tokens, t)]
    BY <1>1, <1>3 DEF AddToken, Token
  <2> HIDE DEF t
  <2>3. Append(p.tokens, t) \in Seq(Tokens) /\ Len(Append(p.tokens, t)) = Len(p.tokens) + 1
    BY <2>1, <1>1
  <2> DEFINE ts == Append(p.tokens, t)
  <2> HIDE DEF q, ts
  <2>4. q \in Parsers /\ q.error = p.error /\ SamePlace(p, q) /\ q.super = p.super
        /\ q.tokens = ts
    BY <1>1, <2>2, <2>3, SetTokens, Zenon DEF ts
  <2>5. Len(q.tokens) <= max /\ ~ (Len(p.tokens) >= max)
    BY <1>1, <1>3, <2>3, <2>4 DEF ts
  <2> QED
    BY <1>3, <2>4, <2>5, Zenon DEF Within, t, ts, q
<1>4. Len(p.tokens) >= max \/ Len(p.tokens) < max
  BY <1>1
<1> QED
  BY <1>2, <1>3, <1>4, Zenon

LEMMA LastOpen ==
  ASSUME NEW p \in Parsers, OpenTokens(p) # {}
  PROVE  \E i \in OpenTokens(p) : \A j \in OpenTokens(p) : j <= i
<1> DEFINE n == Len(p.tokens)
           T == {n - i : i \in OpenTokens(p)}
<1>1. n \in Nat /\ OpenTokens(p) \subseteq 1 .. n
  BY DEF Parsers, OpenTokens
<1> HIDE DEF n
<1>2. T \subseteq Nat /\ T # {}
  BY <1>1
<1>3. PICK d \in T : \A m \in T : d <= m
  <2> HIDE DEF T
  <2> QED
    BY <1>2, LeastNumber
<1>4. PICK i \in OpenTokens(p) : d = n - i
  BY <1>3
<1>5. ASSUME NEW j \in OpenTokens(p)
      PROVE  j <= i
  <2>1. d <= n - j
    BY <1>3
  <2> QED
    BY <1>1, <1>4, <2>1
<1> QED
  BY <1>5

LEMMA OpenWithin ==
  ASSUME NEW max \in Nat, NEW p, Within(p, max), NEW type \in Kinds, NEW pos \in Nat
  PROVE  Within(Open(p, type, pos, max), max)
<1> DEFINE q == AddToken(p, type, pos, 0, max)
<1>1. Within(q, max)
  BY TokenAdded
<1>2. Len(q.tokens) \in Nat
  BY <1>1, ParserFields DEF Within
<1>3. CASE q.error
  BY <1>1, <1>3 DEF Open
<1>4. CASE ~ q.error
  <2>1. Open(p, type, pos, max) = [q EXCEPT !.super = Len(q.tokens)]
    BY <1>4 DEF Open
  <2> HIDE DEF q
  <2> QED
    BY <1>1, <1>2, <2>1, SetSuper DEF Within
<1> QED
  BY <1>3, <1>4

LEMMA CloseWithin ==
  ASSUME NEW max \in Nat, NEW p, Within(p, max), NEW type, NEW pos \in Nat
  PROVE  Within(Close(p, type, pos), max)
<1>1. p \in Parsers /\ Len(p.tokens) \in Nat /\ p.tokens \in Seq(Tokens) /\ Len(p.tokens) <= max
  BY ParserFields DEF Within
<1>2. Within(Stop(p), max)
  BY <1>1, SetError DEF Within, Stop, SameTokens
<1> DEFINE i == CHOOSE i \in OpenTokens(p) : \A j \in OpenTokens(p) : j <= i
           t == [p.tokens[i] EXCEPT !.end = pos + 1]
           ts == [p.tokens EXCEPT ![i] = t]
           c == [p EXCEPT !.tokens = ts, !.super = p.tokens[i].parent]
<1>3. CASE OpenTokens(p) # {} /\ p.tokens[i].type = type
  <2>1. i \in OpenTokens(p)
    BY <1>1, <1>3, LastOpen
  <2>2. Close(p, type, pos) = [p EXCEPT !.tokens[i].end = pos + 1, !.super = p.tokens[i].parent]
    BY <1>3 DEF Close
  <2> HIDE DEF i
  <2>3. i \in 1 .. Len(p.tokens) /\ i \in DOMAIN p.tokens /\ p.tokens[i] \in Tokens
    BY <1>1, <2>1 DEF OpenTokens
  <2>4. Close(p, type, pos) = c
    BY <1>1, <2>2, <2>3 DEF Parsers
  <2>5. t \in Tokens /\ p.tokens[i].parent \in Nat
    BY <2>3 DEF Tokens
  <2> HIDE DEF t
  <2>6. ts \in Seq(Tokens) /\ Len(ts) = Len(p.tokens)
    BY <1>1, <2>3, <2>5, ExceptSeq
  <2> HIDE DEF ts
  <2>7. c \in Parsers /\ c.tokens = ts
    BY <1>1, <2>5, <2>6 DEF Parsers
  <2> HIDE DEF c
  <2> QED
    BY <1>1, <2>4, <2>6, <2>7 DEF Within
<1>4. CASE ~ (OpenTokens(p) # {} /\ p.tokens[i].type = type)
  <2>1. Close(p, type, pos) = Stop(p)
    BY <1>4, Zenon DEF Close
  <2> QED
    BY <1>2, <2>1
<1> QED
  BY <1>3, <1>4

LEMMA TopWithin ==
  ASSUME NEW max \in Nat, NEW p, Within(p, max), NEW ch, NEW pos \in Nat
  PROVE  Within(Top(p, ch, pos, max), max)
<1>1. p \in Parsers
  BY DEF Within
<1>2. Within(Stop(p), max)
  <2>1. [p EXCEPT !.error = TRUE] \in Parsers /\ [p EXCEPT !.error = TRUE].tokens = p.tokens
    BY <1>1 DEF Parsers
  <2> QED
    BY <2>1, Zenon DEF Within, Stop
<1>3. ASSUME NEW mode \in Modes
      PROVE  Within([p EXCEPT !.mode = mode, !.start = pos], max)
  <2>1. /\ [p EXCEPT !.mode = mode, !.start = pos] \in Parsers
        /\ [p EXCEPT !.mode = mode, !.start = pos].tokens = p.tokens
    BY <1>1 DEF Parsers
  <2> QED
    BY <2>1, Zenon DEF Within
<1>4. /\ Within([p EXCEPT !.mode = "string", !.start = pos], max)
      /\ Within([p EXCEPT !.mode = "primitive", !.start = pos], max)
  BY <1>3, Zenon DEF Modes
<1>5. Within(Open(p, "object", pos, max), max) /\ Within(Open(p, "array", pos, max), max)
  BY OpenWithin, Zenon DEF Kinds
<1>6. Within(Close(p, "object", pos), max) /\ Within(Close(p, "array", pos), max)
  BY CloseWithin, Zenon
<1>7. \/ Top(p, ch, pos, max) \in {Open(p, "object", pos, max), Open(p, "array", pos, max)}
      \/ Top(p, ch, pos, max) \in {Close(p, "object", pos), Close(p, "array", pos)}
      \/ Top(p, ch, pos, max) = [p EXCEPT !.mode = "string", !.start = pos]
      \/ Top(p, ch, pos, max) = [p EXCEPT !.mode = "primitive", !.start = pos]
      \/ Top(p, ch, pos, max) \in {p, Stop(p)}
  BY DEF Top
<1> QED
  BY <1>2, <1>4, <1>5, <1>6, <1>7, Zenon

LEMMA StringWithin ==
  ASSUME NEW max \in Nat, NEW p, Within(p, max), NEW ch, NEW pos \in Nat
  PROVE  Within(InString(p, ch, pos, max), max)
<1> DEFINE a == AddToken(p, "string", p.start + 1, pos, max)
<1>1. p \in Parsers
  BY DEF Within
<1>2. p.start + 1 \in Nat
  BY <1>1 DEF Parsers
<1>3. Within(a, max)
  BY <1>2, TokenAdded, Zenon DEF Kinds
<1> HIDE DEF a
<1>4. Within([a EXCEPT !.mode = "top"], max)
  BY <1>3 DEF Within, Parsers, Modes
<1>5. Within([p EXCEPT !.mode = "escape"], max)
  BY <1>1 DEF Within, Parsers, Modes
<1>6. p.skip > 0 => Within([p EXCEPT !.skip = @ - 1], max)
  BY <1>1 DEF Within, Parsers
<1>7. \/ p.skip > 0 /\ InString(p, ch, pos, max) = [p EXCEPT !.skip = @ - 1]
      \/ InString(p, ch, pos, max) = [a EXCEPT !.mode = "top"]
      \/ InString(p, ch, pos, max) = [p EXCEPT !.mode = "escape"]
      \/ InString(p, ch, pos, max) = p
  BY DEF InString, a
<1> QED
  BY <1>4, <1>5, <1>6, <1>7, Zenon

LEMMA StopWithin ==
  ASSUME NEW max \in Nat, NEW p, Within(p, max)
  PROVE  Within(Stop(p), max)
BY DEF Within, Stop, Parsers

LEMMA BackslashWithin ==
  ASSUME NEW max \in Nat, NEW p, Within(p, max), NEW ch
  PROVE  Within(AfterBackslash(p, ch), max)
<1>1. Within([p EXCEPT !.mode = "string"], max)
  BY DEF Within, Parsers, Modes
<1>2. Within([p EXCEPT !.mode = "string", !.skip = 4], max)
  BY DEF Within, Parsers, Modes
<1>3. AfterBackslash(p, ch) \in {[p EXCEPT !.mode = "string"], Stop(p),
                                 [p EXCEPT !.mode = "string", !.skip = 4]}
  BY DEF AfterBackslash
<1> QED
  BY <1>1, <1>2, <1>3, StopWithin, Zenon

LEMMA PrimitiveWithin ==
  ASSUME NEW max \in Nat, NEW p, Within(p, max), NEW ch, NEW pos \in Nat
  PROVE  Within(InPrimitive(p, ch, pos, max), max)
<1> DEFINE q == AddToken(p, "primitive", p.start, pos, max)
           r == Top([q EXCEPT !.mode = "top"], ch, pos, max)
<1>1. p.start \in Nat
  BY DEF Within, Parsers
<1>2. Within(q, max)
  BY <1>1, TokenAdded, Zenon DEF Kinds
<1> HIDE DEF q
<1>3. Within([q EXCEPT !.mode = "top"], max)
  BY <1>2 DEF Within, Parsers, Modes
<1>4. Within(r, max)
  BY <1>3, TopWithin, Zenon
<1> HIDE DEF r
<1>5. InPrimitive(p, ch, pos, max) \in {q, r, p, Stop(p)}
  BY DEF InPrimitive, q, r
<1> QED
  BY <1>2, <1>4, <1>5, StopWithin, Zenon

LEMMA ConsumeWithin ==
  ASSUME NEW max \in Nat, NEW p, Within(p, max), NEW ch, NEW pos \in Nat
  PROVE  Within(Consume(p, ch, pos, max), max)
<1>1. p.mode \in Modes
  BY DEF Within, Parsers
<1>2. \/ Consume(p, ch, pos, max) = Top(p, ch, pos, max)
      \/ Consume(p, ch, pos, max) = InString(p, ch, pos, max)
      \/ Consume(p, ch, pos, max) = AfterBackslash(p, ch)
      \/ Consume(p, ch, pos, max) = InPrimitive(p, ch, pos, max)
  BY <1>1 DEF Consume, Modes
<1> QED
  BY <1>2, TopWithin, StringWithin, BackslashWithin, PrimitiveWithin, Zenon

(* jsmn never makes more tokens than it was given room for. *)
LEMMA ParsedWithin ==
  ASSUME NEW max \in Nat, NEW text, Len(text) \in Nat
  PROVE  \A n \in 0 .. Len(text) : Within(Parsed(text, max)[n], max)
<1> DEFINE f == Parsed(text, max)
           T == {n \in Nat : n <= Len(text) => Within(f[n], max)}
<1>1. f[0] = Parser0 /\ \A n \in 1 .. Len(text) : f[n] = Turn(f[n - 1], text, n, max)
  BY ParsedTurns, Zenon
<1> HIDE DEF f
<1>2. 0 \in T
  <2>1. Within(Parser0, max)
    BY DEF Within, Parser0, Parsers, Modes, NoToken
  <2> QED
    BY <1>1, <2>1
<1>3. ASSUME NEW n \in Nat, n \in T
      PROVE  n + 1 \in T
  <2> SUFFICES ASSUME n + 1 <= Len(text) PROVE Within(f[n + 1], max)
    OBVIOUS
  <2>1. n + 1 \in 1 .. Len(text) /\ n + 1 \in Nat /\ (n + 1) - 1 = n /\ n <= Len(text)
    OBVIOUS
  <2>2. Within(f[n], max)
    BY <1>3, <2>1
  <2>3. f[n + 1] = Turn(f[n], text, n + 1, max)
    BY <1>1, <2>1
  <2> QED
    BY <2>1, <2>2, <2>3, ConsumeWithin, Zenon DEF Turn
<1>4. \A n \in Nat : n \in T
  <2> HIDE DEF T
  <2>1. \A n \in Nat : n \in T => n + 1 \in T
    BY <1>3, Zenon
  <2> QED
    BY <1>2, <2>1, SetInduction, Zenon
<1> QED
  BY <1>4 DEF f

LEMMA ParseWithin ==
  ASSUME NEW max \in Nat, NEW text, Len(text) \in Nat
  PROVE  Within(jsmn_parse(text, max), max)
<1> DEFINE last == Parsed(text, max)[Len(text)]
           a == AddToken(last, "primitive", last.start, Len(text) + 1, max)
           done == IF last.error \/ last.mode # "primitive" THEN last ELSE a
           e == done.error \/ done.mode \in {"string", "escape"} \/ OpenTokens(done) # {}
<1>1. Within(last, max)
  BY ParsedWithin
<1> HIDE DEF last
<1>2. last.start \in Nat /\ Len(text) + 1 \in Nat
  BY <1>1 DEF Within, Parsers
<1>3. Within(a, max)
  BY <1>1, <1>2, TokenAdded, Zenon DEF Kinds
<1> HIDE DEF a
<1>4. Within(done, max)
  BY <1>1, <1>3
<1>5. jsmn_parse(text, max) = [done EXCEPT !.error = e]
  BY DEF jsmn_parse, last, a
<1> HIDE DEF done
<1>6. e \in BOOLEAN
  BY <1>4 DEF Within, Parsers
<1> HIDE DEF e
<1> QED
  BY <1>4, <1>5, <1>6 DEF Within, Parsers

-----------------------------------------------------------------------------
(* Reading a text symbol by symbol *)

Is(p, mode, start, skip, su, tk) ==
    /\ p \in Parsers /\ p.error = FALSE /\ p.mode = mode /\ p.start = start
    /\ p.skip = skip /\ p.super = su /\ p.tokens = tk

(* After n symbols of the text the parser has found the tokens tk, or more  *)
(* than there is room for.                                                  *)
Reads(text, max, n, mode, start, skip, su, tk) ==
    /\ n \in 0 .. Len(text) /\ tk \in Seq(Tokens) /\ su \in Nat /\ start \in Nat
    /\ IF Len(tk) <= max THEN Is(Parsed(text, max)[n], mode, start, skip, su, tk)
       ELSE Parsed(text, max)[n].error = TRUE

(* ... and is between two values. *)
At(text, max, n, su, tk) == \E start \in Nat : Reads(text, max, n, "top", start, 0, su, tk)

LEMMA AtStart ==
  ASSUME NEW max \in Nat, NEW text, Len(text) \in Nat
  PROVE  At(text, max, 0, 0, <<>>)
<1>1. Is(Parser0, "top", 0, 0, 0, <<>>)
  BY DEF Is, Parser0, Parsers, NoToken, Modes
<1>2. Parsed(text, max)[0] = Parser0
  BY ParsedTurns, Zenon
<1>3. Len(<<>>) <= max /\ <<>> \in Seq(Tokens) /\ 0 \in 0 .. Len(text) /\ 0 \in Nat
  OBVIOUS
<1> QED
  BY <1>1, <1>2, <1>3, Zenon DEF At, Reads

(* What a step does: what it makes of the parser while there is room, and   *)
(* an error when there is no room for a new token.                          *)
Leads(q, max, mode, start, skip, su, tk) ==
    IF Len(tk) <= max THEN Is(q, mode, start, skip, su, tk) ELSE q.error = TRUE

LEMMA ReadsStep ==
  ASSUME NEW max \in Nat, NEW text, Len(text) \in Nat, NEW n \in Nat, n + 1 <= Len(text),
         NEW mode, NEW start, NEW skip, NEW su, NEW tk,
         Reads(text, max, n, mode, start, skip, su, tk),
         NEW mode2, NEW start2 \in Nat, NEW skip2, NEW su2 \in Nat, NEW tk2 \in Seq(Tokens),
         Len(tk) <= Len(tk2),
         \A p : Is(p, mode, start, skip, su, tk) /\ Len(tk) <= max =>
            Leads(Consume(p, text[n + 1], n + 1, max), max, mode2, start2, skip2, su2, tk2)
  PROVE  Reads(text, max, n + 1, mode2, start2, skip2, su2, tk2)
<1> DEFINE p == Parsed(text, max)[n]
           q == Parsed(text, max)[n + 1]
<1>1. n + 1 \in 1 .. Len(text) /\ (n + 1) - 1 = n /\ n + 1 \in 0 .. Len(text)
  OBVIOUS
<1>2. q = Turn(p, text, n + 1, max)
  BY <1>1, ParsedTurns
<1>3. Len(tk) \in Nat /\ Len(tk2) \in Nat
  BY DEF Reads
<1>4. IF Len(tk) <= max THEN Is(p, mode, start, skip, su, tk) ELSE p.error = TRUE
  BY DEF Reads
<1> HIDE DEF p, q
<1>5. CASE Len(tk) <= max
  <2>1. q = Consume(p, text[n + 1], n + 1, max) /\ Is(p, mode, start, skip, su, tk)
    BY <1>2, <1>4, <1>5 DEF Turn, Is
  <2>2. Leads(q, max, mode2, start2, skip2, su2, tk2)
    BY <1>5, <2>1, Zenon
  <2> QED
    BY <1>1, <2>2, Zenon DEF Reads, Leads, q
<1>6. CASE ~ (Len(tk) <= max)
  <2>1. q.error = TRUE
    BY <1>2, <1>4, <1>6 DEF Turn
  <2>2. ~ (Len(tk2) <= max)
    BY <1>3, <1>6
  <2> QED
    BY <1>1, <2>1, <2>2, Zenon DEF Reads, q
<1> QED
  BY <1>5, <1>6

LEMMA Added ==
  ASSUME NEW max \in Nat, NEW mode, NEW start, NEW skip, NEW su \in Nat, NEW tk \in Seq(Tokens),
         NEW type \in Kinds, NEW from \in Nat, NEW to \in Nat, NEW tk2,
         tk2 = Append(tk, Token(type, from, to, su))
  PROVE  /\ tk2 \in Seq(Tokens) /\ Len(tk2) = Len(tk) + 1 /\ Len(tk) <= Len(tk2)
         /\ \A p : Is(p, mode, start, skip, su, tk) =>
               Leads(AddToken(p, type, from, to, max), max, mode, start, skip, su, tk2)
<1> DEFINE t == Token(type, from, to, su)
<1>1. t \in Tokens
  BY DEF Token, Tokens
<1> HIDE DEF t
<1>2. tk2 = Append(tk, t) /\ Append(tk, t) \in Seq(Tokens) /\ Len(Append(tk, t)) = Len(tk) + 1 /\ Len(tk) \in Nat
  BY <1>1 DEF t
<1>3. ASSUME NEW p, Is(p, mode, start, skip, su, tk)
      PROVE  Leads(AddToken(p, type, from, to, max), max, mode, start, skip, su, tk2)
  <2> DEFINE q == AddToken(p, type, from, to, max)
  <2>1. p \in Parsers /\ p.tokens = tk /\ p.super = su
    BY <1>3 DEF Is
  <2>2. CASE Len(tk2) <= max
    <3>1. q = [p EXCEPT !.tokens = Append(@, t)]
      BY <1>2, <2>1, <2>2 DEF AddToken, t, Token
    <3>2. q = [p EXCEPT !.tokens = tk2]
      BY <1>2, <2>1, <3>1
    <3> HIDE DEF q
    <3>3. tk2 \in Seq(Tokens)
      BY <1>2
    <3>4. Is(q, mode, start, skip, su, tk2)
      BY <1>3, <3>2, <3>3 DEF Is, Parsers
    <3> QED
      BY <2>2, <3>4 DEF Leads, q
  <2>3. CASE ~ (Len(tk2) <= max)
    <3>1. Len(p.tokens) >= max
      BY <1>2, <2>1, <2>3
    <3>2. q = [p EXCEPT !.error = TRUE]
      BY <3>1 DEF AddToken, Stop
    <3>3. q.error = TRUE
      BY <2>1, <3>2 DEF Parsers
    <3> QED
      BY <2>3, <3>3 DEF Leads
  <2> QED
    BY <2>2, <2>3
<1>4. Len(tk) <= Len(tk2)
  BY <1>2
<1> QED
  BY <1>2, <1>3, <1>4

(* A separator or a blank *)
LEMMA AtSeparator ==
  ASSUME NEW max \in Nat, NEW text, Len(text) \in Nat, NEW n \in Nat, NEW su, NEW tk,
         At(text, max, n, su, tk), NEW w \in {"colon", "comma", "nl"}, Has(text, n, <<w>>)
  PROVE  At(text, max, n + 1, su, tk)
<1>1. PICK start \in Nat : Reads(text, max, n, "top", start, 0, su, tk)
  BY DEF At
<1>2. n + 1 <= Len(text) /\ text[n + 1] = w
  BY HasWord
<1>3. tk \in Seq(Tokens) /\ su \in Nat /\ Len(tk) \in Nat
  BY <1>1 DEF Reads
<1>4. ASSUME NEW p, Is(p, "top", start, 0, su, tk), Len(tk) <= max
      PROVE  Leads(Consume(p, text[n + 1], n + 1, max), max, "top", start, 0, su, tk)
  <2>1. p.mode = "top"
    BY <1>4 DEF Is
  <2>2. Consume(p, text[n + 1], n + 1, max) = p
    BY <1>2, <2>1 DEF Consume, Top, Blank
  <2> QED
    BY <1>4, <2>2 DEF Leads
<1>5. Reads(text, max, n + 1, "top", start, 0, su, tk)
  BY <1>1, <1>2, <1>3, <1>4, ReadsStep
<1> QED
  BY <1>5 DEF At

(* An object or an array begins *)
LEMMA AtOpen ==
  ASSUME NEW max \in Nat, NEW text, Len(text) \in Nat, NEW n \in Nat, NEW su, NEW tk,
         At(text, max, n, su, tk), NEW type, NEW w,
         \/ w = "lbrace" /\ type = "object"
         \/ w = "lbracket" /\ type = "array",
         Has(text, n, <<w>>)
  PROVE  At(text, max, n + 1, Len(tk) + 1, Append(tk, Token(type, n + 1, 0, su)))
<1>1. PICK start \in Nat : Reads(text, max, n, "top", start, 0, su, tk)
  BY DEF At
<1>2. n + 1 <= Len(text) /\ text[n + 1] = w /\ n + 1 \in Nat
  BY HasWord
<1>3. tk \in Seq(Tokens) /\ su \in Nat /\ Len(tk) \in Nat /\ Len(tk) + 1 \in Nat
  BY <1>1 DEF Reads
<1>4. type \in Kinds
  BY DEF Kinds
<1> DEFINE tk2 == Append(tk, Token(type, n + 1, 0, su))
<1>5. /\ tk2 \in Seq(Tokens) /\ Len(tk2) = Len(tk) + 1 /\ Len(tk) <= Len(tk2)
      /\ \A p : Is(p, "top", start, 0, su, tk) =>
            Leads(AddToken(p, type, n + 1, 0, max), max, "top", start, 0, su, tk2)
  BY <1>2, <1>3, <1>4, Added
<1> HIDE DEF tk2
<1>6. ASSUME NEW p, Is(p, "top", start, 0, su, tk), Len(tk) <= max
      PROVE  Leads(Consume(p, text[n + 1], n + 1, max), max, "top", start, 0, Len(tk) + 1, tk2)
  <2> DEFINE a == AddToken(p, type, n + 1, 0, max)
             q == Open(p, type, n + 1, max)
  <2>1. p.mode = "top"
    BY <1>6 DEF Is
  <2>2. Consume(p, text[n + 1], n + 1, max) = q
    BY <1>2, <2>1 DEF Consume, Top, Blank
  <2>3. q = IF a.error THEN a ELSE [a EXCEPT !.super = Len(a.tokens)]
    BY DEF Open
  <2>4. Leads(a, max, "top", start, 0, su, tk2)
    BY <1>5, <1>6
  <2> HIDE DEF a, q
  <2>5. CASE Len(tk2) <= max
    <3>1. Is(a, "top", start, 0, su, tk2)
      BY <2>4, <2>5 DEF Leads
    <3>2. q = [a EXCEPT !.super = Len(tk) + 1]
      BY <1>5, <2>3, <3>1 DEF Is
    <3>3. Is(q, "top", start, 0, Len(tk) + 1, tk2)
      BY <1>3, <3>1, <3>2 DEF Is, Parsers
    <3> QED
      BY <2>2, <2>5, <3>3 DEF Leads
  <2>6. CASE ~ (Len(tk2) <= max)
    BY <2>2, <2>3, <2>4, <2>6 DEF Leads
  <2> QED
    BY <2>5, <2>6
<1>7. Reads(text, max, n + 1, "top", start, 0, Len(tk) + 1, tk2)
  BY <1>1, <1>2, <1>3, <1>5, <1>6, ReadsStep
<1> QED
  BY <1>7 DEF At, tk2

(* A quote begins a string, a quote ends it. *)
LEMMA AtQuote ==
  ASSUME NEW max \in Nat, NEW text, Len(text) \in Nat, NEW n \in Nat, NEW su, NEW tk,
         At(text, max, n, su, tk), Has(text, n, <<"quote">>)
  PROVE  Reads(text, max, n + 1, "string", n + 1, 0, su, tk)
<1>1. PICK start \in Nat : Reads(text, max, n, "top", start, 0, su, tk)
  BY DEF At
<1>2. n + 1 <= Len(text) /\ text[n + 1] = "quote" /\ n + 1 \in Nat
  BY HasWord
<1>3. tk \in Seq(Tokens) /\ su \in Nat /\ Len(tk) \in Nat /\ Len(tk) <= Len(tk)
  BY <1>1 DEF Reads
<1>4. ASSUME NEW p, Is(p, "top", start, 0, su, tk), Len(tk) <= max
      PROVE  Leads(Consume(p, text[n + 1], n + 1, max), max, "string", n + 1, 0, su, tk)
  <2> DEFINE q == [p EXCEPT !.mode = "string", !.start = n + 1]
  <2>1. p.mode = "top"
    BY <1>4 DEF Is
  <2>2. Consume(p, text[n + 1], n + 1, max) = q
    BY <1>2, <2>1 DEF Consume, Top, Blank
  <2>3. Is(q, "string", n + 1, 0, su, tk)
    BY <1>2, <1>4 DEF Is, Parsers, Modes
  <2> HIDE DEF q
  <2> QED
    BY <1>4, <2>2, <2>3 DEF Leads
<1> QED
  BY <1>1, <1>2, <1>3, <1>4, ReadsStep

LEMMA AtEndQuote ==
  ASSUME NEW max \in Nat, NEW text, Len(text) \in Nat, NEW n \in Nat, NEW su, NEW tk, NEW start,
         Reads(text, max, n, "string", start, 0, su, tk), Has(text, n, <<"quote">>)
  PROVE  At(text, max, n + 1, su, Append(tk, Token("string", start + 1, n + 1, su)))
<1>2. n + 1 <= Len(text) /\ text[n + 1] = "quote" /\ n + 1 \in Nat
  BY HasWord
<1>3. tk \in Seq(Tokens) /\ su \in Nat /\ start \in Nat /\ start + 1 \in Nat
  BY DEF Reads
<1> DEFINE tk2 == Append(tk, Token("string", start + 1, n + 1, su))
<1>4. "string" \in Kinds
  BY DEF Kinds
<1>5. /\ tk2 \in Seq(Tokens) /\ Len(tk2) = Len(tk) + 1 /\ Len(tk) <= Len(tk2)
      /\ \A p : Is(p, "string", start, 0, su, tk) =>
            Leads(AddToken(p, "string", start + 1, n + 1, max), max, "string", start, 0, su, tk2)
  BY <1>2, <1>3, <1>4, Added
<1> HIDE DEF tk2
<1>6. ASSUME NEW p, Is(p, "string", start, 0, su, tk), Len(tk) <= max
      PROVE  Leads(Consume(p, text[n + 1], n + 1, max), max, "top", start, 0, su, tk2)
  <2> DEFINE a == AddToken(p, "string", start + 1, n + 1, max)
             q == [a EXCEPT !.mode = "top"]
  <2>1. p.mode = "string" /\ p.skip = 0 /\ p.start = start
    BY <1>6 DEF Is
  <2>2. Consume(p, text[n + 1], n + 1, max) = q
    BY <1>2, <2>1 DEF Consume, InString
  <2>4. Leads(a, max, "string", start, 0, su, tk2)
    BY <1>5, <1>6
  <2>5. Within(a, max)
    <3>1. Within(p, max)
      BY <1>6 DEF Is, Within
    <3> QED
      BY <1>2, <1>3, <1>4, <3>1, TokenAdded, Zenon
  <2> HIDE DEF a
  <2>6. CASE Len(tk2) <= max
    <3>1. Is(a, "string", start, 0, su, tk2)
      BY <2>4, <2>6 DEF Leads
    <3>2. Is(q, "top", start, 0, su, tk2)
      BY <3>1 DEF Is, Parsers, Modes
    <3> QED
      BY <2>2, <2>6, <3>2 DEF Leads
  <2>7. CASE ~ (Len(tk2) <= max)
    <3>1. a.error = TRUE
      BY <2>4, <2>7 DEF Leads
    <3>2. q.error = TRUE
      BY <2>5, <3>1 DEF Within, Parsers
    <3> QED
      BY <2>2, <2>7, <3>2 DEF Leads
  <2> QED
    BY <2>6, <2>7
<1>7. Reads(text, max, n + 1, "top", start, 0, su, tk2)
  BY <1>2, <1>3, <1>5, <1>6, ReadsStep
<1> QED
  BY <1>3, <1>7 DEF At, tk2

(* Between quotes, any symbol but a quote or a backslash stands for itself, *)
(* a letter may follow a backslash, and four digits \u.                     *)
LEMMA StringWord ==
  ASSUME NEW max \in Nat, NEW text, Len(text) \in Nat, NEW n \in Nat, NEW su, NEW tk, NEW start,
         Reads(text, max, n, "string", start, 0, su, tk),
         NEW w, w \notin {"quote", "bslash"}, Has(text, n, <<w>>)
  PROVE  Reads(text, max, n + 1, "string", start, 0, su, tk)
<1>2. n + 1 <= Len(text) /\ text[n + 1] = w
  BY HasWord
<1>3. tk \in Seq(Tokens) /\ su \in Nat /\ start \in Nat /\ Len(tk) \in Nat /\ Len(tk) <= Len(tk)
  BY DEF Reads
<1>4. ASSUME NEW p, Is(p, "string", start, 0, su, tk), Len(tk) <= max
      PROVE  Leads(Consume(p, text[n + 1], n + 1, max), max, "string", start, 0, su, tk)
  <2>1. p.mode = "string" /\ p.skip = 0
    BY <1>4 DEF Is
  <2>2. Consume(p, text[n + 1], n + 1, max) = p
    BY <1>2, <2>1 DEF Consume, InString
  <2> QED
    BY <1>4, <2>2 DEF Leads
<1> QED
  BY <1>2, <1>3, <1>4, ReadsStep

LEMMA StringBackslash ==
  ASSUME NEW max \in Nat, NEW text, Len(text) \in Nat, NEW n \in Nat, NEW su, NEW tk, NEW start,
         Reads(text, max, n, "string", start, 0, su, tk), Has(text, n, <<"bslash">>)
  PROVE  Reads(text, max, n + 1, "escape", start, 0, su, tk)
<1>2. n + 1 <= Len(text) /\ text[n + 1] = "bslash"
  BY HasWord
<1>3. tk \in Seq(Tokens) /\ su \in Nat /\ start \in Nat /\ Len(tk) \in Nat /\ Len(tk) <= Len(tk)
  BY DEF Reads
<1>4. ASSUME NEW p, Is(p, "string", start, 0, su, tk), Len(tk) <= max
      PROVE  Leads(Consume(p, text[n + 1], n + 1, max), max, "escape", start, 0, su, tk)
  <2>1. p.mode = "string" /\ p.skip = 0
    BY <1>4 DEF Is
  <2> DEFINE q == [p EXCEPT !.mode = "escape"]
  <2>2. Consume(p, text[n + 1], n + 1, max) = q
    BY <1>2, <2>1 DEF Consume, InString
  <2>3. Is(q, "escape", start, 0, su, tk)
    BY <1>4 DEF Is, Parsers, Modes
  <2> HIDE DEF q
  <2> QED
    BY <1>4, <2>2, <2>3 DEF Leads
<1> QED
  BY <1>2, <1>3, <1>4, ReadsStep

LEMMA StringLetter ==
  ASSUME NEW max \in Nat, NEW text, Len(text) \in Nat, NEW n \in Nat, NEW su, NEW tk, NEW start,
         Reads(text, max, n, "escape", start, 0, su, tk),
         NEW w \in EscapeLetters, Has(text, n, <<w>>)
  PROVE  Reads(text, max, n + 1, "string", start, 0, su, tk)
<1>2. n + 1 <= Len(text) /\ text[n + 1] = w
  BY HasWord
<1>3. tk \in Seq(Tokens) /\ su \in Nat /\ start \in Nat /\ Len(tk) \in Nat /\ Len(tk) <= Len(tk)
  BY DEF Reads
<1>4. ASSUME NEW p, Is(p, "escape", start, 0, su, tk), Len(tk) <= max
      PROVE  Leads(Consume(p, text[n + 1], n + 1, max), max, "string", start, 0, su, tk)
  <2>1. p.mode = "escape"
    BY <1>4 DEF Is
  <2> DEFINE q == [p EXCEPT !.mode = "string"]
  <2>2. Consume(p, text[n + 1], n + 1, max) = q
    BY <1>2, <2>1 DEF Consume, AfterBackslash, EscapeLetters
  <2>3. Is(q, "string", start, 0, su, tk)
    BY <1>4 DEF Is, Parsers, Modes
  <2> HIDE DEF q
  <2> QED
    BY <1>4, <2>2, <2>3 DEF Leads
<1> QED
  BY <1>2, <1>3, <1>4, ReadsStep

LEMMA StringU ==
  ASSUME NEW max \in Nat, NEW text, Len(text) \in Nat, NEW n \in Nat, NEW su, NEW tk, NEW start,
         Reads(text, max, n, "escape", start, 0, su, tk), Has(text, n, <<"u">>)
  PROVE  Reads(text, max, n + 1, "string", start, 4, su, tk)
<1>2. n + 1 <= Len(text) /\ text[n + 1] = "u"
  BY HasWord
<1>3. tk \in Seq(Tokens) /\ su \in Nat /\ start \in Nat /\ Len(tk) \in Nat /\ Len(tk) <= Len(tk)
  BY DEF Reads
<1>4. ASSUME NEW p, Is(p, "escape", start, 0, su, tk), Len(tk) <= max
      PROVE  Leads(Consume(p, text[n + 1], n + 1, max), max, "string", start, 4, su, tk)
  <2>1. p.mode = "escape"
    BY <1>4 DEF Is
  <2> DEFINE q == [p EXCEPT !.mode = "string", !.skip = 4]
  <2>2. Consume(p, text[n + 1], n + 1, max) = q
    BY <1>2, <2>1 DEF Consume, AfterBackslash, EscapeLetters
  <2>3. Is(q, "string", start, 4, su, tk)
    BY <1>4 DEF Is, Parsers, Modes
  <2> HIDE DEF q
  <2> QED
    BY <1>4, <2>2, <2>3 DEF Leads
<1> QED
  BY <1>2, <1>3, <1>4, ReadsStep

LEMMA StringDigit ==
  ASSUME NEW max \in Nat, NEW text, Len(text) \in Nat, NEW n \in Nat, NEW su, NEW tk, NEW start,
         NEW skip \in 1 .. 4, Reads(text, max, n, "string", start, skip, su, tk),
         n + 1 <= Len(text)
  PROVE  Reads(text, max, n + 1, "string", start, skip - 1, su, tk)
<1>3. tk \in Seq(Tokens) /\ su \in Nat /\ start \in Nat /\ Len(tk) \in Nat /\ Len(tk) <= Len(tk)
  BY DEF Reads
<1>4. ASSUME NEW p, Is(p, "string", start, skip, su, tk), Len(tk) <= max
      PROVE  Leads(Consume(p, text[n + 1], n + 1, max), max, "string", start, skip - 1, su, tk)
  <2>1. p.mode = "string" /\ p.skip = skip
    BY <1>4 DEF Is
  <2> DEFINE q == [p EXCEPT !.skip = p.skip - 1]
  <2>2. Consume(p, text[n + 1], n + 1, max) = q
    BY <2>1 DEF Consume, InString
  <2>3. Is(q, "string", start, skip - 1, su, tk)
    BY <1>4 DEF Is, Parsers
  <2> HIDE DEF q
  <2> QED
    BY <1>4, <2>2, <2>3 DEF Leads
<1> QED
  BY <1>3, <1>4, ReadsStep

(* A piece that leaves the parser in the string it stands in. *)
Clean(t) ==
    /\ IsText(t)
    /\ \A text, max, n, su, tk, start :
          /\ max \in Nat /\ Len(text) \in Nat /\ n \in Nat
          /\ Reads(text, max, n, "string", start, 0, su, tk) /\ Has(text, n, t)
          => Reads(text, max, n + Len(t), "string", start, 0, su, tk)

LEMMA CleanEmpty == Clean(<<>>)
<1>1. ASSUME NEW text, NEW max, NEW n, NEW su, NEW tk, NEW start, n \in Nat,
             Reads(text, max, n, "string", start, 0, su, tk)
      PROVE  Reads(text, max, n + Len(<<>>), "string", start, 0, su, tk)
  <2>1. n + Len(<<>>) = n
    BY <1>1
  <2> QED
    BY <1>1, <2>1
<1> QED
  BY <1>1, EmptyText, Zenon DEF Clean

LEMMA CleanConcat ==
  ASSUME NEW a, NEW b, Clean(a), Clean(b)
  PROVE  Clean(a \o b)
<1>1. IsText(a) /\ IsText(b) /\ Len(a) \in Nat /\ Len(b) \in Nat
  BY DEF Clean, IsText
<1>2. IsText(a \o b) /\ Len(a \o b) = Len(a) + Len(b)
  BY <1>1, ConcatText
<1>3. ASSUME NEW text, NEW max, NEW n, NEW su, NEW tk, NEW start,
             max \in Nat, Len(text) \in Nat, n \in Nat,
             Reads(text, max, n, "string", start, 0, su, tk), Has(text, n, a \o b)
      PROVE  Reads(text, max, n + Len(a \o b), "string", start, 0, su, tk)
  <2>1. Has(text, n, a) /\ Has(text, n + Len(a), b) /\ n + Len(a) \in Nat
    BY <1>1, <1>3, HasConcat
  <2>2. Reads(text, max, n + Len(a), "string", start, 0, su, tk)
    BY <1>3, <2>1, Zenon DEF Clean
  <2>3. Reads(text, max, (n + Len(a)) + Len(b), "string", start, 0, su, tk)
    BY <1>3, <2>1, <2>2, Zenon DEF Clean
  <2>4. (n + Len(a)) + Len(b) = n + Len(a \o b)
    BY <1>1, <1>2, <1>3
  <2> QED
    BY <2>3, <2>4
<1> QED
  BY <1>2, <1>3, Zenon DEF Clean

LEMMA CleanWord ==
  ASSUME NEW w, w \notin {"quote", "bslash"}
  PROVE  Clean(<<w>>)
<1>1. ASSUME NEW text, NEW max, NEW n, NEW su, NEW tk, NEW start,
             max \in Nat, Len(text) \in Nat, n \in Nat,
             Reads(text, max, n, "string", start, 0, su, tk), Has(text, n, <<w>>)
      PROVE  Reads(text, max, n + Len(<<w>>), "string", start, 0, su, tk)
  <2>1. Reads(text, max, n + 1, "string", start, 0, su, tk)
    BY <1>1, StringWord, Zenon
  <2> QED
    BY <2>1, WordText
<1> QED
  BY <1>1, WordText, Zenon DEF Clean

LEMMA CleanLetter ==
  ASSUME NEW w \in EscapeLetters
  PROVE  Clean(<<"bslash", w>>)
<1> DEFINE t == <<"bslash", w>>
<1>1. t = <<"bslash">> \o <<w>> /\ Len(t) = 2 /\ IsText(t)
  <2>1. t \in Seq({"bslash", w}) /\ Len(t) = 2 /\ t = <<"bslash">> \o <<w>>
    OBVIOUS
  <2> QED
    BY <2>1, SeqIsText
<1> HIDE DEF t
<1>2. ASSUME NEW text, NEW max, NEW n, NEW su, NEW tk, NEW start,
             max \in Nat, Len(text) \in Nat, n \in Nat,
             Reads(text, max, n, "string", start, 0, su, tk), Has(text, n, t)
      PROVE  Reads(text, max, n + Len(t), "string", start, 0, su, tk)
  <2>1. Has(text, n, <<"bslash">>) /\ Has(text, n + 1, <<w>>) /\ n + 1 \in Nat
    <3>1. /\ IsText(<<"bslash">>) /\ IsText(<<w>>) /\ Len(<<"bslash">>) = 1
          /\ Has(text, n, <<"bslash">> \o <<w>>)
      BY <1>1, <1>2, WordText
    <3> QED
      BY <1>2, <3>1, HasConcat
  <2>2. Reads(text, max, n + 1, "escape", start, 0, su, tk)
    BY <1>2, <2>1, StringBackslash, Zenon
  <2>3. Reads(text, max, (n + 1) + 1, "string", start, 0, su, tk)
    BY <1>2, <2>1, <2>2, StringLetter, Zenon
  <2>4. (n + 1) + 1 = n + Len(t)
    BY <1>1, <1>2
  <2> QED
    BY <2>3, <2>4
<1> QED
  BY <1>1, <1>2, Zenon DEF Clean, t

LEMMA CleanUnicode ==
  ASSUME NEW a, NEW b, NEW c, NEW d
  PROVE  Clean(<<"bslash", "u", a, b, c, d>>)
<1> DEFINE t == <<"bslash", "u", a, b, c, d>>
<1>1. Len(t) = 6 /\ IsText(t) /\ t[1] = "bslash" /\ t[2] = "u"
  <2>1. t \in Seq({"bslash", "u", a, b, c, d}) /\ Len(t) = 6 /\ t[1] = "bslash" /\ t[2] = "u"
    OBVIOUS
  <2> QED
    BY <2>1, SeqIsText
<1> HIDE DEF t
<1>2. ASSUME NEW text, NEW max, NEW n, NEW su, NEW tk, NEW start,
             max \in Nat, Len(text) \in Nat, n \in Nat,
             Reads(text, max, n, "string", start, 0, su, tk), Has(text, n, t)
      PROVE  Reads(text, max, n + Len(t), "string", start, 0, su, tk)
  <2>1. Has(text, n, <<"bslash">>) /\ Has(text, n + 1, <<"u">>) /\ n + 6 <= Len(text)
    <3>1. n + 6 <= Len(text) /\ text[n + 1] = "bslash" /\ text[n + 2] = "u" /\ n + 2 = (n + 1) + 1
      BY <1>1, <1>2 DEF Has
    <3>2. n + 1 <= Len(text) /\ (n + 1) + 1 <= Len(text)
      BY <1>2, <3>1
    <3> QED
      BY <3>1, <3>2, WordText DEF Has
  <2>2. Reads(text, max, n + 1, "escape", start, 0, su, tk)
    BY <1>2, <2>1, StringBackslash, Zenon
  <2>3. n + 1 \in Nat /\ n + 2 \in Nat /\ n + 3 \in Nat /\ n + 4 \in Nat /\ n + 5 \in Nat
    BY <1>2
  <2>4. Reads(text, max, n + 2, "string", start, 4, su, tk)
    <3>1. Reads(text, max, (n + 1) + 1, "string", start, 4, su, tk)
      BY <1>2, <2>1, <2>2, <2>3, StringU, Zenon
    <3> QED
      BY <1>2, <3>1
  <2>5. Reads(text, max, n + 3, "string", start, 3, su, tk)
    <3>1. Reads(text, max, (n + 2) + 1, "string", start, 4 - 1, su, tk)
      BY <1>2, <2>1, <2>3, <2>4, StringDigit
    <3> QED
      BY <1>2, <3>1
  <2>6. Reads(text, max, n + 4, "string", start, 2, su, tk)
    <3>1. Reads(text, max, (n + 3) + 1, "string", start, 3 - 1, su, tk)
      BY <1>2, <2>1, <2>3, <2>5, StringDigit
    <3> QED
      BY <1>2, <3>1
  <2>7. Reads(text, max, n + 5, "string", start, 1, su, tk)
    <3>1. Reads(text, max, (n + 4) + 1, "string", start, 2 - 1, su, tk)
      BY <1>2, <2>1, <2>3, <2>6, StringDigit
    <3> QED
      BY <1>2, <3>1
  <2>8. Reads(text, max, n + 6, "string", start, 0, su, tk)
    <3>1. Reads(text, max, (n + 5) + 1, "string", start, 1 - 1, su, tk)
      BY <1>2, <2>1, <2>3, <2>7, StringDigit
    <3> QED
      BY <1>2, <3>1
  <2> QED
    BY <1>1, <2>8
<1> QED
  BY <1>1, <1>2, Zenon DEF Clean, t

LEMMA CleanFlatten ==
  ASSUME NEW s, s = <<>> \/ (Len(s) \in Nat /\ Len(s) # 0), \A i \in 1 .. Len(s) : Clean(s[i])
  PROVE  Clean(FlattenSeq(s))
<1>1. CASE s = <<>>
  <2>1. FlattenSeq(s) = <<>>
    BY <1>1 DEF FlattenSeq
  <2> QED
    BY <2>1, CleanEmpty
<1>2. CASE Len(s) \in Nat /\ Len(s) # 0
  <2>1. PICK f : /\ FlattenSeq(s) = f[Len(s)] /\ f[1] = s[1]
                 /\ \A i \in 2 .. Len(s) : f[i] = f[i - 1] \o s[i]
    BY <1>2, FlattenTurns
  <2> DEFINE T == {i \in Nat : i + 1 <= Len(s) => Clean(f[i + 1])}
  <2>2. 0 \in T
    BY <1>2, <2>1
  <2>3. ASSUME NEW i \in Nat, i \in T
        PROVE  i + 1 \in T
    <3> SUFFICES ASSUME (i + 1) + 1 <= Len(s) PROVE Clean(f[(i + 1) + 1])
      OBVIOUS
    <3>1. i + 1 <= Len(s) /\ (i + 1) + 1 \in 2 .. Len(s) /\ (i + 1) + 1 \in 1 .. Len(s)
          /\ ((i + 1) + 1) - 1 = i + 1
      BY <1>2
    <3>2. Clean(f[i + 1]) /\ Clean(s[(i + 1) + 1])
      BY <2>3, <3>1
    <3>3. f[(i + 1) + 1] = f[i + 1] \o s[(i + 1) + 1]
      BY <2>1, <3>1
    <3> QED
      BY <3>2, <3>3, CleanConcat
  <2>4. \A i \in Nat : i \in T
    <3> HIDE DEF T
    <3>1. \A i \in Nat : i \in T => i + 1 \in T
      BY <2>3, Zenon
    <3> QED
      BY <2>2, <3>1, SetInduction, Zenon
  <2>5. Len(s) - 1 \in T
    BY <1>2, <2>4
  <2> QED
    BY <1>2, <2>1, <2>5
<1> QED
  BY <1>1, <1>2

LEMMA EscapeCharClean ==
  ASSUME NEW ch
  PROVE  Clean(EscapeChar(ch))
<1>1. CASE ch \in DOMAIN Letter
  <2>1. Letter[ch] \in EscapeLetters
    BY <1>1 DEF Letter, EscapeLetters
  <2>2. EscapeChar(ch) = <<"bslash", Letter[ch]>>
    BY <1>1 DEF EscapeChar
  <2> QED
    BY <2>1, <2>2, CleanLetter
<1>2. CASE ch \notin DOMAIN Letter /\ ch \in Control
  <2>1. EscapeChar(ch) = <<"bslash", "u", "0", "0", "0", "1">>
    BY <1>2 DEF EscapeChar, Unicode, ControlCode
  <2> QED
    BY <2>1, CleanUnicode
<1>3. CASE ch \notin DOMAIN Letter /\ ch \notin Control
  <2>1. EscapeChar(ch) = <<ch>>
    BY <1>3 DEF EscapeChar
  <2>2. ch \notin {"quote", "bslash"}
    BY <1>3 DEF Letter
  <2> QED
    BY <2>1, <2>2, CleanWord
<1> QED
  BY <1>1, <1>2, <1>3

(* Whatever a name holds, the provider's libraries and json_escape_string   *)
(* write it so that it ends where it ends.                                  *)
LEMMA EscapedByClean ==
  ASSUME NEW s, IsText(s)
  PROVE  Clean(EscapedBy(s))
<1> DEFINE e(ch) ==
             IF provider = "go" /\ ch = "lt" THEN <<"bslash", "u", "0", "0", "3", "c">>
             ELSE IF provider = "go" /\ ch = "amp" THEN <<"bslash", "u", "0", "0", "2", "6">>
             ELSE IF provider = "go" /\ ch = "latin" THEN <<"bslash", "u", "f", "f", "f", "d">>
             ELSE IF provider = "python" /\ ch \in {"eacute", "fffd"} THEN <<"bslash", "u", "0", "0", "e", "9">>
             ELSE IF provider = "python" /\ ch = "latin" THEN <<"bslash", "u", "d", "c", "e", "9">>
             ELSE EscapeChar(ch)
           t == [i \in DOMAIN s |-> e(s[i])]
<1>1. EscapedBy(s) = FlattenSeq(t)
  BY Zenon DEF EscapedBy
<1>2. ASSUME NEW ch
      PROVE  Clean(e(ch))
  <2>1. /\ Clean(<<"bslash", "u", "0", "0", "3", "c">>) /\ Clean(<<"bslash", "u", "0", "0", "2", "6">>)
        /\ Clean(<<"bslash", "u", "f", "f", "f", "d">>) /\ Clean(<<"bslash", "u", "0", "0", "e", "9">>)
        /\ Clean(<<"bslash", "u", "d", "c", "e", "9">>)
    BY CleanUnicode, Zenon
  <2>2. Clean(EscapeChar(ch))
    BY EscapeCharClean
  <2> QED
    BY <2>1, <2>2, Zenon
<1> HIDE DEF e
<1>3. DOMAIN s = 1 .. Len(s) /\ Len(s) \in Nat
  BY DEF IsText
<1>4. t = <<>> \/ (Len(t) \in Nat /\ Len(t) # 0)
  <2>1. t \in Seq({e(s[i]) : i \in 1 .. Len(s)}) /\ Len(t) = Len(s)
    BY <1>3
  <2> QED
    BY <1>3, <2>1
<1>5. \A i \in 1 .. Len(t) : Clean(t[i])
  <2>1. DOMAIN t = 1 .. Len(s) /\ Len(t) = Len(s)
    BY <1>3
  <2> QED
    BY <1>2, <1>3, <2>1
<1> HIDE DEF t
<1> QED
  BY <1>1, <1>4, <1>5, CleanFlatten

(* A piece without quotes and backslashes is clean as it is. *)
LEMMA PlainClean ==
  ASSUME NEW s, IsText(s), \A i \in 1 .. Len(s) : s[i] \notin {"quote", "bslash"}
  PROVE  Clean(s)
<1>1. Len(s) \in Nat
  BY DEF IsText
<1>2. ASSUME NEW text, NEW max, NEW n, NEW su, NEW tk, NEW start,
             max \in Nat, Len(text) \in Nat, n \in Nat,
             Reads(text, max, n, "string", start, 0, su, tk), Has(text, n, s)
      PROVE  Reads(text, max, n + Len(s), "string", start, 0, su, tk)
  <2> DEFINE T == {k \in Nat : k <= Len(s) => Reads(text, max, n + k, "string", start, 0, su, tk)}
  <2>1. 0 \in T
    <3>1. n + 0 = n
      BY <1>2
    <3> QED
      BY <1>2, <3>1
  <2>2. ASSUME NEW k \in Nat, k \in T
        PROVE  k + 1 \in T
    <3> SUFFICES ASSUME k + 1 <= Len(s) PROVE Reads(text, max, n + (k + 1), "string", start, 0, su, tk)
      OBVIOUS
    <3>1. k <= Len(s) /\ k + 1 \in 1 .. Len(s) /\ n + k \in Nat /\ (n + k) + 1 = n + (k + 1)
      BY <1>1, <1>2
    <3>2. Reads(text, max, n + k, "string", start, 0, su, tk)
      BY <2>2, <3>1
    <3>3. Has(text, n + k, <<s[k + 1]>>)
      <4>1. text[n + (k + 1)] = s[k + 1] /\ (n + k) + 1 <= Len(text)
        BY <1>1, <1>2, <3>1 DEF Has
      <4> QED
        BY <3>1, <4>1, WordText DEF Has
    <3>4. Reads(text, max, (n + k) + 1, "string", start, 0, su, tk)
      BY <1>2, <3>1, <3>2, <3>3, StringWord, Zenon
    <3> QED
      BY <3>1, <3>4
  <2>3. \A k \in Nat : k \in T
    <3> HIDE DEF T
    <3>1. \A k \in Nat : k \in T => k + 1 \in T
      BY <2>2, Zenon
    <3> QED
      BY <2>1, <3>1, SetInduction, Zenon
  <2> QED
    BY <1>1, <2>3
<1> QED
  BY <1>2, Zenon DEF Clean

-----------------------------------------------------------------------------
(* Values and members *)

(* A quoted text is one token. *)
LEMMA AtQuoted ==
  ASSUME NEW max \in Nat, NEW text, Len(text) \in Nat, NEW n \in Nat, NEW su, NEW tk,
         At(text, max, n, su, tk), NEW v, Clean(v), Has(text, n, Quoted(v))
  PROVE  /\ At(text, max, n + Len(v) + 2, su, Append(tk, Token("string", n + 2, n + Len(v) + 2, su)))
         /\ Has(text, n + 1, v)
<1>1. IsText(v) /\ Len(v) \in Nat /\ IsText(<<"quote">>) /\ Len(<<"quote">>) = 1
  BY WordText DEF Clean, IsText
<1>2. IsText(v \o <<"quote">>) /\ IsText(<<"quote">> \o v)
  BY <1>1, ConcatText
<1>3. Has(text, n, <<"quote">>) /\ Has(text, n + 1, v) /\ Has(text, (n + 1) + Len(v), <<"quote">>)
  <2>1. Quoted(v) = (<<"quote">> \o v) \o <<"quote">>
    BY DEF Quoted
  <2>2. Has(text, n, <<"quote">> \o v) /\ Has(text, n + Len(<<"quote">> \o v), <<"quote">>)
    BY <1>1, <1>2, <2>1, HasConcat
  <2>3. Has(text, n, <<"quote">>) /\ Has(text, n + 1, v)
    BY <1>1, <2>2, HasConcat
  <2>4. n + Len(<<"quote">> \o v) = (n + 1) + Len(v)
    BY <1>1, ConcatText
  <2> QED
    BY <2>2, <2>3, <2>4
<1>4. Reads(text, max, n + 1, "string", n + 1, 0, su, tk) /\ n + 1 \in Nat /\ (n + 1) + Len(v) \in Nat
  BY <1>1, <1>3, AtQuote
<1>5. Reads(text, max, (n + 1) + Len(v), "string", n + 1, 0, su, tk)
  BY <1>3, <1>4, Zenon DEF Clean
<1>6. At(text, max, ((n + 1) + Len(v)) + 1, su, Append(tk, Token("string", (n + 1) + 1, ((n + 1) + Len(v)) + 1, su)))
  BY <1>3, <1>4, <1>5, AtEndQuote, Zenon
<1>7. ((n + 1) + Len(v)) + 1 = n + Len(v) + 2 /\ (n + 1) + 1 = n + 2
  BY <1>1
<1> QED
  BY <1>3, <1>6, <1>7

(* A key and its colon *)
LEMMA AtKey ==
  ASSUME NEW max \in Nat, NEW text, Len(text) \in Nat, NEW n \in Nat, NEW su, NEW tk,
         At(text, max, n, su, tk), NEW key, key \notin {"quote", "bslash"},
         NEW value, IsText(value), Has(text, n, Member(key, value))
  PROVE  /\ At(text, max, n + 4, su, Append(tk, Token("string", n + 2, n + 3, su)))
         /\ Has(text, n + 4, value) /\ Has(text, n + 1, <<key>>) /\ n + 4 \in Nat
<1>1. /\ Clean(<<key>>) /\ IsText(<<key>>) /\ Len(<<key>>) = 1
      /\ IsText(<<"quote">>) /\ Len(<<"quote">>) = 1 /\ IsText(<<"colon">>) /\ Len(<<"colon">>) = 1
  BY CleanWord, WordText
<1>2. IsText(Quoted(<<key>>)) /\ Len(Quoted(<<key>>)) = 3
  <2>1. IsText(<<"quote">> \o <<key>>) /\ Len(<<"quote">> \o <<key>>) = 2
    BY <1>1, ConcatText
  <2> DEFINE q == <<"quote">> \o <<key>>
  <2> HIDE DEF q
  <2>2. IsText(q \o <<"quote">>) /\ Len(q \o <<"quote">>) = 3
    BY <1>1, <2>1, ConcatText DEF q
  <2> QED
    BY <2>2 DEF Quoted, q
<1> DEFINE k == Quoted(<<key>>)
           c == <<"colon">>
           kc == k \o c
<1>3. Member(key, value) = kc \o value
  BY DEF Member
<1>4. IsText(k) /\ Len(k) = 3 /\ IsText(c) /\ Len(c) = 1
  BY <1>1, <1>2
<1> HIDE DEF k, c
<1>5. IsText(kc) /\ Len(kc) = Len(k) + Len(c) /\ Has(text, n, kc \o value)
  BY <1>3, <1>4, ConcatText, Zenon
<1>6. Has(text, n, k) /\ Has(text, n + 3, c) /\ Has(text, n + 4, value) /\ n + 3 \in Nat /\ n + 4 \in Nat
  <2>1. Has(text, n, kc) /\ Has(text, n + Len(kc), value)
    <3> HIDE DEF kc
    <3> QED
      BY <1>5, HasConcat, Zenon
  <2>2. Has(text, n, k) /\ Has(text, n + Len(k), c)
    BY <1>4, <2>1, HasConcat, Zenon
  <2> HIDE DEF kc
  <2> QED
    BY <1>4, <1>5, <2>1, <2>2
<1>7. /\ At(text, max, n + Len(<<key>>) + 2, su, Append(tk, Token("string", n + 2, n + Len(<<key>>) + 2, su)))
      /\ Has(text, n + 1, <<key>>)
  BY <1>1, <1>6, AtQuoted, Zenon DEF k
<1>8. n + Len(<<key>>) + 2 = n + 3 /\ (n + 3) + 1 = n + 4
  BY <1>1
<1>9. At(text, max, n + 3, su, Append(tk, Token("string", n + 2, n + 3, su)))
  BY <1>7, <1>8
<1>10. At(text, max, (n + 3) + 1, su, Append(tk, Token("string", n + 2, n + 3, su)))
  BY <1>6, <1>9, AtSeparator DEF c
<1> QED
  BY <1>6, <1>7, <1>8, <1>10

(* The object or array that is open at su ends. *)
Innermost(tk, su) ==
    su \in 1 .. Len(tk) /\ tk[su].end = 0 /\ \A j \in 1 .. Len(tk) : j > su => tk[j].end # 0
Closed(tk, i, end) == [tk EXCEPT ![i] = Token(tk[i].type, tk[i].start, end, tk[i].parent)]

LEMMA ClosedSeq ==
  ASSUME NEW tk \in Seq(Tokens), NEW i \in 1 .. Len(tk), NEW end \in Nat
  PROVE  /\ Closed(tk, i, end) \in Seq(Tokens) /\ Len(Closed(tk, i, end)) = Len(tk)
         /\ tk[i].parent \in Nat
         /\ Closed(tk, i, end)[i] = Token(tk[i].type, tk[i].start, end, tk[i].parent)
         /\ \A j \in 1 .. Len(tk) : j # i => Closed(tk, i, end)[j] = tk[j]
<1> DEFINE t == Token(tk[i].type, tk[i].start, end, tk[i].parent)
<1>1. tk[i] \in Tokens
  OBVIOUS
<1>2. t \in Tokens /\ tk[i].parent \in Nat
  BY <1>1 DEF Token, Tokens
<1> HIDE DEF t
<1>3. Closed(tk, i, end) = [tk EXCEPT ![i] = t]
  BY DEF Closed, t
<1>4. [tk EXCEPT ![i] = t] \in Seq(Tokens) /\ Len([tk EXCEPT ![i] = t]) = Len(tk)
  BY <1>2, ExceptSeq
<1>5. [tk EXCEPT ![i] = t][i] = t /\ \A j \in 1 .. Len(tk) : j # i => [tk EXCEPT ![i] = t][j] = tk[j]
  OBVIOUS
<1> QED
  BY <1>2, <1>3, <1>4, <1>5 DEF t

LEMMA TopClose ==
  ASSUME NEW p, NEW start, NEW su, NEW tk, Is(p, "top", start, 0, su, tk), Innermost(tk, su),
         NEW type, tk[su].type = type, NEW pos \in Nat
  PROVE  Is(Close(p, type, pos), "top", start, 0, tk[su].parent, Closed(tk, su, pos + 1))
<1>1. p \in Parsers /\ p.tokens = tk /\ tk \in Seq(Tokens) /\ Len(tk) \in Nat /\ su \in 1 .. Len(tk)
  BY DEF Is, Parsers, Innermost
<1>2. OpenTokens(p) = {i \in 1 .. Len(tk) : tk[i].end = 0}
  BY <1>1 DEF OpenTokens
<1>3. su \in OpenTokens(p) /\ \A j \in OpenTokens(p) : j <= su
  BY <1>1, <1>2 DEF Innermost
<1> DEFINE i == CHOOSE i \in OpenTokens(p) : \A j \in OpenTokens(p) : j <= i
<1>4. i \in OpenTokens(p) /\ \A j \in OpenTokens(p) : j <= i
  BY <1>3, Zenon
<1> HIDE DEF i
<1>5. i = su
  BY <1>1, <1>2, <1>3, <1>4
<1>6. Close(p, type, pos) = [p EXCEPT !.tokens[i].end = pos + 1, !.super = p.tokens[i].parent]
  BY <1>1, <1>3, <1>5 DEF Close, i
<1>7. tk[su] \in Tokens
  BY <1>1
<1>8. [tk[su] EXCEPT !.end = pos + 1] = Token(tk[su].type, tk[su].start, pos + 1, tk[su].parent)
  BY <1>7 DEF Tokens, Token
<1> DEFINE ts == Closed(tk, su, pos + 1)
<1>9. [p.tokens EXCEPT ![su] = [p.tokens[su] EXCEPT !.end = pos + 1]] = ts
  BY <1>1, <1>8 DEF Closed
<1>10. Close(p, type, pos) = [p EXCEPT !.tokens = ts, !.super = tk[su].parent]
  <2>1. Close(p, type, pos) = [p EXCEPT !.tokens[su].end = pos + 1, !.super = tk[su].parent]
    BY <1>1, <1>5, <1>6
  <2> DEFINE c == [p EXCEPT !.tokens = [p.tokens EXCEPT ![su] = [p.tokens[su] EXCEPT !.end = pos + 1]],
                            !.super = tk[su].parent]
  <2>2. Close(p, type, pos) = c
    BY <1>1, <2>1 DEF Parsers
  <2> QED
    BY <1>9, <2>2
<1>11. pos + 1 \in Nat
  OBVIOUS
<1>12. ts \in Seq(Tokens) /\ tk[su].parent \in Nat
  BY <1>1, <1>11, ClosedSeq
<1> HIDE DEF ts
<1>13. Is(Close(p, type, pos), "top", start, 0, tk[su].parent, ts)
  BY <1>10, <1>12 DEF Is, Parsers
<1> QED
  BY <1>13 DEF ts

LEMMA AtClose ==
  ASSUME NEW max \in Nat, NEW text, Len(text) \in Nat, NEW n \in Nat, NEW su, NEW tk,
         At(text, max, n, su, tk), Innermost(tk, su), NEW w,
         \/ w = "rbrace" /\ tk[su].type = "object"
         \/ w = "rbracket" /\ tk[su].type = "array",
         Has(text, n, <<w>>)
  PROVE  At(text, max, n + 1, tk[su].parent, Closed(tk, su, n + 2))
<1>1. PICK start \in Nat : Reads(text, max, n, "top", start, 0, su, tk)
  BY DEF At
<1>2. n + 1 <= Len(text) /\ text[n + 1] = w /\ n + 1 \in Nat /\ (n + 1) + 1 = n + 2 /\ n + 2 \in Nat
  BY HasWord
<1>3. tk \in Seq(Tokens) /\ su \in 1 .. Len(tk) /\ Len(tk) \in Nat
  BY <1>1 DEF Reads, Innermost
<1> DEFINE tk2 == Closed(tk, su, n + 2)
<1>4. tk2 \in Seq(Tokens) /\ Len(tk2) = Len(tk) /\ tk[su].parent \in Nat
  BY <1>2, <1>3, ClosedSeq
<1>5. ASSUME NEW p, Is(p, "top", start, 0, su, tk), Len(tk) <= max
      PROVE  Leads(Consume(p, text[n + 1], n + 1, max), max, "top", start, 0, tk[su].parent, tk2)
  <2>1. p.mode = "top"
    BY <1>5 DEF Is
  <2>2. Consume(p, text[n + 1], n + 1, max) = Close(p, tk[su].type, n + 1)
    BY <1>2, <2>1 DEF Consume, Top, Blank
  <2>3. Is(Close(p, tk[su].type, n + 1), "top", start, 0, tk[su].parent, Closed(tk, su, (n + 1) + 1))
    BY <1>2, <1>5, TopClose, Zenon
  <2> QED
    BY <1>2, <1>4, <1>5, <2>2, <2>3 DEF Leads
<1>6. Len(tk) <= Len(tk2)
  BY <1>3, <1>4
<1> HIDE DEF tk2
<1>7. Reads(text, max, n + 1, "top", start, 0, tk[su].parent, tk2)
  BY <1>1, <1>2, <1>4, <1>5, <1>6, ReadsStep
<1> QED
  BY <1>7 DEF At, tk2

(* A word without quotes is a token when the next symbol ends it. *)
Plain(w) ==
    /\ w \notin Blank /\ Printable(w)
    /\ w \notin {"lbrace", "lbracket", "rbrace", "rbracket", "quote", "bslash", "colon", "comma"}

LEMMA AtWord ==
  ASSUME NEW max \in Nat, NEW text, Len(text) \in Nat, NEW n \in Nat, NEW su, NEW tk,
         At(text, max, n, su, tk), NEW w, Plain(w), Has(text, n, <<w>>)
  PROVE  Reads(text, max, n + 1, "primitive", n + 1, 0, su, tk)
<1>1. PICK start \in Nat : Reads(text, max, n, "top", start, 0, su, tk)
  BY DEF At
<1>2. n + 1 <= Len(text) /\ text[n + 1] = w /\ n + 1 \in Nat
  BY HasWord
<1>3. tk \in Seq(Tokens) /\ su \in Nat /\ Len(tk) \in Nat /\ Len(tk) <= Len(tk)
  BY <1>1 DEF Reads
<1>4. ASSUME NEW p, Is(p, "top", start, 0, su, tk), Len(tk) <= max
      PROVE  Leads(Consume(p, text[n + 1], n + 1, max), max, "primitive", n + 1, 0, su, tk)
  <2> DEFINE q == [p EXCEPT !.mode = "primitive", !.start = n + 1]
  <2>1. p.mode = "top"
    BY <1>4 DEF Is
  <2>2. Consume(p, text[n + 1], n + 1, max) = Top(p, w, n + 1, max)
    BY <1>2, <2>1 DEF Consume
  <2>3. Top(p, w, n + 1, max) = q
    BY DEF Top, Plain
  <2>4. Is(q, "primitive", n + 1, 0, su, tk)
    BY <1>2, <1>4 DEF Is, Parsers, Modes
  <2> HIDE DEF q
  <2> QED
    BY <1>4, <2>2, <2>3, <2>4 DEF Leads
<1> QED
  BY <1>1, <1>2, <1>3, <1>4, ReadsStep

(* ... and what the next symbol does to it *)
LEMMA WordEnds ==
  ASSUME NEW max \in Nat, NEW start, NEW su \in Nat, NEW tk \in Seq(Tokens), NEW pos \in Nat,
         NEW ch \in EndsPrimitive, NEW from \in Nat,
         NEW su2, NEW tk2, tk2 = Append(tk, Token("primitive", from, pos, su)),
         NEW tk3, Len(tk3) = Len(tk2),
         \A p : Is(p, "top", from, 0, su, tk2) => Is(Top(p, ch, pos, max), "top", from, 0, su2, tk3),
         NEW p, Is(p, "primitive", from, 0, su, tk), Len(tk) <= max
  PROVE  Leads(Consume(p, ch, pos, max), max, "top", from, 0, su2, tk3)
<1> DEFINE a == AddToken(p, "primitive", from, pos, max)
           b == [a EXCEPT !.mode = "top"]
<1>1. Consume(p, ch, pos, max) = InPrimitive(p, ch, pos, max) /\ p.start = from
  BY DEF Consume, Is
<1>2. InPrimitive(p, ch, pos, max) = IF a.error THEN a ELSE Top(b, ch, pos, max)
  BY <1>1 DEF InPrimitive
<1>3. Leads(a, max, "primitive", from, 0, su, tk2)
  <2>1. "primitive" \in Kinds
    BY DEF Kinds
  <2> QED
    BY <2>1, Added
<1> HIDE DEF a
<1>4. CASE Len(tk2) <= max
  <2>1. Is(a, "primitive", from, 0, su, tk2)
    BY <1>3, <1>4 DEF Leads
  <2>2. Is(b, "top", from, 0, su, tk2) /\ a.error = FALSE
    BY <2>1 DEF Is, Parsers, Modes
  <2> HIDE DEF b
  <2>3. Is(Top(b, ch, pos, max), "top", from, 0, su2, tk3)
    BY <2>2, Zenon
  <2> QED
    BY <1>1, <1>2, <1>4, <2>2, <2>3 DEF Leads
<1>5. CASE ~ (Len(tk2) <= max)
  BY <1>1, <1>2, <1>3, <1>5 DEF Leads
<1> QED
  BY <1>4, <1>5

LEMMA OneMore ==
  ASSUME NEW tk \in Seq(Tokens), NEW type \in Kinds, NEW from \in Nat, NEW to \in Nat,
         NEW su \in Nat, NEW t, t = Token(type, from, to, su)
  PROVE  /\ Append(tk, t) \in Seq(Tokens) /\ Len(Append(tk, t)) = Len(tk) + 1 /\ Len(tk) \in Nat
         /\ Append(tk, t)[Len(tk) + 1] = t /\ \A i \in 1 .. Len(tk) : Append(tk, t)[i] = tk[i]
<1>1. t \in Tokens
  BY DEF Token, Tokens
<1> QED
  BY <1>1

(* After n symbols a value has ended, or ends with the next comma or        *)
(* bracket.                                                                 *)
Pending(text, max, n, su, tk) ==
    \/ At(text, max, n, su, tk)
    \/ \E tk0 : /\ Reads(text, max, n, "primitive", n, 0, su, tk0)
                /\ tk = Append(tk0, Token("primitive", n, n + 1, su))

LEMMA PendingSeq ==
  ASSUME NEW max \in Nat, NEW text, NEW n \in Nat, NEW su, NEW tk, Pending(text, max, n, su, tk)
  PROVE  tk \in Seq(Tokens) /\ su \in Nat /\ Len(tk) \in Nat
<1>1. CASE At(text, max, n, su, tk)
  BY <1>1 DEF At, Reads
<1>2. CASE \E tk0 : /\ Reads(text, max, n, "primitive", n, 0, su, tk0)
                    /\ tk = Append(tk0, Token("primitive", n, n + 1, su))
  <2>1. PICK tk0 : /\ Reads(text, max, n, "primitive", n, 0, su, tk0)
                   /\ tk = Append(tk0, Token("primitive", n, n + 1, su))
    BY <1>2
  <2>2. tk0 \in Seq(Tokens) /\ su \in Nat /\ "primitive" \in Kinds /\ n + 1 \in Nat
    BY <2>1 DEF Reads, Kinds
  <2> DEFINE t == Token("primitive", n, n + 1, su)
  <2>3. t = Token("primitive", n, n + 1, su)
    OBVIOUS
  <2> HIDE DEF t
  <2>4. Append(tk0, t) \in Seq(Tokens)
    BY <2>2, <2>3, OneMore
  <2> QED
    BY <2>1, <2>2, <2>4 DEF t
<1> QED
  BY <1>1, <1>2 DEF Pending

LEMMA PendingComma ==
  ASSUME NEW max \in Nat, NEW text, Len(text) \in Nat, NEW n \in Nat, NEW su, NEW tk,
         Pending(text, max, n, su, tk), Has(text, n, <<"comma">>)
  PROVE  At(text, max, n + 1, su, tk)
<1>1. CASE At(text, max, n, su, tk)
  BY <1>1, AtSeparator
<1>2. CASE \E tk0 : /\ Reads(text, max, n, "primitive", n, 0, su, tk0)
                    /\ tk = Append(tk0, Token("primitive", n, n + 1, su))
  <2>1. PICK tk0 : /\ Reads(text, max, n, "primitive", n, 0, su, tk0)
                   /\ tk = Append(tk0, Token("primitive", n, n + 1, su))
    BY <1>2
  <2>2. n + 1 <= Len(text) /\ text[n + 1] = "comma" /\ n + 1 \in Nat
    BY HasWord
  <2>3. tk0 \in Seq(Tokens) /\ su \in Nat /\ "primitive" \in Kinds
    BY <2>1 DEF Reads, Kinds
  <2> DEFINE pos == n + 1
             t == Token("primitive", n, pos, su)
  <2>4. tk \in Seq(Tokens) /\ Len(tk) = Len(tk) /\ Len(tk0) <= Len(tk) /\ tk = Append(tk0, t)
    <3>1. t = Token("primitive", n, pos, su) /\ pos \in Nat /\ tk = Append(tk0, t)
      BY <2>1, <2>2
    <3> HIDE DEF t, pos
    <3>2. tk \in Seq(Tokens) /\ Len(tk) = Len(tk0) + 1 /\ Len(tk0) \in Nat
      BY <2>2, <2>3, <3>1, OneMore
    <3> QED
      BY <3>1, <3>2
  <2>5. \A p : Is(p, "top", n, 0, su, tk) => Is(Top(p, "comma", pos, max), "top", n, 0, su, tk)
    BY DEF Top, Blank
  <2>6. "comma" \in EndsPrimitive
    BY DEF EndsPrimitive
  <2>7. ASSUME NEW p, Is(p, "primitive", n, 0, su, tk0), Len(tk0) <= max
        PROVE  Leads(Consume(p, text[pos], pos, max), max, "top", n, 0, su, tk)
    <3>1. Leads(Consume(p, "comma", pos, max), max, "top", n, 0, su, tk)
      BY <2>2, <2>3, <2>4, <2>5, <2>6, <2>7, WordEnds, Zenon
    <3> QED
      BY <2>2, <3>1
  <2>8. Reads(text, max, n + 1, "top", n, 0, su, tk)
    BY <2>1, <2>2, <2>3, <2>4, <2>7, ReadsStep
  <2> QED
    BY <2>2, <2>8 DEF At
<1> QED
  BY <1>1, <1>2 DEF Pending

(* The object that is open ends after its last value. *)
LEMMA PendingClose ==
  ASSUME NEW max \in Nat, NEW text, Len(text) \in Nat, NEW n \in Nat, NEW su, NEW tk,
         Pending(text, max, n, su, tk), Has(text, n, <<"rbrace">>),
         Innermost(tk, su), tk[su].type = "object"
  PROVE  At(text, max, n + 1, tk[su].parent, Closed(tk, su, n + 2))
<1>1. CASE At(text, max, n, su, tk)
  BY <1>1, AtClose, Zenon
<1>2. CASE \E tk0 : /\ Reads(text, max, n, "primitive", n, 0, su, tk0)
                    /\ tk = Append(tk0, Token("primitive", n, n + 1, su))
  <2>1. PICK tk0 : /\ Reads(text, max, n, "primitive", n, 0, su, tk0)
                   /\ tk = Append(tk0, Token("primitive", n, n + 1, su))
    BY <1>2
  <2>2. /\ n + 1 <= Len(text) /\ text[n + 1] = "rbrace" /\ n + 1 \in Nat
        /\ (n + 1) + 1 = n + 2 /\ n + 2 \in Nat
    BY HasWord
  <2>3. tk0 \in Seq(Tokens) /\ su \in Nat /\ "primitive" \in Kinds /\ Len(tk0) \in Nat
    BY <2>1 DEF Reads, Kinds
  <2> DEFINE pos == n + 1
             t == Token("primitive", n, pos, su)
             tk3 == Closed(tk, su, n + 2)
  <2>4. tk \in Seq(Tokens) /\ Len(tk) = Len(tk0) + 1 /\ Len(tk0) <= Len(tk) /\ tk = Append(tk0, t)
    <3>1. t = Token("primitive", n, pos, su) /\ pos \in Nat /\ tk = Append(tk0, t)
      BY <2>1, <2>2
    <3> HIDE DEF t, pos
    <3>2. tk \in Seq(Tokens) /\ Len(tk) = Len(tk0) + 1
      BY <2>2, <2>3, <3>1, OneMore
    <3> QED
      BY <2>3, <3>1, <3>2
  <2>6. tk3 \in Seq(Tokens) /\ Len(tk3) = Len(tk) /\ tk[su].parent \in Nat
    <3>1. su \in 1 .. Len(tk)
      BY DEF Innermost
    <3> QED
      BY <2>2, <2>4, <3>1, ClosedSeq
  <2>7. ASSUME NEW p, Is(p, "top", n, 0, su, tk)
        PROVE  Is(Top(p, "rbrace", pos, max), "top", n, 0, tk[su].parent, tk3)
    <3>1. Top(p, "rbrace", pos, max) = Close(p, "object", pos)
      BY DEF Top, Blank
    <3>2. Is(Close(p, "object", pos), "top", n, 0, tk[su].parent, Closed(tk, su, pos + 1))
      BY <2>2, <2>7, TopClose
    <3> QED
      BY <2>2, <3>1, <3>2
  <2> HIDE DEF tk3
  <2>8. "rbrace" \in EndsPrimitive
    BY DEF EndsPrimitive
  <2>9. ASSUME NEW p, Is(p, "primitive", n, 0, su, tk0), Len(tk0) <= max
        PROVE  Leads(Consume(p, text[pos], pos, max), max, "top", n, 0, tk[su].parent, tk3)
    <3>1. Leads(Consume(p, "rbrace", pos, max), max, "top", n, 0, tk[su].parent, tk3)
      BY <2>2, <2>3, <2>4, <2>6, <2>7, <2>8, <2>9, WordEnds, Zenon
    <3> QED
      BY <2>2, <3>1
  <2>10. Len(tk0) <= Len(tk3)
    BY <2>4, <2>6
  <2>11. Reads(text, max, n + 1, "top", n, 0, tk[su].parent, tk3)
    BY <2>1, <2>2, <2>6, <2>9, <2>10, ReadsStep
  <2> QED
    BY <2>2, <2>11 DEF At, tk3
<1> QED
  BY <1>1, <1>2 DEF Pending

(* The text of a token is the piece it was made of. *)
LEMMA HasSubSeq ==
  ASSUME NEW text, IsText(text), NEW n \in Nat, NEW v, IsText(v), Has(text, n, v)
  PROVE  SubSeq(text, n + 1, n + Len(v)) = v
<1>1. Len(v) \in Nat /\ Len(text) \in Nat /\ n + Len(v) <= Len(text)
  BY DEF IsText, Has
<1> DEFINE u == SubSeq(text, n + 1, n + Len(v))
<1>2. /\ Len(u) = Len(v) /\ u = [i \in 1 .. Len(u) |-> u[i]]
      /\ \A i \in 1 .. Len(v) : u[i] = text[n + i]
  <2>1. text \in Seq({text[i] : i \in 1 .. Len(text)})
    BY DEF IsText
  <2> DEFINE X == {text[i] : i \in 1 .. Len(text)}
  <2> HIDE DEF X
  <2>2. text \in Seq(X)
    BY <2>1 DEF X
  <2>3. u \in Seq(X) /\ Len(u) = Len(v)
    BY <1>1, <2>2
  <2>4. \A i \in 1 .. Len(v) : u[i] = text[n + i]
    BY <1>1, <2>2
  <2> QED
    BY <2>3, <2>4
<1>3. v = [i \in 1 .. Len(v) |-> v[i]]
  BY DEF IsText
<1> HIDE DEF u
<1>4. \A i \in 1 .. Len(v) : u[i] = v[i]
  BY <1>1, <1>2 DEF Has
<1> QED
  BY <1>2, <1>3, <1>4 DEF u

LEMMA TextOfToken ==
  ASSUME NEW text, IsText(text), NEW n \in Nat, NEW v, IsText(v), Has(text, n, v),
         NEW type, NEW parent
  PROVE  TokenText(text, Token(type, n + 1, (n + 1) + Len(v), parent)) = v
<1>1. Len(v) \in Nat
  BY DEF IsText
<1>2. /\ Token(type, n + 1, (n + 1) + Len(v), parent).start = n + 1
      /\ Token(type, n + 1, (n + 1) + Len(v), parent).end = (n + 1) + Len(v)
  BY DEF Token
<1>3. ((n + 1) + Len(v)) - 1 = n + Len(v)
  BY <1>1
<1> QED
  BY <1>2, <1>3, HasSubSeq DEF TokenText

-----------------------------------------------------------------------------
(* Objects *)

(* A member: a key and a quoted text, or a key and a word. *)
ValueText(kind, v) == IF kind = "string" THEN Quoted(v) ELSE v
M(key, kind, v) == Member(key, ValueText(kind, v))
Good(key, kind, v) ==
    /\ key \notin {"quote", "bslash"}
    /\ \/ kind = "string" /\ Clean(v)
       \/ kind = "primitive" /\ \E w : Plain(w) /\ v = <<w>>

(* Tokens i and i+1 are a key and its value, found between lo and hi. *)
Pair(text, t, i, obj, key, kind, v, lo, hi) ==
    /\ i \in 1 .. Len(t) /\ i + 1 \in 1 .. Len(t)
    /\ t[i].type = "string" /\ t[i].parent = obj /\ TokenText(text, t[i]) = <<key>>
    /\ lo < t[i].start /\ t[i].start < t[i].end /\ t[i].end <= t[i + 1].start
    /\ t[i + 1].type = kind /\ t[i + 1].parent = obj /\ TokenText(text, t[i + 1]) = v
    /\ t[i + 1].start <= t[i + 1].end /\ t[i + 1].end <= hi + 1

Grown(tk, tk2, k) ==
    /\ tk \in Seq(Tokens) /\ tk2 \in Seq(Tokens) /\ Len(tk2) = Len(tk) + k
    /\ \A i \in 1 .. Len(tk) : tk2[i] = tk[i]

LEMMA MemberText ==
  ASSUME NEW key, NEW kind, NEW v, Good(key, kind, v)
  PROVE  /\ IsText(v) /\ IsText(ValueText(kind, v)) /\ IsText(M(key, kind, v))
         /\ Len(M(key, kind, v)) = 4 + Len(ValueText(kind, v))
         /\ Len(ValueText(kind, v)) \in Nat /\ Len(M(key, kind, v)) \in Nat
<1>1. IsText(v) /\ Len(v) \in Nat
  BY WordText DEF Good, Clean, IsText
<1>2. IsText(<<"quote">>) /\ Len(<<"quote">>) = 1 /\ IsText(<<"colon">>) /\ Len(<<"colon">>) = 1
      /\ IsText(<<key>>) /\ Len(<<key>>) = 1
  BY WordText
<1>3. ASSUME NEW x, IsText(x)
      PROVE  IsText(Quoted(x)) /\ Len(Quoted(x)) = Len(x) + 2
  <2> DEFINE q == <<"quote">>
             qx == q \o x
  <2>1. Quoted(x) = qx \o q /\ IsText(q) /\ Len(q) = 1 /\ Len(x) \in Nat
    BY <1>2, <1>3 DEF Quoted, IsText
  <2> HIDE DEF q
  <2>2. IsText(qx) /\ Len(qx) = Len(q) + Len(x)
    BY <1>3, <2>1, ConcatText, Zenon
  <2> HIDE DEF qx
  <2>3. IsText(qx \o q) /\ Len(qx \o q) = Len(qx) + Len(q)
    BY <2>1, <2>2, ConcatText, Zenon
  <2> QED
    BY <2>1, <2>2, <2>3
<1>4. IsText(ValueText(kind, v)) /\ Len(ValueText(kind, v)) \in Nat
  BY <1>1, <1>3 DEF ValueText, IsText
<1> DEFINE k == Quoted(<<key>>)
           c == <<"colon">>
           kc == k \o c
           x == ValueText(kind, v)
<1>5. IsText(k) /\ Len(k) = 3 /\ IsText(c) /\ Len(c) = 1
  <2>1. IsText(k) /\ Len(k) = Len(<<key>>) + 2
    BY <1>2, <1>3, Zenon
  <2> QED
    BY <1>2, <2>1
<1>6. M(key, kind, v) = kc \o x
  BY DEF M, Member
<1> HIDE DEF k, c, x
<1>7. IsText(kc) /\ Len(kc) = Len(k) + Len(c)
  BY <1>5, ConcatText, Zenon
<1> HIDE DEF kc
<1>8. IsText(kc \o x) /\ Len(kc \o x) = Len(kc) + Len(x) /\ IsText(x) /\ Len(x) \in Nat
  BY <1>4, <1>7, ConcatText, Zenon DEF x
<1> QED
  BY <1>1, <1>4, <1>5, <1>6, <1>7, <1>8 DEF x

LEMMA ClosedPair ==
  ASSUME NEW text, NEW t \in Seq(Tokens), NEW i, NEW obj, NEW key, NEW kind, NEW v, NEW lo, NEW hi,
         Pair(text, t, i, obj, key, kind, v, lo, hi), NEW o \in 1 .. Len(t), o # i, o # i + 1,
         NEW end \in Nat
  PROVE  Pair(text, Closed(t, o, end), i, obj, key, kind, v, lo, hi)
<1>1. i \in 1 .. Len(t) /\ i + 1 \in 1 .. Len(t)
  BY DEF Pair
<1>2. Len(Closed(t, o, end)) = Len(t) /\ Closed(t, o, end)[i] = t[i] /\ Closed(t, o, end)[i + 1] = t[i + 1]
  BY <1>1, ClosedSeq
<1> QED
  BY <1>2, Zenon DEF Pair

LEMMA GrownPair ==
  ASSUME NEW text, NEW t, NEW t2, NEW k \in Nat, Grown(t, t2, k), NEW i, NEW obj, NEW key, NEW kind, NEW v,
         NEW lo, NEW hi, Pair(text, t, i, obj, key, kind, v, lo, hi)
  PROVE  Pair(text, t2, i, obj, key, kind, v, lo, hi)
<1>1. i \in 1 .. Len(t) /\ i + 1 \in 1 .. Len(t)
  BY DEF Pair
<1>2. i \in 1 .. Len(t2) /\ i + 1 \in 1 .. Len(t2) /\ t2[i] = t[i] /\ t2[i + 1] = t[i + 1]
  BY <1>1 DEF Grown
<1> QED
  BY <1>2, Zenon DEF Pair

LEMMA GrownTwice ==
  ASSUME NEW t, NEW t2, NEW t3, NEW k \in Nat, NEW l \in Nat, Grown(t, t2, k), Grown(t2, t3, l)
  PROVE  Grown(t, t3, k + l)
BY DEF Grown

(* The key, and the value's first token *)
LEMMA AtValue ==
  ASSUME NEW max \in Nat, NEW text, IsText(text), NEW n \in Nat, NEW su, NEW tk,
         At(text, max, n, su, tk), NEW key, NEW kind, NEW v, Good(key, kind, v),
         Has(text, n, M(key, kind, v))
  PROVE  LET tk1 == Append(tk, Token("string", n + 2, n + 3, su)) IN
         /\ At(text, max, n + 4, su, tk1) /\ Has(text, n + 4, ValueText(kind, v))
         /\ Grown(tk, tk1, 1) /\ TokenText(text, Token("string", n + 2, n + 3, su)) = <<key>>
         /\ tk1[Len(tk) + 1] = Token("string", n + 2, n + 3, su)
         /\ su \in Nat /\ tk1 \in Seq(Tokens)
<1>1. Len(text) \in Nat /\ IsText(ValueText(kind, v)) /\ key \notin {"quote", "bslash"}
  <2>1. IsText(ValueText(kind, v))
    BY MemberText, Zenon
  <2> QED
    BY <2>1 DEF IsText, Good
<1>2. /\ At(text, max, n + 4, su, Append(tk, Token("string", n + 2, n + 3, su)))
      /\ Has(text, n + 4, ValueText(kind, v)) /\ Has(text, n + 1, <<key>>)
  BY <1>1, AtKey, Zenon DEF M
<1> DEFINE t == Token("string", n + 2, n + 3, su)
<1>3. tk \in Seq(Tokens) /\ su \in Nat /\ "string" \in Kinds /\ n + 2 \in Nat /\ n + 3 \in Nat
  BY DEF At, Reads, Kinds
<1>4. t = Token("string", n + 2, n + 3, su)
  OBVIOUS
<1>5. IsText(<<key>>) /\ Len(<<key>>) = 1 /\ n + 1 \in Nat /\ (n + 1) + 1 = n + 2
  BY WordText
<1>6. TokenText(text, Token("string", (n + 1) + 1, ((n + 1) + 1) + Len(<<key>>), su)) = <<key>>
  <2> DEFINE x == <<key>>
             m == n + 1
             s == "string"
  <2>1. Has(text, m, x) /\ IsText(x) /\ m \in Nat
    BY <1>2, <1>5
  <2> HIDE DEF x, m, s
  <2>2. TokenText(text, Token(s, m + 1, (m + 1) + Len(x), su)) = x
    BY <2>1, TextOfToken
  <2> QED
    BY <2>2 DEF x, m, s
<1>7. ((n + 1) + 1) + Len(<<key>>) = n + 3
  BY <1>5
<1> HIDE DEF t
<1>8. /\ Append(tk, t) \in Seq(Tokens) /\ Len(Append(tk, t)) = Len(tk) + 1 /\ Len(tk) \in Nat
      /\ Append(tk, t)[Len(tk) + 1] = t /\ \A i \in 1 .. Len(tk) : Append(tk, t)[i] = tk[i]
  BY <1>3, <1>4, OneMore
<1>9. Grown(tk, Append(tk, t), 1)
  BY <1>3, <1>8, Zenon DEF Grown
<1> QED
  BY <1>2, <1>3, <1>5, <1>6, <1>7, <1>8, <1>9 DEF t

(* The value v of a key that was read at n is the token after it. *)
ValueRead(text, n, su, tk, tk1, key, kind, v, from, hi, tk2) ==
    /\ IsText(text) /\ n \in Nat /\ su \in Nat /\ IsText(v) /\ kind \in {"string", "primitive"}
    /\ Grown(tk, tk1, 1) /\ tk1[Len(tk) + 1] = Token("string", n + 2, n + 3, su)
    /\ TokenText(text, Token("string", n + 2, n + 3, su)) = <<key>>
    /\ from \in Nat /\ n + 5 <= from /\ Has(text, from - 1, v)
    /\ hi \in Nat /\ from + Len(v) <= hi + 1
    /\ tk2 = Append(tk1, Token(kind, from, from + Len(v), su))

LEMMA ValuePair ==
  ASSUME NEW text, NEW n, NEW su, NEW tk, NEW tk1, NEW key, NEW kind, NEW v, NEW from, NEW hi, NEW tk2,
         ValueRead(text, n, su, tk, tk1, key, kind, v, from, hi, tk2)
  PROVE  /\ Grown(tk, tk2, 2) /\ Pair(text, tk2, Len(tk) + 1, su, key, kind, v, n, hi)
         /\ tk2[Len(tk) + 2].end # 0 /\ tk2[Len(tk) + 1].end # 0
<1> DEFINE k == Token("string", n + 2, n + 3, su)
           t == Token(kind, from, from + Len(v), su)
           m == from - 1
<1>0. /\ IsText(text) /\ n \in Nat /\ su \in Nat /\ IsText(v) /\ kind \in {"string", "primitive"}
      /\ Grown(tk, tk1, 1) /\ tk1[Len(tk) + 1] = k /\ TokenText(text, k) = <<key>>
      /\ from \in Nat /\ n + 5 <= from /\ Has(text, m, v) /\ m \in Nat /\ m + 1 = from
      /\ hi \in Nat /\ from + Len(v) <= hi + 1
      /\ tk2 = Append(tk1, t) /\ t = Token(kind, from, from + Len(v), su)
  BY DEF ValueRead
<1> DEFINE i == Len(tk) + 1
<1>1. kind \in Kinds /\ Len(v) \in Nat /\ from + Len(v) \in Nat /\ tk1 \in Seq(Tokens) /\ tk \in Seq(Tokens)
      /\ Len(tk) \in Nat /\ Len(tk1) = i
  <2> HIDE DEF k, t, m
  <2>0. IsText(v) /\ kind \in {"string", "primitive"} /\ from \in Nat
    BY <1>0, Zenon
  <2>1. kind \in Kinds /\ Len(v) \in Nat
    BY <2>0 DEF Kinds, IsText
  <2>2. tk1 \in Seq(Tokens) /\ tk \in Seq(Tokens) /\ Len(tk1) = i
    BY <1>0, Zenon DEF Grown
  <2>3. Len(v) \in Nat /\ from \in Nat
    BY <2>0, <2>1
  <2>4. Len(tk) \in Nat /\ from + Len(v) \in Nat
    BY <2>2, <2>3
  <2> QED
    BY <2>1, <2>2, <2>3, <2>4
<1>2. k.type = "string" /\ k.parent = su /\ k.start = n + 2 /\ k.end = n + 3
  BY DEF Token
<1>3. t.type = kind /\ t.parent = su /\ t.start = from /\ t.end = from + Len(v)
  BY DEF Token
<1>4. TokenText(text, t) = v
  <2> HIDE DEF m
  <2>2. TokenText(text, Token(kind, m + 1, (m + 1) + Len(v), su)) = v
    BY <1>0, TextOfToken
  <2> QED
    BY <1>0, <2>2
<1> HIDE DEF t, k, m
<1>6. /\ tk2 \in Seq(Tokens) /\ Len(tk2) = Len(tk1) + 1
      /\ tk2[Len(tk1) + 1] = t /\ \A j \in 1 .. Len(tk1) : tk2[j] = tk1[j]
  BY <1>0, <1>1, OneMore
<1>7. tk2[i] = k /\ tk2[i + 1] = t /\ i \in 1 .. Len(tk2) /\ i + 1 \in 1 .. Len(tk2)
  BY <1>0, <1>1, <1>6
<1>8. Grown(tk, tk2, 2)
  BY <1>0, <1>1, <1>6 DEF Grown
<1>9. Pair(text, tk2, i, su, key, kind, v, n, hi)
  <2>2. n < k.start /\ k.start < k.end /\ k.end <= t.start /\ t.start <= t.end /\ t.end <= hi + 1
    BY <1>0, <1>1, <1>2, <1>3
  <2> HIDE DEF i
  <2> QED
    BY <1>0, <1>2, <1>3, <1>4, <1>7, <2>2, Zenon DEF Pair
<1>10. Len(tk) + 2 = i + 1
  BY <1>1
<1>11. t.end # 0 /\ k.end # 0
  BY <1>0, <1>1, <1>2, <1>3
<1> QED
  BY <1>7, <1>8, <1>9, <1>10, <1>11

LEMMA QuotedText ==
  ASSUME NEW v, IsText(v)
  PROVE  IsText(Quoted(v)) /\ Len(Quoted(v)) = Len(v) + 2
<1> DEFINE q == <<"quote">>
           qx == q \o v
<1>1. Quoted(v) = qx \o q /\ IsText(q) /\ Len(q) = 1 /\ Len(v) \in Nat
  BY WordText DEF Quoted, IsText
<1> HIDE DEF q
<1>2. IsText(qx) /\ Len(qx) = Len(q) + Len(v)
  BY <1>1, ConcatText, Zenon
<1> HIDE DEF qx
<1>3. IsText(qx \o q) /\ Len(qx \o q) = Len(qx) + Len(q)
  BY <1>1, <1>2, ConcatText, Zenon
<1> QED
  BY <1>1, <1>2, <1>3

(* A member is a pair of tokens. *)
LEMMA MemberRead ==
  ASSUME NEW max \in Nat, NEW text, IsText(text), NEW n \in Nat, NEW su, NEW tk,
         At(text, max, n, su, tk), NEW key, NEW kind, NEW v, Good(key, kind, v),
         NEW hi, hi = n + Len(M(key, kind, v)), Has(text, n, M(key, kind, v))
  PROVE  /\ hi \in Nat
         /\ \E tk2 \in Seq(Tokens) :
              /\ Pending(text, max, hi, su, tk2) /\ Grown(tk, tk2, 2)
              /\ Pair(text, tk2, Len(tk) + 1, su, key, kind, v, n, hi)
              /\ tk2[Len(tk) + 1].end # 0 /\ tk2[Len(tk) + 2].end # 0
<1> DEFINE tk1 == Append(tk, Token("string", n + 2, n + 3, su))
<1>1. Len(text) \in Nat /\ n + 4 \in Nat
  BY DEF IsText
<1>2. /\ IsText(v) /\ Len(M(key, kind, v)) = 4 + Len(ValueText(kind, v))
      /\ Len(ValueText(kind, v)) \in Nat
  BY MemberText, Zenon
<1>3. /\ At(text, max, n + 4, su, tk1) /\ Has(text, n + 4, ValueText(kind, v))
      /\ Grown(tk, tk1, 1) /\ TokenText(text, Token("string", n + 2, n + 3, su)) = <<key>>
      /\ tk1[Len(tk) + 1] = Token("string", n + 2, n + 3, su)
      /\ su \in Nat /\ tk1 \in Seq(Tokens)
  BY AtValue
<1>4. Len(v) \in Nat /\ hi \in Nat
  BY <1>2 DEF IsText
<1> HIDE DEF tk1
<1>5. CASE kind = "string" /\ Clean(v)
  <2> DEFINE from == (n + 4) + 2
             tk2 == Append(tk1, Token("string", from, from + Len(v), su))
  <2>1. ValueText(kind, v) = Quoted(v)
    BY <1>5 DEF ValueText
  <2>2. /\ At(text, max, (n + 4) + Len(v) + 2, su, Append(tk1, Token("string", (n + 4) + 2, (n + 4) + Len(v) + 2, su)))
        /\ Has(text, (n + 4) + 1, v)
    BY <1>1, <1>3, <1>5, <2>1, AtQuoted, Zenon
  <2>3. /\ (n + 4) + Len(v) + 2 = from + Len(v) /\ from - 1 = (n + 4) + 1 /\ from \in Nat
        /\ n + 5 <= from
    BY <1>4
  <2>4. At(text, max, from + Len(v), su, tk2) /\ Has(text, from - 1, v)
    BY <2>2, <2>3
  <2>5. Len(Quoted(v)) = Len(v) + 2
    BY <1>2, QuotedText
  <2>6. hi = from + Len(v) /\ from + Len(v) <= hi + 1
    BY <1>2, <1>4, <2>1, <2>5
  <2> HIDE DEF from
  <2>7. Pending(text, max, hi, su, tk2)
    BY <2>4, <2>6 DEF Pending
  <2>8. /\ Grown(tk, tk2, 2) /\ Pair(text, tk2, Len(tk) + 1, su, key, kind, v, n, hi)
        /\ tk2[Len(tk) + 2].end # 0 /\ tk2[Len(tk) + 1].end # 0
    <3>1. kind \in {"string", "primitive"} /\ tk2 = Append(tk1, Token(kind, from, from + Len(v), su))
      BY <1>5
    <3>2. ValueRead(text, n, su, tk, tk1, key, kind, v, from, hi, tk2)
      BY <1>2, <1>3, <1>4, <2>3, <2>4, <2>6, <3>1, Zenon DEF ValueRead
    <3> HIDE DEF tk2
    <3> QED
      BY <3>2, ValuePair, Zenon
  <2>9. tk2 \in Seq(Tokens)
    BY <2>8 DEF Grown
  <2> HIDE DEF tk2
  <2> QED
    BY <1>4, <1>5, <2>7, <2>8, <2>9
<1>6. CASE kind = "primitive" /\ \E w : Plain(w) /\ v = <<w>>
  <2>1. PICK w : Plain(w) /\ v = <<w>>
    BY <1>6
  <2>2. ValueText(kind, v) = v /\ Len(v) = 1 /\ Has(text, n + 4, <<w>>)
    BY <1>3, <1>6, <2>1, WordText DEF ValueText
  <2> DEFINE from == (n + 4) + 1
             tk2 == Append(tk1, Token("primitive", from, from + Len(v), su))
  <2>3. hi = from /\ from \in Nat /\ n + 5 <= from /\ from - 1 = n + 4
        /\ from + Len(v) = hi + 1 /\ from + Len(v) <= hi + 1
    <3>1. hi = n + (4 + 1)
      BY <1>2, <2>2
    <3> QED
      BY <2>2, <3>1
  <2>4. Reads(text, max, (n + 4) + 1, "primitive", (n + 4) + 1, 0, su, tk1)
    BY <1>1, <1>3, <2>1, <2>2, AtWord, Zenon
  <2>5. Has(text, from - 1, v)
    BY <2>1, <2>2, <2>3
  <2>6. Reads(text, max, from, "primitive", from, 0, su, tk1)
    BY <2>4
  <2> HIDE DEF from
  <2>7. Pending(text, max, hi, su, tk2)
    <3>1. Reads(text, max, hi, "primitive", hi, 0, su, tk1)
      BY <2>3, <2>6
    <3>2. tk2 = Append(tk1, Token("primitive", hi, hi + 1, su))
      BY <2>3
    <3> HIDE DEF tk2
    <3> QED
      BY <3>1, <3>2 DEF Pending
  <2>8. /\ Grown(tk, tk2, 2) /\ Pair(text, tk2, Len(tk) + 1, su, key, kind, v, n, hi)
        /\ tk2[Len(tk) + 2].end # 0 /\ tk2[Len(tk) + 1].end # 0
    <3>1. kind \in {"string", "primitive"} /\ tk2 = Append(tk1, Token(kind, from, from + Len(v), su))
      BY <1>6
    <3>2. ValueRead(text, n, su, tk, tk1, key, kind, v, from, hi, tk2)
      BY <1>2, <1>3, <1>4, <2>3, <2>5, <3>1, Zenon DEF ValueRead
    <3> HIDE DEF tk2
    <3> QED
      BY <3>2, ValuePair, Zenon
  <2>9. tk2 \in Seq(Tokens)
    BY <2>8 DEF Grown
  <2> HIDE DEF tk2
  <2> QED
    BY <1>4, <1>6, <2>7, <2>8, <2>9
<1> QED
  BY <1>5, <1>6 DEF Good

(* ms is a list of members, records with the fields key, kind and v. *)
GoodAll(ms) ==
    /\ IsText(ms) /\ Len(ms) # 0
    /\ \A i \in 1 .. Len(ms) : Good(ms[i].key, ms[i].kind, ms[i].v)
Pieces(ms) == [i \in DOMAIN ms |-> M(ms[i].key, ms[i].kind, ms[i].v)]

(* The first k members are the tokens after token o, a pair each. *)
Flat(text, t, o, ms, k, lo, hi) ==
    /\ \A i \in 1 .. k : Pair(text, t, o + (2 * i - 1), o, ms[i].key, ms[i].kind, ms[i].v, lo, hi)
    /\ \A i \in 1 .. k - 1 : t[o + 2 * i].end <= t[o + (2 * i + 1)].start

Finished(t, o) == \A j \in 1 .. Len(t) : j > o => t[j].end # 0

(* The parser is before member k + 1 of the object at token o ... *)
Before(text, max, n, o, tk1, tk, ms, k, lo) ==
    /\ At(text, max, n, o, tk) /\ lo \in Nat /\ lo <= n /\ o = Len(tk1) /\ Grown(tk1, tk, 2 * k)
    /\ Flat(text, tk, o, ms, k, lo, n) /\ (k # 0 => tk[o + 2 * k].end <= n) /\ Finished(tk, o)

(* ... and behind member k. *)
Behind(text, max, n, o, tk1, tk, ms, k, lo) ==
    /\ Pending(text, max, n, o, tk) /\ lo \in Nat /\ lo <= n /\ o = Len(tk1) /\ Grown(tk1, tk, 2 * k)
    /\ Flat(text, tk, o, ms, k, lo, n) /\ Finished(tk, o)

LEMMA PairWider ==
  ASSUME NEW text, NEW t \in Seq(Tokens), NEW i, NEW obj, NEW key, NEW kind, NEW v, NEW lo \in Nat, NEW hi \in Nat,
         Pair(text, t, i, obj, key, kind, v, lo, hi), NEW lo2 \in Nat, NEW hi2 \in Nat, lo2 <= lo, hi <= hi2
  PROVE  Pair(text, t, i, obj, key, kind, v, lo2, hi2)
<1>1. i \in 1 .. Len(t) /\ i + 1 \in 1 .. Len(t)
  BY DEF Pair
<1>2. t[i].start \in Nat /\ t[i + 1].end \in Nat
  <2>1. t[i] \in Tokens /\ t[i + 1] \in Tokens
    BY <1>1
  <2> QED
    BY <2>1 DEF Tokens
<1>3. lo2 < t[i].start /\ t[i + 1].end <= hi2 + 1
  <2> DEFINE a == t[i].start
             b == t[i + 1].end
  <2>1. lo < a /\ b <= hi + 1 /\ a \in Nat /\ b \in Nat
    BY <1>2, Zenon DEF Pair
  <2> HIDE DEF a, b
  <2>2. lo2 < a /\ b <= hi2 + 1
    BY <2>1
  <2> QED
    BY <2>2 DEF a, b
<1> QED
  BY <1>3, Zenon DEF Pair

LEMMA BehindComma ==
  ASSUME NEW max \in Nat, NEW text, IsText(text), NEW n \in Nat, NEW o, NEW tk1, NEW tk, NEW ms,
         NEW k \in Nat, NEW lo, Behind(text, max, n, o, tk1, tk, ms, k, lo), k # 0,
         Has(text, n, <<"comma">>)
  PROVE  Before(text, max, n + 1, o, tk1, tk, ms, k, lo)
<1>1. /\ Pending(text, max, n, o, tk) /\ lo \in Nat /\ lo <= n /\ o = Len(tk1) /\ Grown(tk1, tk, 2 * k)
      /\ Flat(text, tk, o, ms, k, lo, n) /\ Finished(tk, o) /\ Len(text) \in Nat
  BY DEF Behind, IsText
<1>2. At(text, max, n + 1, o, tk)
  BY <1>1, PendingComma
<1>3. tk \in Seq(Tokens) /\ o \in Nat /\ n + 1 \in Nat /\ lo <= n + 1 /\ n <= n + 1 /\ lo <= lo
  BY <1>1 DEF Grown
<1>4. Flat(text, tk, o, ms, k, lo, n + 1)
  <2>1. ASSUME NEW i \in 1 .. k
        PROVE  Pair(text, tk, o + (2 * i - 1), o, ms[i].key, ms[i].kind, ms[i].v, lo, n + 1)
    <3>1. Pair(text, tk, o + (2 * i - 1), o, ms[i].key, ms[i].kind, ms[i].v, lo, n)
      BY <1>1 DEF Flat
    <3> QED
      BY <1>1, <1>3, <3>1, PairWider, Zenon
  <2> QED
    BY <1>1, <2>1 DEF Flat
<1>5. tk[o + 2 * k].end <= n + 1
  <2>1. k \in 1 .. k
    OBVIOUS
  <2>2. Pair(text, tk, o + (2 * k - 1), o, ms[k].key, ms[k].kind, ms[k].v, lo, n)
    BY <1>1, <2>1 DEF Flat
  <2>3. (o + (2 * k - 1)) + 1 = o + 2 * k
    BY <1>3
  <2> QED
    BY <2>2, <2>3 DEF Pair
<1> QED
  BY <1>1, <1>2, <1>3, <1>4, <1>5 DEF Before

LEMMA BehindMember ==
  ASSUME NEW max \in Nat, NEW text, IsText(text), NEW n \in Nat, NEW o, NEW tk1, NEW tk, NEW ms,
         NEW k \in Nat, NEW lo, Before(text, max, n, o, tk1, tk, ms, k, lo),
         Good(ms[k + 1].key, ms[k + 1].kind, ms[k + 1].v),
         NEW hi, hi = n + Len(M(ms[k + 1].key, ms[k + 1].kind, ms[k + 1].v)),
         Has(text, n, M(ms[k + 1].key, ms[k + 1].kind, ms[k + 1].v))
  PROVE  hi \in Nat /\ \E tk2 : Behind(text, max, hi, o, tk1, tk2, ms, k + 1, lo)
<1>1. /\ At(text, max, n, o, tk) /\ lo \in Nat /\ lo <= n /\ o = Len(tk1) /\ Grown(tk1, tk, 2 * k)
      /\ Flat(text, tk, o, ms, k, lo, n) /\ (k # 0 => tk[o + 2 * k].end <= n) /\ Finished(tk, o)
  BY DEF Before
<1> DEFINE key == ms[k + 1].key
           kind == ms[k + 1].kind
           v == ms[k + 1].v
           i == Len(tk) + 1
<1>2. Good(key, kind, v) /\ hi = n + Len(M(key, kind, v)) /\ Has(text, n, M(key, kind, v))
  OBVIOUS
<1> HIDE DEF key, kind, v
<1>3. /\ hi \in Nat
      /\ \E tk2 \in Seq(Tokens) :
              /\ Pending(text, max, hi, o, tk2) /\ Grown(tk, tk2, 2)
              /\ Pair(text, tk2, Len(tk) + 1, o, key, kind, v, n, hi)
              /\ tk2[Len(tk) + 1].end # 0 /\ tk2[Len(tk) + 2].end # 0
  BY <1>1, <1>2, MemberRead
<1>4. PICK tk2 \in Seq(Tokens) :
              /\ Pending(text, max, hi, o, tk2) /\ Grown(tk, tk2, 2)
              /\ Pair(text, tk2, Len(tk) + 1, o, key, kind, v, n, hi)
              /\ tk2[Len(tk) + 1].end # 0 /\ tk2[Len(tk) + 2].end # 0
  BY <1>3
<1>5. tk \in Seq(Tokens) /\ tk1 \in Seq(Tokens) /\ o \in Nat /\ Len(tk) = o + 2 * k /\ Len(tk) \in Nat
      /\ Len(tk2) = Len(tk) + 2
  BY <1>1, <1>4 DEF Grown
<1>6. /\ n <= hi /\ lo <= hi /\ i = o + (2 * (k + 1) - 1) /\ lo <= lo /\ k + 1 \in Nat /\ 2 \in Nat
      /\ o + 2 * (k + 1) = i + 1 /\ i + 1 = Len(tk) + 2
  <2>1. Len(M(key, kind, v)) \in Nat
    BY <1>2, MemberText
  <2> DEFINE l == Len(M(key, kind, v))
  <2>2. l \in Nat /\ hi = n + l
    BY <1>2, <2>1
  <2> HIDE DEF l
  <2>3. n <= hi /\ lo <= hi /\ lo \in Nat
    BY <1>1, <2>2
  <2> DEFINE y == Len(tk)
  <2>4. y \in Nat /\ o \in Nat /\ y = o + 2 * k /\ i = y + 1
    BY <1>5
  <2> HIDE DEF i, y
  <2>5. i = o + (2 * (k + 1) - 1) /\ o + 2 * (k + 1) = i + 1 /\ i + 1 = y + 2
    BY <2>4
  <2> QED
    BY <2>3, <2>5 DEF y
<1>7. Grown(tk1, tk2, 2 * (k + 1))
  <2>1. Grown(tk1, tk2, (2 * k) + 2)
    BY <1>1, <1>4, GrownTwice
  <2>2. (2 * k) + 2 = 2 * (k + 1)
    OBVIOUS
  <2> QED
    BY <2>1, <2>2
<1>8. ASSUME NEW j \in 1 .. k + 1
      PROVE  Pair(text, tk2, o + (2 * j - 1), o, ms[j].key, ms[j].kind, ms[j].v, lo, hi)
  <2>1. CASE j = k + 1
    <3>1. Pair(text, tk2, i, o, key, kind, v, lo, hi)
      BY <1>1, <1>3, <1>4, <1>6, PairWider
    <3> QED
      BY <1>6, <2>1, <3>1 DEF key, kind, v
  <2>2. CASE j \in 1 .. k
    <3>1. Pair(text, tk, o + (2 * j - 1), o, ms[j].key, ms[j].kind, ms[j].v, lo, n)
      BY <1>1, <2>2 DEF Flat
    <3>2. Pair(text, tk2, o + (2 * j - 1), o, ms[j].key, ms[j].kind, ms[j].v, lo, n)
      BY <1>4, <1>6, <3>1, GrownPair, Zenon
    <3> QED
      BY <1>1, <1>3, <1>4, <1>6, <3>2, PairWider, Zenon
  <2> QED
    BY <2>1, <2>2
<1>9. ASSUME NEW j \in 1 .. (k + 1) - 1
      PROVE  tk2[o + 2 * j].end <= tk2[o + (2 * j + 1)].start
  <2>1. CASE j = k
    <3>1. o + 2 * j = Len(tk) /\ o + (2 * j + 1) = i /\ Len(tk) \in 1 .. Len(tk)
      BY <1>5, <2>1
    <3>2. tk2[Len(tk)] = tk[Len(tk)] /\ tk[Len(tk)].end <= n /\ tk[Len(tk)].end \in Nat
      <4>1. tk2[Len(tk)] = tk[Len(tk)]
        BY <1>4, <3>1 DEF Grown
      <4>2. tk[Len(tk)] \in Tokens
        BY <1>5, <3>1
      <4>3. tk[Len(tk)].end <= n
        <5>1. k # 0 /\ o + 2 * k = Len(tk)
          BY <1>5, <2>1
        <5> QED
          BY <1>1, <5>1
      <4> QED
        BY <4>1, <4>2, <4>3 DEF Tokens
    <3>3. n < tk2[i].start /\ tk2[i].start \in Nat
      <4>1. tk2[i] \in Tokens
        BY <1>5
      <4> QED
        BY <1>4, <4>1 DEF Pair, Tokens
    <3> HIDE DEF i
    <3>4. tk[Len(tk)].end <= tk2[i].start
      BY <3>2, <3>3
    <3> QED
      BY <3>1, <3>2, <3>4
  <2>2. CASE j \in 1 .. k - 1
    <3>1. tk[o + 2 * j].end <= tk[o + (2 * j + 1)].start
      BY <1>1, <2>2 DEF Flat
    <3>2. o + 2 * j \in 1 .. Len(tk) /\ o + (2 * j + 1) \in 1 .. Len(tk)
      BY <1>5, <2>2
    <3>3. tk2[o + 2 * j] = tk[o + 2 * j] /\ tk2[o + (2 * j + 1)] = tk[o + (2 * j + 1)]
      BY <1>4, <3>2 DEF Grown
    <3> QED
      BY <3>1, <3>3
  <2> QED
    BY <2>1, <2>2
<1>10. Finished(tk2, o)
  <2> SUFFICES ASSUME NEW j \in 1 .. Len(tk2), j > o PROVE tk2[j].end # 0
    BY DEF Finished
  <2>1. CASE j \in 1 .. Len(tk)
    BY <1>1, <1>4, <2>1 DEF Finished, Grown
  <2>2. CASE j = Len(tk) + 1 \/ j = Len(tk) + 2
    BY <1>4, <2>2
  <2>3. j \in 1 .. Len(tk) \/ j = Len(tk) + 1 \/ j = Len(tk) + 2
    <3> DEFINE a == Len(tk)
               b == Len(tk2)
    <3>1. a \in Nat /\ b = a + 2 /\ j \in 1 .. b
      BY <1>5
    <3> HIDE DEF a, b
    <3>2. j \in 1 .. a \/ j = a + 1 \/ j = a + 2
      BY <3>1
    <3> QED
      BY <3>2 DEF a
  <2> QED
    BY <2>1, <2>2, <2>3
<1>11. Flat(text, tk2, o, ms, k + 1, lo, hi)
  BY <1>8, <1>9, Zenon DEF Flat
<1>12. Behind(text, max, hi, o, tk1, tk2, ms, k + 1, lo)
  BY <1>1, <1>4, <1>6, <1>7, <1>10, <1>11, Zenon DEF Behind
<1> QED
  BY <1>3, <1>12

LEMMA PiecesText ==
  ASSUME NEW ms, GoodAll(ms)
  PROVE  /\ IsText(Pieces(ms)) /\ Len(Pieces(ms)) = Len(ms) /\ Len(ms) \in Nat /\ Len(ms) # 0
         /\ \A i \in 1 .. Len(ms) : /\ Pieces(ms)[i] = M(ms[i].key, ms[i].kind, ms[i].v)
                                    /\ IsText(Pieces(ms)[i])
<1>1. DOMAIN ms = 1 .. Len(ms) /\ Len(ms) \in Nat /\ Len(ms) # 0
  BY DEF GoodAll, IsText
<1> DEFINE e(i) == M(ms[i].key, ms[i].kind, ms[i].v)
           p == [i \in 1 .. Len(ms) |-> e(i)]
<1>2. Pieces(ms) = p
  BY <1>1 DEF Pieces
<1>3. \A i \in 1 .. Len(ms) : IsText(e(i))
  BY MemberText DEF GoodAll
<1> HIDE DEF e
<1>4. p \in Seq({e(i) : i \in 1 .. Len(ms)}) /\ Len(p) = Len(ms) /\ \A i \in 1 .. Len(ms) : p[i] = e(i)
  BY <1>1
<1>5. IsText(p)
  BY <1>4, SeqIsText
<1> HIDE DEF p
<1> QED
  BY <1>1, <1>2, <1>3, <1>4, <1>5 DEF e

(* An object of members is read as a token and a pair for each member. *)
ObjectRead(text, max, n, hi, su, tk, tk2, ms) ==
    /\ At(text, max, hi, su, tk2) /\ Grown(tk, tk2, 1 + 2 * Len(ms)) /\ hi \in Nat /\ n < hi
    /\ tk2[Len(tk) + 1] = Token("object", n + 1, hi + 1, su)
    /\ Flat(text, tk2, Len(tk) + 1, ms, Len(ms), n + 1, hi) /\ Finished(tk2, Len(tk))
    /\ \A j \in Len(tk) + 2 .. Len(tk2) : tk2[j].start <= hi

LEMMA FlatClosed ==
  ASSUME NEW text, NEW t \in Seq(Tokens), NEW o \in 1 .. Len(t), NEW ms, NEW k \in Nat, NEW lo, NEW hi,
         Flat(text, t, o, ms, k, lo, hi), NEW end \in Nat
  PROVE  Flat(text, Closed(t, o, end), o, ms, k, lo, hi)
<1>1. ASSUME NEW i \in 1 .. k
      PROVE  Pair(text, Closed(t, o, end), o + (2 * i - 1), o, ms[i].key, ms[i].kind, ms[i].v, lo, hi)
  <2> DEFINE j == o + (2 * i - 1)
  <2>1. Pair(text, t, j, o, ms[i].key, ms[i].kind, ms[i].v, lo, hi)
    BY DEF Flat
  <2>2. o # j /\ o # j + 1
    OBVIOUS
  <2> HIDE DEF j
  <2>3. Pair(text, Closed(t, o, end), j, o, ms[i].key, ms[i].kind, ms[i].v, lo, hi)
    BY <2>1, <2>2, ClosedPair, Zenon
  <2> QED
    BY <2>3 DEF j
<1>2. ASSUME NEW i \in 1 .. k - 1
      PROVE  Closed(t, o, end)[o + 2 * i].end <= Closed(t, o, end)[o + (2 * i + 1)].start
  <2> DEFINE a == o + 2 * i
             b == o + (2 * i + 1)
  <2>1. t[a].end <= t[b].start
    BY DEF Flat
  <2>2. a \in 1 .. Len(t) /\ b \in 1 .. Len(t)
    <3>1. i \in 1 .. k /\ i + 1 \in 1 .. k
      OBVIOUS
    <3>2. /\ Pair(text, t, o + (2 * i - 1), o, ms[i].key, ms[i].kind, ms[i].v, lo, hi)
          /\ Pair(text, t, o + (2 * (i + 1) - 1), o, ms[i + 1].key, ms[i + 1].kind, ms[i + 1].v, lo, hi)
      BY <3>1 DEF Flat
    <3>3. (o + (2 * i - 1)) + 1 \in 1 .. Len(t) /\ o + (2 * (i + 1) - 1) \in 1 .. Len(t)
      BY <3>2, Zenon DEF Pair
    <3>4. (o + (2 * i - 1)) + 1 = a /\ o + (2 * (i + 1) - 1) = b
      OBVIOUS
    <3> QED
      BY <3>3, <3>4
  <2>3. o # a /\ o # b
    OBVIOUS
  <2> HIDE DEF a, b
  <2>4. Closed(t, o, end)[a] = t[a] /\ Closed(t, o, end)[b] = t[b]
    BY <2>2, <2>3, ClosedSeq
  <2>5. Closed(t, o, end)[a].end <= Closed(t, o, end)[b].start
    BY <2>1, <2>4
  <2> QED
    BY <2>5 DEF a, b
<1> QED
  BY <1>1, <1>2, Zenon DEF Flat

LEMMA FlatWider ==
  ASSUME NEW text, NEW t \in Seq(Tokens), NEW o \in Nat, NEW ms, NEW k \in Nat, NEW lo \in Nat, NEW hi \in Nat,
         Flat(text, t, o, ms, k, lo, hi), NEW lo2 \in Nat, NEW hi2 \in Nat, lo2 <= lo, hi <= hi2
  PROVE  Flat(text, t, o, ms, k, lo2, hi2)
<1>1. ASSUME NEW i \in 1 .. k
      PROVE  Pair(text, t, o + (2 * i - 1), o, ms[i].key, ms[i].kind, ms[i].v, lo2, hi2)
  <2>1. Pair(text, t, o + (2 * i - 1), o, ms[i].key, ms[i].kind, ms[i].v, lo, hi)
    BY DEF Flat
  <2> QED
    BY <2>1, PairWider, Zenon
<1> QED
  BY <1>1 DEF Flat

(* The tokens of the members are inside, and have the object for parent. *)
LEMMA FlatInside ==
  ASSUME NEW text, NEW t \in Seq(Tokens), NEW o \in Nat, NEW ms, NEW k \in Nat, NEW lo, NEW hi \in Nat,
         Flat(text, t, o, ms, k, lo, hi), NEW j \in o + 1 .. o + 2 * k
  PROVE  t[j].start <= hi + 1 /\ t[j].parent = o /\ j \in 1 .. Len(t)
<1>1. PICK i \in 1 .. k : j = o + (2 * i - 1) \/ j = (o + (2 * i - 1)) + 1
  <2>1. \E i \in 1 .. k : j = o + (2 * i - 1) \/ j = (o + (2 * i - 1)) + 1
    <3> DEFINE d == j - o
    <3>1. d \in 1 .. 2 * k /\ j = o + d
      OBVIOUS
    <3> HIDE DEF d
    <3>2. (d + 1) \div 2 \in 1 .. k /\ (d = 2 * ((d + 1) \div 2) - 1 \/ d = 2 * ((d + 1) \div 2))
      BY <3>1
    <3> DEFINE i == (d + 1) \div 2
    <3>3. i \in 1 .. k /\ (d = 2 * i - 1 \/ d = 2 * i)
      BY <3>2
    <3> HIDE DEF i
    <3>4. j = o + (2 * i - 1) \/ j = (o + (2 * i - 1)) + 1
      BY <3>1, <3>3
    <3> QED
      BY <3>3, <3>4
  <2> QED
    BY <2>1
<1> DEFINE a == o + (2 * i - 1)
<1>2. Pair(text, t, a, o, ms[i].key, ms[i].kind, ms[i].v, lo, hi) /\ (j = a \/ j = a + 1) /\ a \in Nat
  BY <1>1 DEF Flat
<1> HIDE DEF a
<1>3. /\ a \in 1 .. Len(t) /\ a + 1 \in 1 .. Len(t)
      /\ t[a].parent = o /\ t[a].start < t[a].end /\ t[a].end <= t[a + 1].start
      /\ t[a + 1].parent = o /\ t[a + 1].start <= t[a + 1].end /\ t[a + 1].end <= hi + 1
  BY <1>2, Zenon DEF Pair
<1>4. t[a] \in Tokens /\ t[a + 1] \in Tokens
  BY <1>3
<1>5. /\ t[a].start \in Nat /\ t[a].end \in Nat /\ t[a + 1].start \in Nat /\ t[a + 1].end \in Nat
  BY <1>4 DEF Tokens
<1>6. t[a].start <= hi + 1 /\ t[a + 1].start <= hi + 1
  BY <1>3, <1>5
<1> QED
  BY <1>2, <1>3, <1>6

LEMMA FlatObject ==
  ASSUME NEW max \in Nat, NEW text, IsText(text), NEW n \in Nat, NEW su, NEW tk,
         At(text, max, n, su, tk), NEW ms, GoodAll(ms), Has(text, n, Object(Pieces(ms))),
         NEW hi, hi = n + Len(Object(Pieces(ms)))
  PROVE  \E tk2 : ObjectRead(text, max, n, hi, su, tk, tk2, ms)
<1> DEFINE parts == Pieces(ms)
           c == Commas(parts)
           K == Len(ms)
           o == Len(tk) + 1
           lo == n + 1
<1>1. /\ IsText(parts) /\ Len(parts) = K /\ K \in Nat /\ K # 0
      /\ \A i \in 1 .. K : parts[i] = M(ms[i].key, ms[i].kind, ms[i].v) /\ IsText(parts[i])
  BY PiecesText, Zenon
<1>2. Len(text) \in Nat /\ tk \in Seq(Tokens) /\ su \in Nat /\ Len(tk) \in Nat /\ lo \in Nat /\ o \in Nat
  BY DEF IsText, At, Reads
<1> HIDE DEF parts
<1>3. IsText(c) /\ Len(c) \in Nat
  BY <1>1, CommasText DEF IsText
<1>4. Object(parts) = <<"lbrace">> \o c \o <<"rbrace">>
  BY DEF Object
<1> HIDE DEF c
<1>5. /\ Has(text, n, <<"lbrace">>) /\ Has(text, lo, c) /\ Has(text, lo + Len(c), <<"rbrace">>)
      /\ hi = (lo + Len(c)) + 1 /\ n < hi /\ hi \in Nat
  <2>1. Has(text, n, Object(parts)) /\ hi = n + Len(Object(parts))
    BY DEF parts
  <2>2. Len(Object(parts)) = Len(c) + 2
    BY <1>3, <1>4, BracketsHas
  <2>3. Has(text, n, <<"lbrace">>) /\ Has(text, n + 1, c) /\ Has(text, (n + 1) + Len(c), <<"rbrace">>)
    BY <1>2, <1>3, <1>4, <2>1, BracketsHas, Zenon
  <2> QED
    BY <1>3, <2>1, <2>2, <2>3
<1> DEFINE t0 == Token("object", n + 1, 0, su)
           tk1 == Append(tk, t0)
<1>6. At(text, max, lo, o, tk1)
  BY <1>2, <1>5, AtOpen, Zenon
<1>7. tk1 \in Seq(Tokens) /\ Len(tk1) = o /\ tk1[o] = t0 /\ \A i \in 1 .. Len(tk) : tk1[i] = tk[i]
  <2>1. t0 = Token("object", n + 1, 0, su) /\ "object" \in Kinds /\ n + 1 \in Nat /\ 0 \in Nat
    BY DEF Kinds
  <2> HIDE DEF t0
  <2> QED
    BY <1>2, <2>1, OneMore
<1>8. t0.end = 0 /\ t0.type = "object" /\ t0.start = n + 1 /\ t0.parent = su
  BY DEF Token
<1> HIDE DEF t0, tk1
<1>9. PICK at : Separated(text, parts, lo, at)
  <2>1. \A i \in 1 .. Len(parts) : IsText(parts[i])
    BY <1>1
  <2>2. Len(parts) # 0 /\ Has(text, lo, Commas(parts))
    BY <1>1, <1>5 DEF c
  <2>3. \E at : Separated(text, parts, lo, at)
    BY <1>1, <1>2, <2>1, <2>2, CommasHas, Zenon
  <2> QED
    BY <2>3
<1>10. /\ at[1] = lo /\ \A i \in 1 .. K : at[i] \in Nat /\ Has(text, at[i], parts[i])
       /\ at[K] + Len(parts[K]) = lo + Len(c)
       /\ \A i \in 1 .. K - 1 : /\ Has(text, at[i] + Len(parts[i]), <<"comma">>)
                                /\ at[i + 1] = (at[i] + Len(parts[i])) + 1
  BY <1>1, <1>9 DEF Separated, c
<1>11. ASSUME NEW k \in Nat, k + 1 <= K, NEW tk2, Before(text, max, at[k + 1], o, tk1, tk2, ms, k, lo)
       PROVE  /\ at[k + 1] + Len(parts[k + 1]) \in Nat
              /\ \E tk3 : Behind(text, max, at[k + 1] + Len(parts[k + 1]), o, tk1, tk3, ms, k + 1, lo)
  <2> DEFINE b == at[k + 1]
             e == b + Len(parts[k + 1])
  <2>1. k + 1 \in 1 .. K
    BY <1>1, <1>11
  <2>2. /\ b \in Nat /\ Has(text, b, M(ms[k + 1].key, ms[k + 1].kind, ms[k + 1].v))
        /\ Good(ms[k + 1].key, ms[k + 1].kind, ms[k + 1].v)
        /\ e = b + Len(M(ms[k + 1].key, ms[k + 1].kind, ms[k + 1].v))
    BY <1>1, <1>10, <2>1 DEF GoodAll
  <2>3. Before(text, max, b, o, tk1, tk2, ms, k, lo)
    BY <1>11
  <2> HIDE DEF b, e, lo, o
  <2>4. e \in Nat /\ \E tk3 : Behind(text, max, e, o, tk1, tk3, ms, k + 1, lo)
    BY <2>2, <2>3, BehindMember, Zenon
  <2> QED
    BY <2>4 DEF e, b
<1> DEFINE T == {k \in Nat : k + 1 <= K =>
                    \E tk2 : Behind(text, max, at[k + 1] + Len(parts[k + 1]), o, tk1, tk2, ms, k + 1, lo)}
<1>12. 0 \in T
  <2>1. Before(text, max, at[0 + 1], o, tk1, tk1, ms, 0, lo)
    <3>1. Grown(tk1, tk1, 2 * 0)
      BY <1>7 DEF Grown
    <3>2. Flat(text, tk1, o, ms, 0, lo, lo)
      BY DEF Flat
    <3>3. Finished(tk1, o)
      BY <1>2, <1>7 DEF Finished
    <3>4. at[0 + 1] = lo /\ lo <= lo /\ o = Len(tk1)
      BY <1>2, <1>7, <1>10
    <3> HIDE DEF lo, o
    <3> QED
      BY <1>2, <1>6, <3>1, <3>2, <3>3, <3>4 DEF Before
  <2>2. 0 + 1 <= K /\ 0 \in Nat
    BY <1>1
  <2> QED
    BY <1>11, <2>1, <2>2
<1>13. ASSUME NEW k \in Nat, k \in T
       PROVE  k + 1 \in T
  <2> SUFFICES ASSUME (k + 1) + 1 <= K
               PROVE  \E tk2 : Behind(text, max, at[(k + 1) + 1] + Len(parts[(k + 1) + 1]), o, tk1, tk2, ms, (k + 1) + 1, lo)
    BY <1>1
  <2> DEFINE e == at[k + 1] + Len(parts[k + 1])
             l == k + 1
  <2>1. k + 1 <= K /\ l \in 1 .. K - 1 /\ l \in 1 .. K /\ l \in Nat /\ l # 0 /\ 0 + 1 = 1
    BY <1>1
  <2>2. PICK tk2 : Behind(text, max, e, o, tk1, tk2, ms, l, lo)
    BY <1>13, <2>1
  <2>3. Has(text, e, <<"comma">>) /\ at[l + 1] = e + 1 /\ e \in Nat
    <3>1. at[l] \in Nat /\ Len(parts[l]) \in Nat
      BY <1>1, <1>10, <2>1 DEF IsText
    <3> QED
      BY <1>10, <2>1, <3>1
  <2> HIDE DEF e, l, lo, o
  <2>4. Before(text, max, e + 1, o, tk1, tk2, ms, l, lo)
    BY <2>1, <2>2, <2>3, BehindComma, Zenon
  <2>5. l + 1 <= K /\ Before(text, max, at[l + 1], o, tk1, tk2, ms, l, lo)
    BY <2>3, <2>4 DEF l
  <2>6. \E tk3 : Behind(text, max, at[l + 1] + Len(parts[l + 1]), o, tk1, tk3, ms, l + 1, lo)
    BY <1>11, <2>1, <2>5, Zenon
  <2> QED
    BY <2>6 DEF l
<1>14. \A k \in Nat : k \in T
  <2> HIDE DEF T
  <2>1. \A k \in Nat : k \in T => k + 1 \in T
    BY <1>13, Zenon
  <2> QED
    BY <1>12, <2>1, SetInduction, Zenon
<1> DEFINE m == lo + Len(c)
<1>15. PICK tk2 : Behind(text, max, m, o, tk1, tk2, ms, K, lo)
  <2>1. K - 1 \in Nat /\ (K - 1) + 1 = K /\ K <= K
    BY <1>1
  <2>2. K - 1 \in T
    BY <1>14, <2>1
  <2>3. \E tk2 : Behind(text, max, at[K] + Len(parts[K]), o, tk1, tk2, ms, K, lo)
    BY <2>1, <2>2
  <2> QED
    BY <1>10, <2>3
<1>16. /\ Pending(text, max, m, o, tk2) /\ Grown(tk1, tk2, 2 * K)
       /\ Flat(text, tk2, o, ms, K, lo, m) /\ Finished(tk2, o)
       /\ m \in Nat /\ m + 1 = hi /\ m + 2 = hi + 1 /\ hi + 1 \in Nat
  <2>1. m \in Nat /\ m + 1 = hi /\ m + 2 = hi + 1 /\ hi + 1 \in Nat
    BY <1>2, <1>3, <1>5
  <2>2. /\ Pending(text, max, m, o, tk2) /\ Grown(tk1, tk2, 2 * K)
        /\ Flat(text, tk2, o, ms, K, lo, m) /\ Finished(tk2, o)
    BY <1>15, Zenon DEF Behind
  <2> QED
    BY <2>1, <2>2
<1>17. /\ tk2 \in Seq(Tokens) /\ Len(tk2) = o + 2 * K /\ o \in 1 .. Len(tk2) /\ tk2[o] = t0
       /\ \A i \in 1 .. Len(tk) : tk2[i] = tk[i]
  <2>1. tk2 \in Seq(Tokens) /\ Len(tk2) = o + 2 * K /\ \A i \in 1 .. o : tk2[i] = tk1[i]
    BY <1>7, <1>16 DEF Grown
  <2> QED
    BY <1>1, <1>2, <1>7, <2>1
<1>18. Innermost(tk2, o) /\ tk2[o].type = "object" /\ tk2[o].parent = su
  BY <1>8, <1>16, <1>17 DEF Innermost, Finished
<1> DEFINE tk3 == Closed(tk2, o, hi + 1)
<1>19. At(text, max, hi, su, tk3)
  <2> HIDE DEF m, o
  <2>1. Has(text, m, <<"rbrace">>)
    BY <1>5 DEF m
  <2>2. At(text, max, m + 1, tk2[o].parent, Closed(tk2, o, m + 2))
    BY <1>2, <1>16, <1>18, <2>1, PendingClose, Zenon
  <2> QED
    BY <1>16, <1>18, <2>2
<1>20. /\ tk3 \in Seq(Tokens) /\ Len(tk3) = Len(tk2)
       /\ tk3[o] = Token(t0.type, t0.start, hi + 1, t0.parent)
       /\ \A j \in 1 .. Len(tk2) : j # o => tk3[j] = tk2[j]
  BY <1>16, <1>17, ClosedSeq
<1>21. Flat(text, tk3, o, ms, K, n + 1, hi)
  <2>1. Flat(text, tk3, o, ms, K, lo, m)
    BY <1>1, <1>16, <1>17, FlatClosed, Zenon
  <2>2. m <= hi /\ lo <= lo
    BY <1>2, <1>16
  <2> HIDE DEF m, o, tk3
  <2>3. Flat(text, tk3, o, ms, K, lo, hi)
    BY <1>1, <1>2, <1>5, <1>16, <1>20, <2>1, <2>2, FlatWider
  <2> QED
    BY <2>3
<1> HIDE DEF tk3
<1>22. tk3[o] = Token("object", n + 1, hi + 1, su)
  BY <1>8, <1>20
<1>23. Finished(tk3, Len(tk))
  <2> SUFFICES ASSUME NEW j \in 1 .. Len(tk3), j > Len(tk) PROVE tk3[j].end # 0
    BY DEF Finished
  <2>1. CASE j = o
    <3>1. Token("object", n + 1, hi + 1, su).end = hi + 1 /\ hi + 1 # 0
      BY <1>5 DEF Token
    <3> QED
      BY <1>22, <2>1, <3>1
  <2>2. CASE j > o
    BY <1>16, <1>20, <2>2 DEF Finished
  <2> QED
    BY <1>2, <2>1, <2>2
<1>24. Grown(tk, tk3, 1 + 2 * K)
  <2>1. Len(tk3) = Len(tk) + (1 + 2 * K)
    BY <1>1, <1>2, <1>17, <1>20
  <2>2. \A i \in 1 .. Len(tk) : tk3[i] = tk[i]
    BY <1>1, <1>2, <1>17, <1>20
  <2> QED
    BY <1>2, <1>20, <2>1, <2>2 DEF Grown
<1>26. \A j \in Len(tk) + 2 .. Len(tk3) : tk3[j].start <= hi
  <2> SUFFICES ASSUME NEW j \in Len(tk) + 2 .. Len(tk3) PROVE tk3[j].start <= hi
    OBVIOUS
  <2>1. Flat(text, tk3, o, ms, K, lo, m)
    BY <1>1, <1>16, <1>17, FlatClosed, Zenon DEF tk3
  <2>2. o \in Nat /\ j \in o + 1 .. o + 2 * K /\ m + 1 = hi
    BY <1>1, <1>2, <1>16, <1>17, <1>20
  <2> HIDE DEF o, m, lo
  <2>3. tk3[j].start <= m + 1
    BY <1>1, <1>16, <1>20, <2>1, <2>2, FlatInside
  <2> QED
    BY <2>2, <2>3
<1>25. ObjectRead(text, max, n, hi, su, tk, tk3, ms)
  BY <1>5, <1>19, <1>21, <1>22, <1>23, <1>24, <1>26, Zenon DEF ObjectRead
<1> QED
  BY <1>25

-----------------------------------------------------------------------------
(* Looking up a key *)

LEMMA NextIndex ==
  ASSUME NEW t, Len(t) \in Nat, NEW i \in 1 .. Len(t) + 1
  PROVE  next_token_index(t, i) \in i + 1 .. Len(t) + 2
<1>1. CASE i > Len(t)
  BY <1>1 DEF next_token_index
<1>2. CASE i <= Len(t)
  <2> DEFINE later == {j \in i + 1 .. Len(t) : t[j].start >= t[i].end}
  <2>1. next_token_index(t, i) = IF later = {} THEN Len(t) + 1
                                 ELSE CHOOSE j \in later : \A k \in later : j <= k
    BY <1>2 DEF next_token_index
  <2>2. CASE later = {}
    BY <1>2, <2>1, <2>2
  <2>3. CASE later # {}
    <3>1. later \subseteq Nat
      OBVIOUS
    <3>2. \E j \in later : \A k \in later : j <= k
      <4> HIDE DEF later
      <4> QED
        BY <2>3, <3>1, LeastNumber
    <3>3. (CHOOSE j \in later : \A k \in later : j <= k) \in later
      <4> HIDE DEF later
      <4> QED
        BY <3>2, Zenon
    <3>4. \A j \in later : j \in i + 1 .. Len(t) + 2
      OBVIOUS
    <3> HIDE DEF later
    <3> QED
      BY <2>1, <2>3, <3>3, <3>4
  <2> QED
    BY <2>2, <2>3
<1> QED
  BY <1>1, <1>2

LEMMA NextIs ==
  ASSUME NEW t, Len(t) \in Nat, NEW i \in 1 .. Len(t), NEW m \in i + 1 .. Len(t),
         t[m].start >= t[i].end, \A j \in i + 1 .. m - 1 : ~ (t[j].start >= t[i].end)
  PROVE  next_token_index(t, i) = m
<1> DEFINE later == {j \in i + 1 .. Len(t) : t[j].start >= t[i].end}
<1>1. m \in later /\ \A j \in later : m <= j
  <2>1. m \in later
    OBVIOUS
  <2>2. ASSUME NEW j \in later
        PROVE  m <= j
    <3>1. j \in i + 1 .. Len(t) /\ t[j].start >= t[i].end
      OBVIOUS
    <3>2. j \notin i + 1 .. m - 1
      BY <3>1
    <3> QED
      BY <3>1, <3>2
  <2> QED
    BY <2>1, <2>2
<1>2. next_token_index(t, i) = IF later = {} THEN Len(t) + 1
                               ELSE CHOOSE j \in later : \A k \in later : j <= k
  BY DEF next_token_index
<1>3. \A j \in later : j \in Nat
  OBVIOUS
<1> HIDE DEF later
<1> DEFINE c == CHOOSE j \in later : \A k \in later : j <= k
<1>4. c \in later /\ \A k \in later : c <= k
  BY <1>1, Zenon
<1> HIDE DEF c
<1>5. c = m
  BY <1>1, <1>3, <1>4
<1> QED
  BY <1>1, <1>2, <1>5 DEF c

(* One turn of find_object_value's loop. *)
LookAt(text, t, obj, key, f, i) ==
    IF i > Len(t) \/ t[i].start >= t[obj].end THEN NoToken
    ELSE IF t[i].parent = obj /\ t[i].type = "string"
         THEN IF TokenText(text, t[i]) = <<key>>
              THEN IF i + 1 <= Len(t) THEN i + 1 ELSE NoToken
              ELSE f[next_token_index(t, i + 1)]
         ELSE f[i + 1]

LEMMA ScanTurns ==
  ASSUME NEW text, NEW t, Len(t) \in Nat, NEW obj, NEW key, NEW i \in 1 .. Len(t) + 3
  PROVE  Scan(text, t, obj, key)[i] = LookAt(text, t, obj, key, Scan(text, t, obj, key), i)
<1> DEFINE n == Len(t)
           look(f, j) == LookAt(text, t, obj, key, f, j)
           D(k) == {j \in 1 .. n + 3 : j + k > n}
           solves(g, k) == g = [j \in D(k) |-> look(g, j)]
           T == {k \in Nat : \E g : solves(g, k)}
<1>1. \A j \in 1 .. n : next_token_index(t, j + 1) \in j + 1 .. n + 3
  BY NextIndex
<1>2. ASSUME NEW f, NEW g, NEW j \in 1 .. n + 3,
             j <= n => f[next_token_index(t, j + 1)] = g[next_token_index(t, j + 1)] /\ f[j + 1] = g[j + 1]
      PROVE  look(f, j) = look(g, j)
  BY <1>2 DEF LookAt
<1> HIDE DEF look
<1>3. 0 \in T
  <2> DEFINE g == [j \in D(0) |-> NoToken]
  <2>1. \A j \in D(0) : look(g, j) = NoToken
    BY DEF look, LookAt
  <2>2. g = [j \in D(0) |-> look(g, j)]
    BY <2>1
  <2> QED
    BY <2>2
<1>4. ASSUME NEW k \in Nat, k \in T
      PROVE  k + 1 \in T
  <2>1. PICK g : solves(g, k)
    BY <1>4
  <2> DEFINE h == [j \in D(k + 1) |-> IF j \in D(k) THEN g[j] ELSE look(g, j)]
  <2>2. ASSUME NEW j \in D(k + 1)
        PROVE  h[j] = look(h, j)
    <3>1. j \in 1 .. n + 3 /\ h[j] = IF j \in D(k) THEN g[j] ELSE look(g, j)
      OBVIOUS
    <3>2. ASSUME j <= n
          PROVE  h[next_token_index(t, j + 1)] = g[next_token_index(t, j + 1)] /\ h[j + 1] = g[j + 1]
      <4> DEFINE e == next_token_index(t, j + 1)
      <4>1. e \in j + 1 .. n + 3
        BY <1>1, <3>1, <3>2
      <4> HIDE DEF e
      <4>2. e \in D(k) /\ e \in D(k + 1) /\ j + 1 \in D(k) /\ j + 1 \in D(k + 1)
        BY <3>1, <3>2, <4>1
      <4>3. h[e] = g[e] /\ h[j + 1] = g[j + 1]
        BY <4>2
      <4> QED
        BY <4>3 DEF e
    <3>3. j \in D(k) => g[j] = look(g, j)
      BY <2>1
    <3> HIDE DEF h, D
    <3>4. look(h, j) = look(g, j)
      BY <1>2, <3>1, <3>2, Zenon
    <3> QED
      BY <3>1, <3>3, <3>4
  <2>3. h = [j \in D(k + 1) |-> look(h, j)]
    BY <2>2
  <2>4. k + 1 \in Nat
    OBVIOUS
  <2> HIDE DEF h, D
  <2>5. \E x : solves(x, k + 1)
    BY <2>3
  <2> QED
    BY <2>4, <2>5
<1>5. \A k \in Nat : k \in T
  <2> HIDE DEF T
  <2>1. \A k \in Nat : k \in T => k + 1 \in T
    BY <1>4, Zenon
  <2> QED
    BY <1>3, <2>1, SetInduction, Zenon
<1> DEFINE full(g) == g = [j \in 1 .. n + 3 |-> look(g, j)]
<1>6. \E g : full(g)
  <2>1. PICK g : solves(g, n)
    BY <1>5
  <2>2. D(n) = 1 .. n + 3
    OBVIOUS
  <2>3. full(g)
    BY <2>1, <2>2
  <2> QED
    BY <2>3
<1> DEFINE s == CHOOSE g : full(g)
<1>7. Scan(text, t, obj, key) = s
  BY Zenon DEF Scan, look, LookAt
<1>8. full(s)
  <2> HIDE DEF full
  <2> QED
    BY <1>6, Zenon
<1> HIDE DEF s
<1>9. s[i] = look(s, i)
  BY <1>8
<1> QED
  BY <1>7, <1>9 DEF look

(* Token i is a key of object obj. *)
KeyAt(text, t, obj, i, key) ==
    /\ Len(t) \in Nat /\ i \in 1 .. Len(t) /\ i + 1 \in 1 .. Len(t) /\ ~ (t[i].start >= t[obj].end)
    /\ t[i].parent = obj /\ t[i].type = "string" /\ TokenText(text, t[i]) = <<key>>

LEMMA ScanFound ==
  ASSUME NEW text, NEW t, NEW obj, NEW key, NEW i, KeyAt(text, t, obj, i, key)
  PROVE  Scan(text, t, obj, key)[i] = i + 1
<1>1. /\ i \in 1 .. Len(t) + 3 /\ ~ (i > Len(t)) /\ i + 1 <= Len(t) /\ Len(t) \in Nat
      /\ ~ (t[i].start >= t[obj].end) /\ t[i].parent = obj /\ t[i].type = "string"
      /\ TokenText(text, t[i]) = <<key>>
  BY DEF KeyAt
<1> DEFINE f == Scan(text, t, obj, key)
<1>2. f[i] = LookAt(text, t, obj, key, f, i)
  BY <1>1, ScanTurns
<1> HIDE DEF f
<1>3. LookAt(text, t, obj, key, f, i) = i + 1
  BY <1>1, Zenon DEF LookAt
<1> QED
  BY <1>2, <1>3 DEF f

(* ... and the one after it begins at token m. *)
Skips(text, t, obj, key, i, m) ==
    /\ \E other : KeyAt(text, t, obj, i, other) /\ other # key
    /\ next_token_index(t, i + 1) = m

LEMMA ScanOn ==
  ASSUME NEW text, NEW t, NEW obj, NEW key, NEW i, NEW m, Skips(text, t, obj, key, i, m)
  PROVE  Scan(text, t, obj, key)[i] = Scan(text, t, obj, key)[m]
<1>0. PICK other : KeyAt(text, t, obj, i, other) /\ other # key /\ next_token_index(t, i + 1) = m
  BY Zenon DEF Skips
<1>1. /\ i \in 1 .. Len(t) + 3 /\ ~ (i > Len(t)) /\ Len(t) \in Nat
      /\ ~ (t[i].start >= t[obj].end) /\ t[i].parent = obj /\ t[i].type = "string"
      /\ TokenText(text, t[i]) = <<other>>
  BY <1>0 DEF KeyAt
<1>2. TokenText(text, t[i]) # <<key>>
  <2>1. <<other>>[1] = other /\ <<key>>[1] = key
    OBVIOUS
  <2> QED
    BY <1>0, <1>1, <2>1
<1> DEFINE f == Scan(text, t, obj, key)
<1>3. f[i] = LookAt(text, t, obj, key, f, i)
  BY <1>1, ScanTurns
<1> HIDE DEF f
<1>4. LookAt(text, t, obj, key, f, i) = f[next_token_index(t, i + 1)]
  BY <1>1, <1>2, Zenon DEF LookAt
<1> QED
  BY <1>0, <1>3, <1>4 DEF f

(* find_object_value finds the member of a key none before it has. *)
FirstKey(ms, j) == \A i \in 1 .. j - 1 : ms[i].key # ms[j].key
MemberAt(text, t, o, ms, j) ==
    /\ find_object_value(text, t, o, ms[j].key) = o + 2 * j
    /\ o + 2 * j \in 1 .. Len(t) /\ o + 2 * j # NoToken
    /\ t[o + 2 * j].type = ms[j].kind /\ TokenText(text, t[o + 2 * j]) = ms[j].v

LEMMA FlatFind ==
  ASSUME NEW text, NEW t \in Seq(Tokens), NEW o \in Nat, o # 0, NEW ms, NEW k \in Nat, NEW lo, NEW hi \in Nat,
         Flat(text, t, o, ms, k, lo, hi), t[o].end = hi + 1, NEW j \in 1 .. k, FirstKey(ms, j)
  PROVE  MemberAt(text, t, o, ms, j)
<1> DEFINE key == ms[j].key
           f == Scan(text, t, o, key)
           K(i) == o + (2 * i - 1)
<1>1. ASSUME NEW i \in 1 .. k
      PROVE  /\ K(i) \in 1 .. Len(t) /\ K(i) + 1 \in 1 .. Len(t) /\ K(i) + 1 = o + 2 * i
             /\ t[K(i)].type = "string" /\ t[K(i)].parent = o /\ TokenText(text, t[K(i)]) = <<ms[i].key>>
             /\ ~ (t[K(i)].start >= t[o].end)
             /\ t[K(i) + 1].type = ms[i].kind /\ TokenText(text, t[K(i) + 1]) = ms[i].v
  <2> DEFINE a == K(i)
  <2>1. Pair(text, t, a, o, ms[i].key, ms[i].kind, ms[i].v, lo, hi)
    BY DEF Flat
  <2>2. a + 1 = o + 2 * i
    OBVIOUS
  <2> HIDE DEF a
  <2>3. /\ a \in 1 .. Len(t) /\ a + 1 \in 1 .. Len(t)
        /\ t[a].type = "string" /\ t[a].parent = o /\ TokenText(text, t[a]) = <<ms[i].key>>
        /\ t[a].start < t[a].end /\ t[a].end <= t[a + 1].start
        /\ t[a + 1].start <= t[a + 1].end /\ t[a + 1].end <= hi + 1
        /\ t[a + 1].type = ms[i].kind /\ TokenText(text, t[a + 1]) = ms[i].v
    BY <2>1, Zenon DEF Pair
  <2>4. ~ (t[a].start >= t[o].end)
    <3>1. t[a] \in Tokens /\ t[a + 1] \in Tokens
      BY <2>3
    <3> DEFINE u == t[a].start
               v == t[a].end
               w == t[a + 1].start
               x == t[a + 1].end
    <3>2. u \in Nat /\ v \in Nat /\ w \in Nat /\ x \in Nat
      BY <3>1 DEF Tokens
    <3>3. u < v /\ v <= w /\ w <= x /\ x <= hi + 1
      BY <2>3
    <3> HIDE DEF u, v, w, x
    <3>4. ~ (u >= hi + 1)
      BY <3>2, <3>3
    <3> QED
      BY <3>4 DEF u
  <2> QED
    BY <2>2, <2>3, <2>4, Zenon DEF a
<1>2. Len(t) \in Nat
  OBVIOUS
<1>3. ASSUME NEW i \in 1 .. j - 1
      PROVE  f[K(i)] = f[K(i + 1)]
  <2>1. i \in 1 .. k /\ i + 1 \in 1 .. k /\ i \in 1 .. k - 1 /\ K(i + 1) = (K(i) + 1) + 1
        /\ o + (2 * i + 1) = K(i + 1)
    OBVIOUS
  <2>2. KeyAt(text, t, o, K(i), ms[i].key) /\ ms[i].key # key
    BY <1>1, <1>2, <2>1 DEF KeyAt, FirstKey
  <2>3. t[o + 2 * i].end <= t[o + (2 * i + 1)].start
    BY <2>1 DEF Flat
  <2> DEFINE a == K(i) + 1
             m == K(i + 1)
  <2>4. a \in 1 .. Len(t) /\ m \in 1 .. Len(t) /\ m = a + 1 /\ t[a].end <= t[m].start
    BY <1>1, <2>1, <2>3
  <2> HIDE DEF a, m, K
  <2>5. next_token_index(t, a) = m
    <3>1. m \in a + 1 .. Len(t) /\ \A x \in a + 1 .. m - 1 : FALSE
      BY <2>4
    <3>2. t[m].start >= t[a].end
      <4>1. t[m] \in Tokens /\ t[a] \in Tokens
        BY <2>4
      <4>2. t[m].start \in Nat /\ t[a].end \in Nat
        BY <4>1 DEF Tokens
      <4> QED
        BY <2>4, <4>2
    <3> QED
      BY <1>2, <2>4, <3>1, <3>2, NextIs, Zenon
  <2> DEFINE c == K(i)
  <2>6. Skips(text, t, o, key, c, m)
    <3>1. next_token_index(t, c + 1) = m
      BY <2>5 DEF a
    <3>2. KeyAt(text, t, o, c, ms[i].key) /\ ms[i].key # key
      BY <2>2
    <3> HIDE DEF key, c
    <3> QED
      BY <3>1, <3>2, Zenon DEF Skips
  <2> HIDE DEF key, c
  <2>7. Scan(text, t, o, key)[c] = Scan(text, t, o, key)[m]
    BY <2>6, ScanOn
  <2> QED
    BY <2>7 DEF c, m
<1> DEFINE T == {i \in Nat : i + 1 <= j => f[K(1)] = f[K(i + 1)]}
<1>4. 0 \in T
  <2>1. 0 + 1 = 1
    OBVIOUS
  <2> HIDE DEF K, f
  <2> QED
    BY <2>1
<1>5. ASSUME NEW i \in Nat, i \in T
      PROVE  i + 1 \in T
  <2> SUFFICES ASSUME (i + 1) + 1 <= j PROVE f[K(1)] = f[K((i + 1) + 1)]
    OBVIOUS
  <2>1. i + 1 \in 1 .. j - 1 /\ i + 1 <= j
    OBVIOUS
  <2> HIDE DEF K, f
  <2>2. f[K(1)] = f[K(i + 1)]
    BY <1>5, <2>1
  <2>3. f[K(i + 1)] = f[K((i + 1) + 1)]
    BY <1>3, <2>1, Zenon
  <2> QED
    BY <2>2, <2>3
<1>6. \A i \in Nat : i \in T
  <2> HIDE DEF T
  <2>1. \A i \in Nat : i \in T => i + 1 \in T
    BY <1>5, Zenon
  <2> QED
    BY <1>4, <2>1, SetInduction, Zenon
<1>7. f[K(1)] = f[K(j)]
  <2>1. j - 1 \in Nat /\ (j - 1) + 1 = j /\ j <= j
    OBVIOUS
  <2>2. j - 1 \in T
    BY <1>6, <2>1
  <2> HIDE DEF K, f
  <2> QED
    BY <2>1, <2>2
<1>8. f[K(j)] = K(j) + 1
  <2>1. j \in 1 .. k
    OBVIOUS
  <2>2. K(j) + 1 <= Len(t)
    BY <1>1, <2>1
  <2>3. KeyAt(text, t, o, K(j), key)
    BY <1>1, <1>2, <2>1 DEF KeyAt
  <2> DEFINE c == K(j)
  <2>4. KeyAt(text, t, o, c, key)
    BY <2>3
  <2> HIDE DEF c, key, K, T
  <2>5. Scan(text, t, o, key)[c] = c + 1
    BY <2>4, ScanFound
  <2> QED
    BY <2>5 DEF c
<1>9. find_object_value(text, t, o, key) = f[o + 1] /\ K(1) = o + 1
  BY DEF find_object_value
<1>10. K(j) + 1 = o + 2 * j /\ o + 2 * j # NoToken
  BY DEF NoToken
<1>11. /\ K(j) + 1 \in 1 .. Len(t) /\ t[K(j) + 1].type = ms[j].kind /\ TokenText(text, t[K(j) + 1]) = ms[j].v
  BY <1>1, Zenon
<1> HIDE DEF K, f
<1> QED
  BY <1>7, <1>8, <1>9, <1>10, <1>11 DEF MemberAt

-----------------------------------------------------------------------------
(* Whole answers *)

(* What jsmn_parse returns for a text with the tokens tk. *)
ParseIs(text, max, tk) ==
    IF Len(tk) <= max THEN jsmn_parse(text, max).error = FALSE /\ jsmn_parse(text, max).tokens = tk
    ELSE jsmn_parse(text, max).error = TRUE

LEMMA ParseDone ==
  ASSUME NEW max \in Nat, NEW text, Len(text) \in Nat, NEW tk,
         At(text, max, Len(text), 0, tk), Finished(tk, 0)
  PROVE  ParseIs(text, max, tk)
<1> DEFINE last == Parsed(text, max)[Len(text)]
           done == IF last.error \/ last.mode # "primitive" THEN last
                   ELSE AddToken(last, "primitive", last.start, Len(text) + 1, max)
           bad(p) == p.error \/ p.mode \in {"string", "escape"} \/ OpenTokens(p) # {}
<1>1. PICK start \in Nat : Reads(text, max, Len(text), "top", start, 0, 0, tk)
  BY DEF At
<1>2. jsmn_parse(text, max) = [done EXCEPT !.error = bad(done)]
  BY Zenon DEF jsmn_parse
<1>3. last \in Parsers
  <2>1. Len(text) \in 0 .. Len(text)
    OBVIOUS
  <2>2. Within(last, max)
    BY <2>1, ParsedWithin, Zenon
  <2> QED
    BY <2>2 DEF Within
<1> HIDE DEF bad
<1>4. CASE Len(tk) <= max
  <2>1. Is(last, "top", start, 0, 0, tk)
    BY <1>1, <1>4 DEF Reads
  <2> HIDE DEF last
  <2>2. done = last /\ last \in Parsers /\ last.error = FALSE /\ last.mode = "top" /\ last.tokens = tk
    BY <2>1 DEF Is
  <2>3. tk \in Seq(Tokens) /\ OpenTokens(last) = {}
    <3>1. tk \in Seq(Tokens)
      BY <1>1 DEF Reads
    <3> QED
      BY <2>2, <3>1 DEF OpenTokens, Finished
  <2>4. bad(last) = FALSE
    BY <2>2, <2>3 DEF bad
  <2> HIDE DEF done
  <2>5. jsmn_parse(text, max) = [last EXCEPT !.error = FALSE]
    BY <1>2, <2>2, <2>4
  <2>6. [last EXCEPT !.error = FALSE].error = FALSE /\ [last EXCEPT !.error = FALSE].tokens = tk
    BY <2>2 DEF Parsers
  <2> QED
    BY <1>4, <2>5, <2>6 DEF ParseIs
<1>5. CASE ~ (Len(tk) <= max)
  <2>1. last.error = TRUE
    BY <1>1, <1>5 DEF Reads
  <2> HIDE DEF last
  <2>2. done = last
    BY <2>1
  <2>3. bad(last) = TRUE
    BY <2>1 DEF bad
  <2> HIDE DEF done
  <2>4. jsmn_parse(text, max) = [last EXCEPT !.error = TRUE]
    BY <1>2, <2>2, <2>3
  <2>5. [last EXCEPT !.error = TRUE].error = TRUE
    BY <1>3 DEF Parsers
  <2> QED
    BY <1>5, <2>4, <2>5 DEF ParseIs
<1> QED
  BY <1>4, <1>5

LEMMA HasItself ==
  ASSUME NEW a, NEW b, IsText(a), IsText(b)
  PROVE  /\ IsText(a \o b) /\ Len(a \o b) = Len(a) + Len(b) /\ Has(a \o b, 0, a)
         /\ Has(a \o b, Len(a), b)
<1> DEFINE c == a \o b
<1>1. /\ IsText(c) /\ Len(c) = Len(a) + Len(b) /\ Len(a) \in Nat /\ Len(b) \in Nat
      /\ \A i \in 1 .. Len(a) : c[i] = a[i]
      /\ \A i \in 1 .. Len(b) : c[Len(a) + i] = b[i]
  <2>1. Len(a) \in Nat /\ Len(b) \in Nat
    BY DEF IsText
  <2>2. IsText(c) /\ Len(c) = Len(a) + Len(b)
    BY ConcatText, Zenon
  <2>3. \A i \in 1 .. Len(a) : c[i] = a[i]
    BY ConcatText, Zenon
  <2>4. \A i \in 1 .. Len(b) : c[Len(a) + i] = b[i]
    BY ConcatText
  <2> HIDE DEF c
  <2> QED
    BY <2>1, <2>2, <2>3, <2>4
<1> HIDE DEF c
<1>2. Has(c, 0, a) /\ Has(c, Len(a), b)
  <2>1. \A i \in 1 .. Len(a) : 0 + i = i
    BY <1>1
  <2> QED
    BY <1>1, <2>1 DEF Has
<1> QED
  BY <1>1, <1>2 DEF c

(* An answer ends with its object, or with a newline after it. *)
LEMMA LineText ==
  ASSUME NEW parts, IsText(Object(parts))
  PROVE  /\ IsText(Line(parts)) /\ Has(Line(parts), 0, Object(parts))
         /\ \/ Len(Line(parts)) = Len(Object(parts))
            \/ (Len(Line(parts)) = Len(Object(parts)) + 1 /\ Has(Line(parts), Len(Object(parts)), <<"nl">>))
<1> DEFINE a == Object(parts)
           b == IF provider = "c" THEN <<>> ELSE <<"nl">>
<1>1. Line(parts) = a \o b /\ IsText(a) /\ Len(a) \in Nat
  BY DEF Line, IsText
<1>2. IsText(b) /\ (Len(b) = 0 \/ (b = <<"nl">> /\ Len(b) = 1))
  <2>1. IsText(<<>>) /\ Len(<<>>) = 0 /\ IsText(<<"nl">>) /\ Len(<<"nl">>) = 1
    BY EmptyText, WordText
  <2>2. b = <<>> \/ b = <<"nl">>
    OBVIOUS
  <2> HIDE DEF b
  <2>3. CASE b = <<>>
    <3>1. IsText(b) /\ Len(b) = 0
      BY <2>1, <2>3, Zenon
    <3> QED
      BY <3>1, Zenon
  <2>4. CASE b = <<"nl">>
    BY <2>1, <2>4
  <2> QED
    BY <2>2, <2>3, <2>4, Zenon
<1> HIDE DEF a, b
<1>3. IsText(a \o b) /\ Len(a \o b) = Len(a) + Len(b) /\ Has(a \o b, 0, a) /\ Has(a \o b, Len(a), b)
  BY <1>1, <1>2, HasItself, Zenon
<1>4. IsText(Line(parts)) /\ Len(Line(parts)) = Len(a) + Len(b) /\ Has(Line(parts), 0, a) /\ Has(Line(parts), Len(a), b)
  BY <1>1, <1>3, Zenon
<1> QED
  BY <1>1, <1>2, <1>4 DEF a

LEMMA LineDone ==
  ASSUME NEW max \in Nat, NEW parts, IsText(Object(parts)), NEW tk,
         At(Line(parts), max, Len(Object(parts)), 0, tk), Finished(tk, 0)
  PROVE  ParseIs(Line(parts), max, tk)
<1> DEFINE text == Line(parts)
           n == Len(Object(parts))
<1>1. /\ IsText(text) /\ Len(text) \in Nat /\ n \in Nat
      /\ (Len(text) = n \/ (Len(text) = n + 1 /\ Has(text, n, <<"nl">>)))
  BY LineText DEF IsText
<1>2. At(text, max, n, 0, tk)
  OBVIOUS
<1> HIDE DEF text, n
<1>3. CASE Len(text) = n
  <2>1. At(text, max, Len(text), 0, tk)
    BY <1>2, <1>3
  <2> QED
    BY <1>1, <2>1, ParseDone DEF text
<1>4. CASE Len(text) = n + 1 /\ Has(text, n, <<"nl">>)
  <2>1. At(text, max, n + 1, 0, tk)
    BY <1>1, <1>2, <1>4, AtSeparator
  <2>2. At(text, max, Len(text), 0, tk)
    BY <1>4, <2>1
  <2> QED
    BY <1>1, <2>2, ParseDone DEF text
<1> QED
  BY <1>1, <1>3, <1>4

(* An answer that is one object of members *)
FlatAnswer(text, t, ms) ==
    /\ t \in Seq(Tokens) /\ Len(t) = 1 + 2 * Len(ms) /\ t[1].type = "object"
    /\ \E hi \in Nat : t[1].end = hi + 1 /\ Flat(text, t, 1, ms, Len(ms), 1, hi)

LEMMA FlatLine ==
  ASSUME NEW max \in Nat, NEW ms, GoodAll(ms)
  PROVE  /\ IsText(Line(Pieces(ms)))
         /\ \E t : FlatAnswer(Line(Pieces(ms)), t, ms) /\ ParseIs(Line(Pieces(ms)), max, t)
<1> DEFINE parts == Pieces(ms)
           text == Line(parts)
           n == Len(Object(parts))
<1>1. IsText(Object(parts)) /\ n \in Nat
  <2>1. IsText(Commas(parts))
    BY PiecesText, CommasText, Zenon
  <2>2. IsText(Object(parts))
    BY <2>1, BracketsHas, Zenon DEF Object
  <2> QED
    BY <2>2 DEF IsText
<1>2. IsText(text) /\ Has(text, 0, Object(parts)) /\ Len(text) \in Nat
  BY <1>1, LineText DEF IsText
<1> DEFINE tk == <<>>
<1>3. At(text, max, 0, 0, tk)
  BY <1>2, AtStart
<1>4. n = 0 + n /\ Len(tk) = 0 /\ 0 \in Nat
  BY <1>1
<1> HIDE DEF tk, text, n
<1>5. PICK t : ObjectRead(text, max, 0, n, 0, tk, t, ms)
  <2>1. n = 0 + Len(Object(Pieces(ms)))
    BY <1>4 DEF n
  <2>2. \E t : ObjectRead(text, max, 0, n, 0, tk, t, ms)
    BY <1>2, <1>3, <1>4, <2>1, FlatObject, Zenon
  <2> QED
    BY <2>2
<1>6. /\ At(text, max, n, 0, t) /\ Grown(tk, t, 1 + 2 * Len(ms))
      /\ t[Len(tk) + 1] = Token("object", 0 + 1, n + 1, 0)
      /\ Flat(text, t, Len(tk) + 1, ms, Len(ms), 0 + 1, n) /\ Finished(t, Len(tk))
  BY <1>5, Zenon DEF ObjectRead
<1>7. 0 + 1 = 1 /\ Len(tk) + 1 = 1
  BY <1>4
<1>8. Flat(text, t, 1, ms, Len(ms), 1, n) /\ t[1] = Token("object", 1, n + 1, 0) /\ Finished(t, 0)
  BY <1>4, <1>6, <1>7
<1>9. t[1].end = n + 1 /\ t[1].type = "object"
  BY <1>8 DEF Token
<1>10. t \in Seq(Tokens) /\ Len(t) = 1 + 2 * Len(ms)
  <2>1. Len(ms) \in Nat
    BY DEF GoodAll, IsText
  <2> QED
    BY <1>4, <1>6, <2>1 DEF Grown
<1>11. FlatAnswer(text, t, ms)
  BY <1>1, <1>8, <1>9, <1>10, Zenon DEF FlatAnswer
<1>12. ParseIs(text, max, t)
  BY <1>1, <1>6, <1>8, LineDone, Zenon DEF text, n
<1> QED
  BY <1>2, <1>11, <1>12 DEF text

-----------------------------------------------------------------------------
(* The query: what curl_easy_escape writes, url_decode reads. *)

Escaped(ch) == IF ch \in DOMAIN Hex THEN <<"pct", Hex[ch]>> ELSE <<ch>>

DecodeStep(s, size, before, i) ==
    LET coded   == {ch \in DOMAIN Hex : i < Len(s) /\ Hex[ch] = s[i + 1]}
        put(ch) == Made(Append(before.text, ch)) IN
    IF ~before.ok THEN Failed
    ELSE IF i > 1 /\ s[i - 1] = "pct" THEN before
    ELSE IF Len(before.text) + 1 >= size THEN Failed
    ELSE IF s[i] = "pct" THEN IF coded = {} THEN Failed ELSE put(CHOOSE ch \in coded : TRUE)
    ELSE put(IF s[i] = "plus" THEN "space" ELSE s[i])

LEMMA DecodeTurns ==
  ASSUME NEW s, Len(s) \in Nat, NEW size
  PROVE  \E dec : /\ url_decode(s, size) = dec[Len(s)] /\ dec[0] = Made(<<>>)
                  /\ \A i \in 1 .. Len(s) : dec[i] = DecodeStep(s, size, dec[i - 1], i)
<1> DEFINE zero == Made(<<>>)
           turn(p, n) == DecodeStep(s, size, p, n)
           solves(g, k) == g = [n \in 0 .. k |-> IF n = 0 THEN zero ELSE turn(g[n - 1], n)]
           T == {k \in Nat : \E g : solves(g, k)}
           dec == CHOOSE x : solves(x, Len(s))
<1>0. url_decode(s, size) = dec[Len(s)]
  BY Zenon DEF url_decode, DecodeStep
<1> HIDE DEF turn, zero
<1>1. 0 \in T
  <2>1. solves([n \in 0 .. 0 |-> zero], 0)
    OBVIOUS
  <2> QED
    BY <2>1
<1>2. ASSUME NEW k \in Nat, k \in T
      PROVE  k + 1 \in T
  <2>1. PICK g : solves(g, k)
    BY <1>2
  <2> DEFINE h == [n \in 0 .. k + 1 |-> IF n <= k THEN g[n] ELSE turn(g[k], k + 1)]
  <2>2. \A n \in 0 .. k + 1 : h[n] = IF n = 0 THEN zero ELSE turn(h[n - 1], n)
    <3> TAKE n \in 0 .. k + 1
    <3>1. CASE n <= k
      <4>1. n \in 0 .. k /\ (n # 0 => n - 1 \in 0 .. k + 1 /\ n - 1 <= k)
        BY <3>1
      <4>2. h[n] = g[n] /\ (n # 0 => h[n - 1] = g[n - 1])
        BY <3>1, <4>1
      <4>3. g[n] = IF n = 0 THEN zero ELSE turn(g[n - 1], n)
        BY <2>1, <4>1
      <4> QED
        BY <4>2, <4>3
    <3>2. CASE n = k + 1
      <4>1. n # 0 /\ n - 1 = k /\ ~ (n <= k) /\ k \in 0 .. k + 1 /\ k <= k
        BY <3>2
      <4>2. h[n] = turn(g[k], k + 1) /\ h[n - 1] = g[k]
        BY <4>1
      <4> QED
        BY <3>2, <4>1, <4>2
    <3> QED
      BY <3>1, <3>2
  <2>3. solves(h, k + 1) /\ k + 1 \in Nat
    BY <2>2
  <2> HIDE DEF h, solves
  <2> QED
    BY <2>3
<1>3. \A k \in Nat : k \in T
  <2> HIDE DEF T
  <2>1. \A n \in Nat : n \in T => n + 1 \in T
    BY <1>2, Zenon
  <2> QED
    BY <1>1, <2>1, SetInduction, Zenon
<1>4. PICK g : solves(g, Len(s))
  BY <1>3
<1>5. solves(dec, Len(s))
  <2> HIDE DEF solves
  <2> QED
    BY <1>4, Zenon
<1> HIDE DEF dec
<1>6. dec[0] = zero /\ \A n \in 1 .. Len(s) : dec[n] = turn(dec[n - 1], n)
  BY <1>5
<1> QED
  BY <1>0, <1>6 DEF zero, turn

LEMMA HexCodes ==
  ASSUME NEW a \in DOMAIN Hex, NEW b \in DOMAIN Hex, Hex[a] = Hex[b]
  PROVE  a = b
BY DEF Hex

LEMMA HexPlain ==
  /\ "pct" \in DOMAIN Hex /\ "plus" \in DOMAIN Hex /\ "amp" \in DOMAIN Hex /\ Blank \subseteq DOMAIN Hex
  /\ \A ch \in DOMAIN Hex : Hex[ch] \notin {"pct", "amp"} \cup Blank
BY DEF Hex, Blank

(* The prefix of length i of a text *)
LEMMA Prefix ==
  ASSUME NEW s, IsText(s), NEW i \in 0 .. Len(s)
  PROVE  /\ Len(SubSeq(s, 1, i)) = i /\ (i = 0 => SubSeq(s, 1, i) = <<>>) /\ (i = Len(s) => SubSeq(s, 1, i) = s)
         /\ i < Len(s) => Append(SubSeq(s, 1, i), s[i + 1]) = SubSeq(s, 1, i + 1)
<1> DEFINE X == {s[j] : j \in 1 .. Len(s)}
<1>1. s \in Seq(X) /\ Len(s) \in Nat
  BY DEF IsText
<1> HIDE DEF X
<1>2. SubSeq(s, 1, i) \in Seq(X) /\ Len(SubSeq(s, 1, i)) = i /\ \A j \in 1 .. i : SubSeq(s, 1, i)[j] = s[j]
  BY <1>1
<1>3. i < Len(s) => Append(SubSeq(s, 1, i), s[i + 1]) = SubSeq(s, 1, i + 1)
  <2> SUFFICES ASSUME i < Len(s) PROVE Append(SubSeq(s, 1, i), s[i + 1]) = SubSeq(s, 1, i + 1)
    OBVIOUS
  <2>1. s[i + 1] \in X
    BY <1>1
  <2>2. SubSeq(s, 1, i + 1) \in Seq(X) /\ Len(SubSeq(s, 1, i + 1)) = i + 1
        /\ \A j \in 1 .. i + 1 : SubSeq(s, 1, i + 1)[j] = s[j]
    BY <1>1
  <2> DEFINE a == Append(SubSeq(s, 1, i), s[i + 1])
  <2>3. a \in Seq(X) /\ Len(a) = i + 1 /\ \A j \in 1 .. i + 1 : a[j] = s[j]
    BY <1>2, <2>1
  <2> HIDE DEF a
  <2>4. a = SubSeq(s, 1, i + 1)
    BY <2>2, <2>3
  <2> QED
    BY <2>4 DEF a
<1>4. i = Len(s) => SubSeq(s, 1, i) = s
  BY <1>1
<1> QED
  BY <1>2, <1>3, <1>4

(* One escaped character, decoded *)
Puts(b, ch, size) ==
    IF ~b.ok THEN Failed ELSE IF Len(b.text) + 1 >= size THEN Failed ELSE Made(Append(b.text, ch))

LEMMA EscapedText ==
  ASSUME NEW ch
  PROVE  /\ IsText(Escaped(ch)) /\ Len(Escaped(ch)) \in 1 .. 2
         /\ ch \in DOMAIN Hex => Escaped(ch) = <<"pct", Hex[ch]>> /\ Len(Escaped(ch)) = 2
                                 /\ Escaped(ch)[1] = "pct" /\ Escaped(ch)[2] = Hex[ch]
         /\ ch \notin DOMAIN Hex => Escaped(ch) = <<ch>> /\ Len(Escaped(ch)) = 1 /\ Escaped(ch)[1] = ch
<1>1. CASE ch \in DOMAIN Hex
  <2> DEFINE h == Hex[ch]
             p == "pct"
  <2>1. Escaped(ch) = <<p, h>>
    BY <1>1 DEF Escaped
  <2> HIDE DEF h, p
  <2>2. <<p, h>> \in Seq({p, h}) /\ Len(<<p, h>>) = 2 /\ <<p, h>>[1] = p /\ <<p, h>>[2] = h
    OBVIOUS
  <2>3. IsText(<<p, h>>)
    BY <2>2, SeqIsText
  <2> QED
    BY <1>1, <2>1, <2>2, <2>3 DEF h, p
<1>2. CASE ch \notin DOMAIN Hex
  <2>1. Escaped(ch) = <<ch>>
    BY <1>2 DEF Escaped
  <2> QED
    BY <1>2, <2>1, WordText
<1> QED
  BY <1>1, <1>2

Decodes(e, size, dec) ==
    /\ Len(e) \in Nat /\ size \in Nat
    /\ \A i \in 1 .. Len(e) : dec[i] = DecodeStep(e, size, dec[i - 1], i)

LEMMA DecodeChar ==
  ASSUME NEW e, NEW size, NEW dec, Decodes(e, size, dec), NEW o \in Nat, NEW ch,
         Has(e, o, Escaped(ch)), o > 0 => e[o] # "pct"
  PROVE  /\ o + Len(Escaped(ch)) \in 1 .. Len(e) /\ e[o + Len(Escaped(ch))] # "pct"
         /\ dec[o + Len(Escaped(ch))] = Puts(dec[o], ch, size)
<1> DEFINE b == dec[o]
           a == Append(b.text, ch)
<1>0. "pct" \in DOMAIN Hex /\ "plus" \in DOMAIN Hex /\ \A c \in DOMAIN Hex : Hex[c] # "pct"
  BY HexPlain
<1>6. Len(e) \in Nat /\ size \in Nat
  BY DEF Decodes
<1>7. \A i \in 1 .. Len(e) : dec[i] = DecodeStep(e, size, dec[i - 1], i)
  BY DEF Decodes
<1>3. o + 1 \in 1 .. Len(e) /\ (o + 1) - 1 = o /\ e[o + 1] = Escaped(ch)[1]
  BY <1>6, EscapedText DEF Has
<1>4. dec[o + 1] = DecodeStep(e, size, b, o + 1)
  BY <1>3, <1>7
<1>5. ~ (o + 1 > 1 /\ e[(o + 1) - 1] = "pct")
  BY <1>3
<1>1. CASE ch \in DOMAIN Hex
  <2>1. /\ e[o + 1] = "pct" /\ o + 2 \in 1 .. Len(e) /\ (o + 2) - 1 = o + 1 /\ (o + 1) + 1 = o + 2
        /\ e[o + 2] = Hex[ch] /\ Len(Escaped(ch)) = 2 /\ o + 1 < Len(e) /\ o + 2 > 1
    BY <1>1, <1>3, <1>6, EscapedText DEF Has
  <2> DEFINE coded == {c \in DOMAIN Hex : o + 1 < Len(e) /\ Hex[c] = e[(o + 1) + 1]}
  <2>2. coded = {ch}
    <3>1. \A c \in DOMAIN Hex : Hex[c] = Hex[ch] => c = ch
      BY <1>1, HexCodes
    <3>2. e[(o + 1) + 1] = Hex[ch]
      BY <2>1
    <3> QED
      BY <1>1, <2>1, <3>1, <3>2, Zenon
  <2>3. dec[o + 1] = IF ~b.ok THEN Failed ELSE IF Len(b.text) + 1 >= size THEN Failed
                     ELSE IF coded = {} THEN Failed ELSE Made(Append(b.text, CHOOSE c \in coded : TRUE))
    <3> HIDE DEF b
    <3> QED
      BY <1>4, <1>5, <2>1, Zenon DEF DecodeStep
  <2> HIDE DEF coded, b
  <2>4. coded # {} /\ (CHOOSE c \in coded : TRUE) = ch
    BY <2>2
  <2>5. dec[o + 1] = Puts(b, ch, size)
    BY <2>3, <2>4, Zenon DEF Puts
  <2>6. dec[o + 2] = DecodeStep(e, size, dec[o + 1], o + 2)
    BY <1>7, <2>1
  <2>7. dec[o + 2] = IF ~dec[o + 1].ok THEN Failed ELSE dec[o + 1]
    BY <2>1, <2>6, Zenon DEF DecodeStep
  <2>8. Puts(b, ch, size).ok \/ Puts(b, ch, size) = Failed
    BY DEF Puts, Made, Failed
  <2>9. dec[o + 2] = Puts(b, ch, size)
    BY <2>5, <2>7, <2>8, Zenon
  <2>10. e[o + 2] # "pct"
    BY <1>0, <1>1, <2>1
  <2> QED
    BY <2>1, <2>9, <2>10 DEF b
<1>2. CASE ch \notin DOMAIN Hex
  <2>1. e[o + 1] = ch /\ Len(Escaped(ch)) = 1 /\ ch # "pct" /\ ch # "plus"
    BY <1>0, <1>2, <1>3, EscapedText
  <2> HIDE DEF b
  <2>2. dec[o + 1] = Puts(b, ch, size)
    BY <1>4, <1>5, <2>1, Zenon DEF DecodeStep, Puts
  <2> QED
    BY <1>3, <2>1, <2>2 DEF b
<1> QED
  BY <1>1, <1>2

EscapedParts(s) == [i \in DOMAIN s |-> Escaped(s[i])]

LEMMA EscapedIs ==
  ASSUME NEW s, IsText(s), Len(s) # 0
  PROVE  /\ curl_easy_escape(s) = FlattenSeq(EscapedParts(s)) /\ IsText(curl_easy_escape(s))
         /\ Len(EscapedParts(s)) = Len(s) /\ \A i \in 1 .. Len(s) : EscapedParts(s)[i] = Escaped(s[i])
<1>1. DOMAIN s = 1 .. Len(s) /\ Len(s) \in Nat
  BY DEF IsText
<1>2. curl_easy_escape(s) = FlattenSeq(EscapedParts(s))
  BY Zenon DEF curl_easy_escape, EscapedParts, Escaped
<1>3. Len(EscapedParts(s)) = Len(s) /\ \A i \in 1 .. Len(s) : EscapedParts(s)[i] = Escaped(s[i])
  BY <1>1 DEF EscapedParts
<1> DEFINE q == EscapedParts(s)
<1> HIDE DEF q
<1>4. Len(q) \in Nat /\ Len(q) # 0 /\ \A i \in 1 .. Len(q) : IsText(q[i])
  BY <1>1, <1>3, EscapedText DEF q
<1>5. IsText(FlattenSeq(q))
  BY <1>4, FlattenText, Zenon
<1> QED
  BY <1>2, <1>3, <1>5 DEF q

(* url_decode gives back what curl_easy_escape got, or fails for want of room *)
LEMMA DecodeEscaped ==
  ASSUME NEW s, IsText(s), Len(s) # 0, NEW size \in Nat
  PROVE  url_decode(curl_easy_escape(s), size) = IF Len(s) < size THEN Made(s) ELSE Failed
<1> DEFINE q == EscapedParts(s)
           e == curl_easy_escape(s)
           n == Len(s)
<1>1. /\ e = FlattenSeq(q) /\ IsText(e) /\ Len(q) = n /\ n \in Nat /\ n # 0
      /\ \A i \in 1 .. n : q[i] = Escaped(s[i])
  BY EscapedIs DEF IsText
<1> HIDE DEF q, e
<1>2. Len(q) \in Nat /\ Len(q) # 0 /\ Len(e) \in Nat /\ \A i \in 1 .. Len(q) : IsText(q[i])
  <2>1. Len(e) \in Nat
    BY <1>1 DEF IsText
  <2>2. ASSUME NEW i \in 1 .. n PROVE IsText(q[i])
    <3>1. q[i] = Escaped(s[i])
      BY <1>1
    <3> QED
      BY <3>1, EscapedText, Zenon
  <2> QED
    BY <1>1, <2>1, <2>2
<1>3. Has(e, 0, e)
  BY <1>2 DEF Has
<1>4. \E off : Laid(e, q, 0, off)
  BY <1>1, <1>2, <1>3, FlattenHas
<1>5. PICK off : Laid(e, q, 0, off)
  BY <1>4
<1>6. /\ off[0] = 0 /\ off[n] = Len(e)
      /\ \A i \in 1 .. n : off[i - 1] \in Nat /\ Has(e, off[i - 1], q[i]) /\ off[i] = off[i - 1] + Len(q[i])
  BY <1>1, <1>2, <1>5 DEF Laid
<1>7. PICK dec : /\ url_decode(e, size) = dec[Len(e)] /\ dec[0] = Made(<<>>)
                 /\ \A i \in 1 .. Len(e) : dec[i] = DecodeStep(e, size, dec[i - 1], i)
  BY <1>2, DecodeTurns
<1> DEFINE want(i) == IF i = 0 \/ i < size THEN Made(SubSeq(s, 1, i)) ELSE Failed
           claim(i) == off[i] \in 0 .. Len(e) /\ dec[off[i]] = want(i) /\ (off[i] > 0 => e[off[i]] # "pct")
           T == {i \in Nat : i <= n => claim(i)}
<1>8. 0 \in T
  <2>1. SubSeq(s, 1, 0) = <<>>
    BY <1>1, Prefix
  <2>2. want(0) = Made(<<>>)
    BY <2>1
  <2> HIDE DEF want
  <2> QED
    BY <1>2, <1>6, <1>7, <2>2
<1>9. ASSUME NEW i \in Nat, i \in T
      PROVE  i + 1 \in T
  <2> SUFFICES ASSUME i + 1 <= n PROVE claim(i + 1)
    OBVIOUS
  <2> DEFINE o == off[i]
             ch == s[i + 1]
             k == Len(Escaped(ch))
  <2>1. claim(i)
    BY <1>1, <1>9
  <2>2. i + 1 \in 1 .. n /\ (i + 1) - 1 = i /\ i \in 0 .. n /\ i < n
    BY <1>1
  <2>3. o \in Nat /\ Has(e, o, Escaped(ch)) /\ off[i + 1] = o + k
    BY <1>1, <1>6, <2>2
  <2>4. o > 0 => e[o] # "pct"
    BY <2>1
  <2>5. o + k \in 1 .. Len(e) /\ e[o + k] # "pct" /\ dec[o + k] = Puts(dec[o], ch, size)
    <3>1. \A j \in 1 .. Len(e) : dec[j] = DecodeStep(e, size, dec[j - 1], j)
      BY <1>7
    <3>2. Len(e) \in Nat
      BY <1>2
    <3>3. Decodes(e, size, dec)
      BY <3>1, <3>2 DEF Decodes
    <3> HIDE DEF o, ch, T, claim, want
    <3> QED
      BY <2>3, <2>4, <3>3, DecodeChar
  <2>6. Puts(want(i), ch, size) = want(i + 1)
    <3> DEFINE sub == SubSeq(s, 1, i)
    <3>1. Len(sub) = i /\ Append(sub, ch) = SubSeq(s, 1, i + 1) /\ i + 1 # 0
      BY <1>1, <2>2, Prefix
    <3> HIDE DEF sub, ch
    <3>2. /\ want(i) = IF i = 0 \/ i < size THEN Made(sub) ELSE Failed
          /\ want(i + 1) = IF i + 1 < size THEN Made(Append(sub, ch)) ELSE Failed
      BY <3>1 DEF sub
    <3> HIDE DEF want
    <3>3. Made(sub).ok /\ Made(sub).text = sub /\ ~Failed.ok
      BY DEF Made, Failed
    <3>4. CASE i = 0 \/ i < size
      <4>1. want(i) = Made(sub)
        BY <3>2, <3>4
      <4>2. (i + 1 >= size) <=> ~(i + 1 < size)
        OBVIOUS
      <4> QED
        BY <3>1, <3>2, <3>3, <4>1, <4>2, Zenon DEF Puts
    <3>5. CASE ~(i = 0 \/ i < size)
      <4>1. want(i) = Failed /\ ~(i + 1 < size)
        BY <3>2, <3>5
      <4> QED
        BY <3>1, <3>2, <3>3, <4>1, Zenon DEF Puts
    <3> QED
      BY <3>4, <3>5
  <2> HIDE DEF want, k, ch
  <2>7. dec[o] = want(i)
    BY <2>1
  <2>8. dec[o + k] = want(i + 1)
    BY <2>5, <2>6, <2>7
  <2>9. o + k \in 0 .. Len(e)
    BY <2>5, <1>2
  <2> QED
    BY <2>3, <2>5, <2>8, <2>9, Zenon
<1>10. \A i \in Nat : i \in T
  <2> HIDE DEF T
  <2>1. \A i \in Nat : i \in T => i + 1 \in T
    BY <1>9, Zenon
  <2> QED
    BY <1>8, <2>1, SetInduction, Zenon
<1>11. claim(n)
  BY <1>1, <1>10
<1>12. SubSeq(s, 1, n) = s
  BY <1>1, Prefix
<1> QED
  BY <1>1, <1>6, <1>7, <1>11, <1>12 DEF e

(* No ampersand and no blank is left in what curl_easy_escape writes. *)
LEMMA EscapedFree ==
  ASSUME NEW s, IsText(s), Len(s) # 0
  PROVE  /\ Len(curl_easy_escape(s)) >= Len(s)
         /\ \A j \in 1 .. Len(curl_easy_escape(s)) : curl_easy_escape(s)[j] \notin {"amp"} \cup Blank
<1> DEFINE q == EscapedParts(s)
           e == curl_easy_escape(s)
           n == Len(s)
           bad == {"amp"} \cup Blank
<1>0. bad \subseteq DOMAIN Hex /\ "pct" \notin bad /\ \A c \in DOMAIN Hex : Hex[c] \notin bad
  <2>1. "pct" \notin bad
    BY DEF Blank
  <2> QED
    BY <2>1, HexPlain
<1>1. /\ e = FlattenSeq(q) /\ IsText(e) /\ Len(q) = n /\ n \in Nat /\ n # 0
      /\ \A i \in 1 .. n : q[i] = Escaped(s[i])
  BY EscapedIs DEF IsText
<1> HIDE DEF q, e, bad
<1>2. Len(q) \in Nat /\ Len(q) # 0 /\ Len(e) \in Nat /\ \A i \in 1 .. Len(q) : IsText(q[i])
  <2>1. Len(e) \in Nat
    BY <1>1 DEF IsText
  <2>2. ASSUME NEW i \in 1 .. n PROVE IsText(q[i])
    <3>1. q[i] = Escaped(s[i])
      BY <1>1
    <3> QED
      BY <3>1, EscapedText, Zenon
  <2> QED
    BY <1>1, <2>1, <2>2
<1>3. Has(e, 0, e)
  BY <1>2 DEF Has
<1>4. \E off : Laid(e, q, 0, off)
  BY <1>1, <1>2, <1>3, FlattenHas
<1>5. PICK off : Laid(e, q, 0, off)
  BY <1>4
<1>6. /\ off[0] = 0 /\ off[n] = Len(e)
      /\ \A i \in 1 .. n : off[i - 1] \in Nat /\ Has(e, off[i - 1], q[i]) /\ off[i] = off[i - 1] + Len(q[i])
  BY <1>1, <1>2, <1>5 DEF Laid
<1> DEFINE claim(i) == off[i] \in Nat /\ off[i] >= i /\ \A j \in 1 .. off[i] : e[j] \notin bad
           T == {i \in Nat : i <= n => claim(i)}
<1>8. 0 \in T
  BY <1>6
<1>9. ASSUME NEW i \in Nat, i \in T
      PROVE  i + 1 \in T
  <2> SUFFICES ASSUME i + 1 <= n PROVE claim(i + 1)
    OBVIOUS
  <2> DEFINE o == off[i]
             ch == s[i + 1]
             x == Escaped(ch)
  <2>1. o \in Nat /\ o >= i /\ \A j \in 1 .. o : e[j] \notin bad
    BY <1>1, <1>9
  <2>2. i + 1 \in 1 .. n /\ (i + 1) - 1 = i
    BY <1>1
  <2>3. Has(e, o, x) /\ off[i + 1] = o + Len(x)
    BY <1>1, <1>6, <2>2
  <2>4. Len(x) \in 1 .. 2 /\ \A j \in 1 .. Len(x) : x[j] \notin bad
    <3>1. CASE ch \in DOMAIN Hex
      <4>1. Len(x) = 2 /\ x[1] = "pct" /\ x[2] = Hex[ch]
        BY <3>1, EscapedText
      <4> HIDE DEF x, ch
      <4> QED
        BY <1>0, <3>1, <4>1
    <3>2. CASE ch \notin DOMAIN Hex
      <4>1. Len(x) = 1 /\ x[1] = ch
        BY <3>2, EscapedText
      <4> HIDE DEF x, ch
      <4> QED
        BY <1>0, <3>2, <4>1
    <3> QED
      BY <3>1, <3>2
  <2> HIDE DEF x, o, T
  <2>5. ASSUME NEW j \in 1 .. o + Len(x), ~(j <= o)
        PROVE  e[j] \notin bad
    <3>1. j - o \in 1 .. Len(x) /\ o + (j - o) = j
      BY <2>1, <2>4, <2>5
    <3>2. e[o + (j - o)] = x[j - o]
      BY <2>3, <3>1 DEF Has
    <3> QED
      BY <2>4, <3>1, <3>2
  <2>6. \A j \in 1 .. o + Len(x) : e[j] \notin bad
    BY <2>1, <2>4, <2>5
  <2>7. o + Len(x) \in Nat /\ o + Len(x) >= i + 1
    BY <2>1, <2>4
  <2> QED
    BY <2>3, <2>6, <2>7
<1>10. \A i \in Nat : i \in T
  <2> HIDE DEF T
  <2>1. \A i \in Nat : i \in T => i + 1 \in T
    BY <1>9, Zenon
  <2> QED
    BY <1>8, <2>1, SetInduction, Zenon
<1>11. claim(n)
  BY <1>1, <1>10
<1> QED
  BY <1>6, <1>11 DEF e, bad

(* The query of a call: its path, and its numbers each behind an ampersand *)
QueryIs(Q, e, keys, nums) ==
    /\ IsText(Q) /\ IsText(e) /\ Len(keys) \in 0 .. 2 /\ Len(Q) = (2 + Len(e)) + 4 * Len(keys)
    /\ Q[1] = "path" /\ Q[2] = "eq" /\ Has(Q, 2, e)
    /\ \A i \in 1 .. Len(keys) : LET b == (2 + Len(e)) + 4 * (i - 1) IN
          Q[b + 1] = "amp" /\ Q[b + 2] = keys[i] /\ Q[b + 3] = "eq" /\ Q[b + 4] = nums[i]
    /\ \A j \in 1 .. Len(e) : e[j] # "amp"
    /\ \A i \in 1 .. Len(keys) : keys[i] \notin {"amp", "path"} /\ nums[i] # "amp"
    /\ \A i, j \in 1 .. Len(keys) : keys[i] = keys[j] => i = j

Cuts(Q) == {0, Len(Q) + 1} \cup {i \in DOMAIN Q : Q[i] = "amp"}
NextCut(Q, i) == CHOOSE j \in Cuts(Q) : j > i /\ \A k \in Cuts(Q) : k > i => j <= k

LEMMA SegmentsAre ==
  ASSUME NEW Q
  PROVE  Segments(Q) = {SubSeq(Q, i + 1, NextCut(Q, i) - 1) : i \in Cuts(Q) \ {Len(Q) + 1}}
BY Zenon DEF Segments, Cuts, NextCut

LEMMA NextCutIs ==
  ASSUME NEW Q, IsText(Q), NEW i \in Cuts(Q), i # Len(Q) + 1
  PROVE  /\ i \in 0 .. Len(Q) /\ NextCut(Q, i) \in Cuts(Q) /\ NextCut(Q, i) \in i + 1 .. Len(Q) + 1
         /\ \A k \in Cuts(Q) : k > i => NextCut(Q, i) <= k
<1>1. Len(Q) \in Nat /\ DOMAIN Q = 1 .. Len(Q)
  BY DEF IsText
<1>2. Cuts(Q) \subseteq 0 .. Len(Q) + 1 /\ Len(Q) + 1 \in Cuts(Q)
  BY <1>1 DEF Cuts
<1> DEFINE T == {k \in Cuts(Q) : k > i}
<1>3. T \subseteq Nat /\ T # {}
  BY <1>1, <1>2
<1>4. \E j \in T : \A k \in T : j <= k
  <2> HIDE DEF T
  <2> QED
    BY <1>3, LeastNumber
<1>5. \E j \in Cuts(Q) : j > i /\ \A k \in Cuts(Q) : k > i => j <= k
  BY <1>4
<1>6. NextCut(Q, i) \in Cuts(Q) /\ NextCut(Q, i) > i /\ \A k \in Cuts(Q) : k > i => NextCut(Q, i) <= k
  <2> DEFINE c == CHOOSE j \in Cuts(Q) : j > i /\ \A k \in Cuts(Q) : k > i => j <= k
  <2>1. c \in Cuts(Q) /\ c > i /\ \A k \in Cuts(Q) : k > i => c <= k
    BY <1>5, Zenon
  <2> QED
    BY <2>1, Zenon DEF NextCut
<1> QED
  BY <1>1, <1>2, <1>6

(* The segment between two cuts is the only one of its key. *)
OnlySegment(Q, key, c0, c1) ==
    /\ IsText(Q) /\ c0 \in Cuts(Q) /\ c1 \in Cuts(Q) /\ c0 + 3 <= c1 /\ c0 \in 0 .. Len(Q)
    /\ Q[c0 + 1] = key /\ Q[c0 + 2] = "eq"
    /\ \A k \in Cuts(Q) : k <= c0 \/ c1 <= k
    /\ \A k \in Cuts(Q) : k # c0 /\ k < Len(Q) => Q[k + 1] # key

LEMMA ValueFound ==
  ASSUME NEW Q, NEW key, NEW c0, NEW c1, OnlySegment(Q, key, c0, c1), NEW size,
         NEW v, IsText(v), Len(v) = c1 - (c0 + 3), Has(Q, c0 + 2, v)
  PROVE  query_value(Q, key, size) = IF Len(v) + 1 > RawUriSize THEN Failed ELSE url_decode(v, size)
<1>1. Len(Q) \in Nat /\ DOMAIN Q = 1 .. Len(Q) /\ Cuts(Q) \subseteq 0 .. Len(Q) + 1 /\ IsText(Q)
  <2>1. IsText(Q)
    BY DEF OnlySegment
  <2>2. Len(Q) \in Nat /\ DOMAIN Q = 1 .. Len(Q)
    BY <2>1 DEF IsText
  <2> QED
    BY <2>1, <2>2 DEF Cuts
<1>2. /\ c0 \in Cuts(Q) /\ c1 \in Cuts(Q) /\ c0 + 3 <= c1 /\ c0 \in 0 .. Len(Q) /\ c1 \in 0 .. Len(Q) + 1
      /\ Q[c0 + 1] = key /\ Q[c0 + 2] = "eq"
      /\ \A k \in Cuts(Q) : k <= c0 \/ c1 <= k
      /\ \A k \in Cuts(Q) : k # c0 /\ k < Len(Q) => Q[k + 1] # key
  BY <1>1 DEF OnlySegment
<1> DEFINE seg(i) == SubSeq(Q, i + 1, NextCut(Q, i) - 1)
           is(s) == Len(s) >= 2 /\ s[1] = key /\ s[2] = "eq"
           found == {s \in Segments(Q) : is(s)}
           X == {Q[j] : j \in 1 .. Len(Q)}
<1>3. Q \in Seq(X)
  BY DEF IsText, OnlySegment
<1> HIDE DEF X
<1>4. ASSUME NEW i \in Cuts(Q), i # Len(Q) + 1
      PROVE  /\ seg(i) \in Seq(X) /\ Len(seg(i)) = (NextCut(Q, i) - 1) - i
             /\ \A j \in 1 .. Len(seg(i)) : seg(i)[j] = Q[i + j]
             /\ i \in 0 .. Len(Q) /\ NextCut(Q, i) \in i + 1 .. Len(Q) + 1
  <2> DEFINE n == NextCut(Q, i)
  <2>1. i \in 0 .. Len(Q) /\ n \in i + 1 .. Len(Q) + 1
    BY <1>1, <1>4, NextCutIs
  <2> HIDE DEF n
  <2>2. i + 1 \in 1 .. Len(Q) + 1 /\ n - 1 \in i .. Len(Q)
    BY <1>1, <2>1
  <2>3. /\ SubSeq(Q, i + 1, n - 1) \in Seq(X) /\ Len(SubSeq(Q, i + 1, n - 1)) = (n - 1) - i
        /\ \A j \in 1 .. (n - 1) - i : SubSeq(Q, i + 1, n - 1)[j] = Q[i + j]
    <3> DEFINE a == i + 1
               m == n - 1
    <3>1. /\ a \in 1 .. Len(Q) + 1 /\ m \in (a - 1) .. Len(Q) /\ (m - a) + 1 = (n - 1) - i
          /\ \A j \in 1 .. (n - 1) - i : (a + j) - 1 = i + j
      BY <1>1, <2>1, <2>2
    <3> HIDE DEF a, m
    <3>2. /\ SubSeq(Q, a, m) \in Seq(X) /\ Len(SubSeq(Q, a, m)) = (m - a) + 1
          /\ \A j \in 1 .. (m - a) + 1 : SubSeq(Q, a, m)[j] = Q[(a + j) - 1]
      BY <1>1, <1>3, <3>1
    <3>3. /\ SubSeq(Q, a, m) \in Seq(X) /\ Len(SubSeq(Q, a, m)) = (n - 1) - i
          /\ \A j \in 1 .. (n - 1) - i : SubSeq(Q, a, m)[j] = Q[i + j]
      BY <3>1, <3>2
    <3> QED
      BY <3>3 DEF a, m
  <2> QED
    BY <2>1, <2>3 DEF n
<1>5. c0 # Len(Q) + 1 /\ NextCut(Q, c0) = c1
  <2>1. c0 # Len(Q) + 1
    BY <1>1, <1>2
  <2>2. NextCut(Q, c0) \in Cuts(Q) /\ NextCut(Q, c0) \in c0 + 1 .. Len(Q) + 1
        /\ \A k \in Cuts(Q) : k > c0 => NextCut(Q, c0) <= k
    BY <1>1, <1>2, <2>1, NextCutIs
  <2>3. NextCut(Q, c0) <= c1
    BY <1>1, <1>2, <2>2
  <2>4. c1 <= NextCut(Q, c0)
    BY <1>1, <1>2, <2>2
  <2> QED
    BY <1>1, <1>2, <2>1, <2>2, <2>3, <2>4
<1> DEFINE s0 == seg(c0)
<1>6. /\ s0 \in Seq(X) /\ Len(s0) = (c1 - 1) - c0 /\ \A j \in 1 .. Len(s0) : s0[j] = Q[c0 + j]
  BY <1>2, <1>4, <1>5
<1>7. s0 \in Segments(Q)
  BY <1>2, <1>5, SegmentsAre
<1>8. ASSUME NEW i \in Cuts(Q), i # Len(Q) + 1, is(seg(i))
      PROVE  i = c0
  <2> DEFINE g == seg(i)
  <2>1. /\ Len(g) = (NextCut(Q, i) - 1) - i /\ (\A j \in 1 .. Len(g) : g[j] = Q[i + j])
        /\ i \in 0 .. Len(Q) /\ NextCut(Q, i) \in i + 1 .. Len(Q) + 1 /\ Len(g) >= 2 /\ g[1] = key
    BY <1>4, <1>8
  <2> HIDE DEF g
  <2>2. i < Len(Q) /\ 1 \in 1 .. Len(g)
    BY <1>1, <2>1
  <2>3. Q[i + 1] = key
    BY <2>1, <2>2
  <2> QED
    BY <1>2, <1>8, <2>2, <2>3
<1> HIDE DEF seg
<1>9. is(s0)
  <2> HIDE DEF s0
  <2>1. Len(s0) >= 2 /\ 1 \in 1 .. Len(s0) /\ 2 \in 1 .. Len(s0)
    BY <1>1, <1>2, <1>6
  <2> QED
    BY <1>2, <1>6, <2>1
<1>10. found = {s0}
  <2>1. ASSUME NEW s \in Segments(Q), is(s)
        PROVE  s = s0
    <3>1. PICK i \in Cuts(Q) \ {Len(Q) + 1} : s = seg(i)
      BY SegmentsAre, Zenon DEF seg
    <3>2. i = c0
      BY <1>8, <2>1, <3>1, Zenon
    <3> QED
      BY <3>1, <3>2, Zenon
  <2> HIDE DEF is
  <2> QED
    BY <1>7, <1>9, <2>1, Zenon
<1> DEFINE enc(s) == SubSeq(s, 3, Len(s))
<1>11. query_value(Q, key, size) = IF found = {} THEN Failed
            ELSE IF Len(enc(CHOOSE s \in found : TRUE)) + 1 > RawUriSize THEN Failed
                 ELSE url_decode(enc(CHOOSE s \in found : TRUE), size)
  BY Zenon DEF query_value
<1> HIDE DEF found, s0
<1>12. found # {} /\ (CHOOSE s \in found : TRUE) = s0
  BY <1>10
<1>13. enc(s0) = v
  <2>1. Len(v) \in Nat /\ v \in Seq({v[j] : j \in 1 .. Len(v)})
    BY DEF IsText
  <2>2. Len(s0) = Len(v) + 2 /\ Len(s0) \in Nat
    BY <1>1, <1>2, <1>6, <2>1
  <2>3. /\ SubSeq(s0, 3, Len(s0)) \in Seq(X) /\ Len(SubSeq(s0, 3, Len(s0))) = Len(v)
        /\ \A j \in 1 .. Len(v) : SubSeq(s0, 3, Len(s0))[j] = s0[2 + j]
    BY <1>6, <2>1, <2>2
  <2>4. ASSUME NEW j \in 1 .. Len(v)
        PROVE  s0[2 + j] = v[j]
    <3>1. 2 + j \in 1 .. Len(s0) /\ c0 + (2 + j) = (c0 + 2) + j
      BY <1>1, <1>2, <2>1, <2>2
    <3>2. Q[(c0 + 2) + j] = v[j]
      BY DEF Has
    <3> QED
      BY <1>6, <3>1, <3>2
  <2> DEFINE w == SubSeq(s0, 3, Len(s0))
  <2>5. w \in Seq(X) /\ Len(w) = Len(v) /\ \A j \in 1 .. Len(v) : w[j] = v[j]
    BY <2>3, <2>4
  <2> HIDE DEF w
  <2>6. w = v
    BY <2>1, <2>5
  <2> QED
    BY <2>6 DEF w
<1> HIDE DEF enc
<1> QED
  BY <1>11, <1>12, <1>13, Zenon

QueryParts(Q, e, keys, nums, b, K) ==
    /\ IsText(Q) /\ Len(Q) \in Nat /\ Len(e) \in Nat /\ IsText(e) /\ K \in 0 .. 2 /\ Has(Q, 2, e)
    /\ b = 2 + Len(e) /\ Len(Q) = b + 4 * K /\ Q[1] = "path" /\ Q[2] = "eq"
    /\ K >= 1 => /\ Q[b + 1] = "amp" /\ Q[b + 2] = keys[1] /\ Q[b + 3] = "eq" /\ Q[b + 4] = nums[1]
                 /\ keys[1] # "path"
    /\ K = 2 => /\ Q[b + 5] = "amp" /\ Q[b + 6] = keys[2] /\ Q[b + 7] = "eq" /\ Q[b + 8] = nums[2]
                /\ keys[2] # "path" /\ keys[2] # keys[1]
    /\ \A k : k \in Cuts(Q) <=> \/ k = 0 \/ k = Len(Q) + 1 \/ (K >= 1 /\ k = b + 1)
                               \/ (K = 2 /\ k = b + 5)

LEMMA QueryCuts ==
  ASSUME NEW Q, NEW e, NEW keys, NEW nums, QueryIs(Q, e, keys, nums)
  PROVE  QueryParts(Q, e, keys, nums, 2 + Len(e), Len(keys))
<1> DEFINE b == 2 + Len(e)
<1> DEFINE K == Len(keys)
<1>0. IsText(Q) /\ IsText(e)
  BY DEF QueryIs
<1>1. Len(Q) \in Nat /\ Len(e) \in Nat /\ DOMAIN Q = 1 .. Len(Q)
  BY <1>0 DEF IsText
<1>2. K \in 0 .. 2 /\ Has(Q, 2, e) /\ Len(Q) = b + 4 * K /\ Q[1] = "path" /\ Q[2] = "eq" /\ b \in Nat
  BY <1>1 DEF QueryIs
<1>9. b = 2 + Len(e)
  OBVIOUS
<1> HIDE DEF K, b
<1>3. ASSUME NEW i \in 1 .. K
      PROVE  /\ Q[(b + 4 * (i - 1)) + 1] = "amp" /\ Q[(b + 4 * (i - 1)) + 2] = keys[i]
             /\ Q[(b + 4 * (i - 1)) + 3] = "eq" /\ Q[(b + 4 * (i - 1)) + 4] = nums[i]
             /\ keys[i] # "amp" /\ keys[i] # "path" /\ nums[i] # "amp"
  BY DEF QueryIs, K, b
<1>4. K >= 1 => /\ Q[b + 1] = "amp" /\ Q[b + 2] = keys[1] /\ Q[b + 3] = "eq" /\ Q[b + 4] = nums[1]
                /\ keys[1] # "amp" /\ keys[1] # "path" /\ nums[1] # "amp"
  <2> SUFFICES ASSUME K >= 1 PROVE Q[b + 1] = "amp" /\ Q[b + 2] = keys[1] /\ Q[b + 3] = "eq" /\ Q[b + 4] = nums[1]
                /\ keys[1] # "amp" /\ keys[1] # "path" /\ nums[1] # "amp"
    OBVIOUS
  <2>1. 1 \in 1 .. K /\ b + 4 * (1 - 1) = b
    BY <1>2
  <2> QED
    BY <1>3, <2>1
<1>5. K = 2 => /\ Q[b + 5] = "amp" /\ Q[b + 6] = keys[2] /\ Q[b + 7] = "eq" /\ Q[b + 8] = nums[2]
               /\ keys[2] # "amp" /\ keys[2] # "path" /\ nums[2] # "amp" /\ keys[2] # keys[1]
  <2> SUFFICES ASSUME K = 2 PROVE Q[b + 5] = "amp" /\ Q[b + 6] = keys[2] /\ Q[b + 7] = "eq" /\ Q[b + 8] = nums[2]
               /\ keys[2] # "amp" /\ keys[2] # "path" /\ nums[2] # "amp" /\ keys[2] # keys[1]
    OBVIOUS
  <2>1. 2 \in 1 .. K /\ b + 4 * (2 - 1) = b + 4 /\ (b + 4) + 1 = b + 5 /\ (b + 4) + 2 = b + 6
        /\ (b + 4) + 3 = b + 7 /\ (b + 4) + 4 = b + 8
    BY <1>2
  <2>2. keys[2] # keys[1]
    BY DEF QueryIs, K
  <2>3. /\ Q[(b + 4) + 1] = "amp" /\ Q[(b + 4) + 2] = keys[2]
             /\ Q[(b + 4) + 3] = "eq" /\ Q[(b + 4) + 4] = nums[2]
             /\ keys[2] # "amp" /\ keys[2] # "path" /\ nums[2] # "amp"
    BY <1>3, <2>1
  <2> QED
    BY <2>1, <2>2, <2>3
<1>6. ASSUME NEW k \in 3 .. b
      PROVE  Q[k] # "amp"
  <2>1. k - 2 \in 1 .. Len(e) /\ 2 + (k - 2) = k
    BY <1>1, <1>2, <1>9
  <2>2. Q[2 + (k - 2)] = e[k - 2]
    BY <1>2, <2>1 DEF Has
  <2>3. e[k - 2] # "amp"
    BY <2>1 DEF QueryIs
  <2> QED
    BY <2>1, <2>2, <2>3
<1>7. ASSUME NEW k \in 1 .. Len(Q), Q[k] = "amp"
      PROVE  (K >= 1 /\ k = b + 1) \/ (K = 2 /\ k = b + 5)
  <2>1. k # 1 /\ k # 2 /\ k \notin 3 .. b
    BY <1>2, <1>6, <1>7
  <2>2. k > b /\ K >= 1
    BY <1>1, <1>2, <2>1
  <2>3. k # b + 2 /\ k # b + 4
    BY <1>4, <1>7, <2>2
  <2>4. k # b + 3
    BY <1>4, <1>7, <2>2
  <2>5. CASE K = 2
    <3>1. k # b + 6 /\ k # b + 8 /\ k # b + 7
      BY <1>5, <1>7, <2>5
    <3> QED
      BY <1>1, <1>2, <2>2, <2>3, <2>4, <2>5, <3>1
  <2> QED
    BY <1>1, <1>2, <2>2, <2>3, <2>4, <2>5
<1>8. ASSUME NEW k
      PROVE  k \in Cuts(Q) <=> \/ k = 0 \/ k = Len(Q) + 1 \/ (K >= 1 /\ k = b + 1) \/ (K = 2 /\ k = b + 5)
  <2>1. k \in Cuts(Q) <=> k = 0 \/ k = Len(Q) + 1 \/ (k \in 1 .. Len(Q) /\ Q[k] = "amp")
    BY <1>1 DEF Cuts
  <2>2. K >= 1 => b + 1 \in 1 .. Len(Q)
    BY <1>1, <1>2
  <2>3. K = 2 => b + 5 \in 1 .. Len(Q)
    BY <1>1, <1>2
  <2> QED
    BY <1>4, <1>5, <1>7, <2>1, <2>2, <2>3, Zenon
<1>10. QueryParts(Q, e, keys, nums, b, K)
  BY <1>0, <1>1, <1>2, <1>4, <1>5, <1>8, <1>9, Zenon DEF QueryParts
<1> QED
  BY <1>10 DEF K, b

(* query_value finds the path, ... *)
LEMMA QueryPath ==
  ASSUME NEW Q, NEW e, NEW keys, NEW nums, QueryIs(Q, e, keys, nums), NEW size
  PROVE  query_value(Q, "path", size) = IF Len(e) + 1 > RawUriSize THEN Failed ELSE url_decode(e, size)
<1> DEFINE b == 2 + Len(e)
           K == Len(keys)
<1>1. /\ IsText(Q) /\ Len(Q) \in Nat /\ Len(e) \in Nat /\ IsText(e) /\ K \in 0 .. 2 /\ Has(Q, 2, e)
      /\ Len(Q) = b + 4 * K /\ Q[1] = "path" /\ Q[2] = "eq"
      /\ K >= 1 => Q[b + 2] = keys[1] /\ keys[1] # "path"
      /\ K = 2 => Q[b + 6] = keys[2] /\ keys[2] # "path"
      /\ \A k : k \in Cuts(Q) <=> \/ k = 0 \/ k = Len(Q) + 1 \/ (K >= 1 /\ k = b + 1)
                                     \/ (K = 2 /\ k = b + 5)
  <2>1. QueryParts(Q, e, keys, nums, b, K)
    BY QueryCuts
  <2> HIDE DEF b, K
  <2> QED
    BY <2>1, Zenon DEF QueryParts
<1>2. b \in Nat /\ b = 2 + Len(e)
  BY <1>1
<1> HIDE DEF b, K
<1>3. 0 \in Cuts(Q) /\ b + 1 \in Cuts(Q)
  <2>1. K >= 1 \/ b + 1 = Len(Q) + 1
    BY <1>1, <1>2
  <2> QED
    BY <1>1, <2>1
<1>4. ASSUME NEW k \in Cuts(Q)
      PROVE  (k <= 0 \/ b + 1 <= k) /\ (k # 0 /\ k < Len(Q) => Q[k + 1] # "path")
  <2>1. CASE k = 0
    BY <2>1
  <2>2. CASE k = Len(Q) + 1
    BY <1>1, <1>2, <2>2
  <2>3. CASE K >= 1 /\ k = b + 1
    <3>1. k + 1 = b + 2
      BY <1>2, <2>3
    <3> QED
      BY <1>1, <1>2, <2>3, <3>1
  <2>4. CASE K = 2 /\ k = b + 5
    <3>1. k + 1 = b + 6
      BY <1>2, <2>4
    <3> QED
      BY <1>1, <1>2, <2>4, <3>1
  <2> QED
    BY <1>1, <2>1, <2>2, <2>3, <2>4
<1>5. OnlySegment(Q, "path", 0, b + 1)
  <2>1. 0 + 1 = 1 /\ 0 + 2 = 2 /\ 0 + 3 <= b + 1 /\ 0 \in 0 .. Len(Q)
    BY <1>1, <1>2
  <2> QED
    BY <1>1, <1>3, <1>4, <2>1 DEF OnlySegment
<1>6. Len(e) = (b + 1) - (0 + 3) /\ 0 + 2 = 2
  BY <1>1, <1>2
<1>7. Has(Q, 0 + 2, e)
  BY <1>1, <1>6
<1> QED
  BY <1>1, <1>5, <1>6, <1>7, ValueFound

(* ... and each number. *)
LEMMA QueryNumber ==
  ASSUME NEW Q, NEW e, NEW keys, NEW nums, QueryIs(Q, e, keys, nums), NEW size, NEW i \in 1 .. Len(keys),
         RawUriSize \in Nat, RawUriSize >= 2
  PROVE  query_value(Q, keys[i], size) = url_decode(<<nums[i]>>, size)
<1> DEFINE b == 2 + Len(e)
           K == Len(keys)
<1>1. /\ IsText(Q) /\ Len(Q) \in Nat /\ Len(e) \in Nat /\ K \in 0 .. 2
      /\ Len(Q) = b + 4 * K /\ Q[1] = "path" /\ Q[2] = "eq"
      /\ K >= 1 => Q[b + 1] = "amp" /\ Q[b + 2] = keys[1] /\ Q[b + 3] = "eq" /\ Q[b + 4] = nums[1] /\ keys[1] # "path"
      /\ K = 2 => Q[b + 5] = "amp" /\ Q[b + 6] = keys[2] /\ Q[b + 7] = "eq" /\ Q[b + 8] = nums[2]
                             /\ keys[2] # "path" /\ keys[2] # keys[1]
      /\ \A k : k \in Cuts(Q) <=> \/ k = 0 \/ k = Len(Q) + 1 \/ (K >= 1 /\ k = b + 1)
                                     \/ (K = 2 /\ k = b + 5)
  <2>1. QueryParts(Q, e, keys, nums, b, K)
    BY QueryCuts
  <2> HIDE DEF b, K
  <2> QED
    BY <2>1, Zenon DEF QueryParts
<1>2. b \in Nat /\ b >= 2
  BY <1>1
<1>20. i \in 1 .. K
  OBVIOUS
<1> HIDE DEF b, K
<1> DEFINE c0 == IF i = 1 THEN b + 1 ELSE b + 5
           c1 == IF i = 1 THEN b + 5 ELSE b + 9
           key == keys[i]
<1>3. i \in 1 .. K /\ (i = 1 \/ (i = 2 /\ K = 2)) /\ K >= 1
  BY <1>1, <1>20
<1>4. c0 \in Cuts(Q) /\ c1 \in Cuts(Q) /\ c0 \in 0 .. Len(Q) /\ c0 + 3 <= c1 /\ c0 \in Nat /\ c1 = c0 + 4
  <2>1. CASE i = 1
    <3>1. K = 2 \/ b + 5 = Len(Q) + 1
      BY <1>1, <1>2, <1>3
    <3>2. b + 1 \in Cuts(Q) /\ b + 5 \in Cuts(Q)
      BY <1>1, <1>3, <3>1
    <3> QED
      BY <1>1, <1>2, <1>3, <2>1, <3>2
  <2>2. CASE i = 2 /\ K = 2
    <3>1. b + 9 = Len(Q) + 1
      BY <1>1, <1>2, <2>2
    <3>2. b + 5 \in Cuts(Q) /\ b + 9 \in Cuts(Q)
      BY <1>1, <2>2, <3>1
    <3> QED
      BY <1>1, <1>2, <1>3, <2>2, <3>2
  <2> QED
    BY <1>3, <2>1, <2>2
<1>5. Q[c0 + 1] = key /\ Q[c0 + 2] = "eq" /\ Q[c0 + 3] = nums[i] /\ key # "path"
  <2>1. CASE i = 1
    <3>1. c0 + 1 = b + 2 /\ c0 + 2 = b + 3 /\ c0 + 3 = b + 4
      BY <1>2, <2>1
    <3> QED
      BY <1>1, <1>3, <2>1, <3>1
  <2>2. CASE i = 2 /\ K = 2
    <3>1. c0 + 1 = b + 6 /\ c0 + 2 = b + 7 /\ c0 + 3 = b + 8
      BY <1>2, <2>2
    <3> QED
      BY <1>1, <2>2, <3>1
  <2> QED
    BY <1>3, <2>1, <2>2
<1>6. ASSUME NEW k \in Cuts(Q)
      PROVE  (k <= c0 \/ c1 <= k) /\ (k # c0 /\ k < Len(Q) => Q[k + 1] # key)
  <2>1. CASE k = 0
    <3>1. 0 <= c0 /\ 0 + 1 = 1
      BY <1>4
    <3> QED
      BY <1>1, <1>5, <2>1, <3>1
  <2>2. CASE k = Len(Q) + 1
    <3>1. c1 <= Len(Q) + 1 /\ ~(Len(Q) + 1 < Len(Q))
      BY <1>1, <1>2, <1>3
    <3> QED
      BY <2>2, <3>1
  <2>3. CASE K >= 1 /\ k = b + 1
    <3>1. k <= c0 /\ k + 1 = b + 2
      BY <1>2, <2>3
    <3>2. k # c0 => i = 2 /\ K = 2
      BY <1>3, <2>3
    <3> QED
      BY <1>1, <1>2, <2>3, <3>1, <3>2
  <2>4. CASE K = 2 /\ k = b + 5
    <3>1. (k <= c0 \/ c1 <= k) /\ k + 1 = b + 6
      BY <1>2, <1>3, <2>4
    <3>2. k # c0 => i = 1
      BY <1>3, <2>4
    <3> QED
      BY <1>1, <1>2, <2>4, <3>1, <3>2
  <2> QED
    BY <1>1, <2>1, <2>2, <2>3, <2>4
<1> HIDE DEF c0, c1, key
<1>7. OnlySegment(Q, key, c0, c1)
  BY <1>1, <1>4, <1>5, <1>6 DEF OnlySegment
<1> DEFINE v == <<nums[i]>>
<1>8. IsText(v) /\ Len(v) = 1 /\ v[1] = nums[i]
  BY WordText
<1> HIDE DEF v
<1>9. Len(v) = c1 - (c0 + 3)
  BY <1>4, <1>8
<1>10. Has(Q, c0 + 2, v)
  <2>1. (c0 + 2) + 1 = c0 + 3 /\ c0 + 3 <= Len(Q)
    BY <1>1, <1>2, <1>3, <1>4 DEF c0
  <2> QED
    BY <1>5, <1>8, <2>1 DEF Has
<1>11. query_value(Q, key, size) = IF Len(v) + 1 > RawUriSize THEN Failed ELSE url_decode(v, size)
  BY <1>7, <1>8, <1>9, <1>10, ValueFound
<1> QED
  BY <1>8, <1>11 DEF v, key

-----------------------------------------------------------------------------
(* strstr and the layout of a query *)

LEMMA SubSeqHas ==
  ASSUME NEW text, IsText(text), NEW v, IsText(v), NEW n \in Nat, n + Len(v) <= Len(text),
         SubSeq(text, n + 1, n + Len(v)) = v
  PROVE  Has(text, n, v)
<1>1. Len(v) \in Nat /\ Len(text) \in Nat
  BY DEF IsText
<1> DEFINE X == {text[i] : i \in 1 .. Len(text)}
           u == SubSeq(text, n + 1, n + Len(v))
<1>2. text \in Seq(X)
  BY DEF IsText
<1> HIDE DEF X
<1>3. \A i \in 1 .. Len(v) : u[i] = text[n + i]
  BY <1>1, <1>2
<1> HIDE DEF u
<1>4. u = v
  BY DEF u
<1> QED
  BY <1>1, <1>3, <1>4 DEF Has

(* EndOfFirst finds the first place where a text has a pattern. *)
LEMMA FirstEnd ==
  ASSUME NEW text, IsText(text), NEW pat, IsText(pat), NEW n \in Nat, Has(text, n, pat),
         Len(pat) # 0, \A m \in Nat : m < n => ~Has(text, m, pat)
  PROVE  EndOfFirst(text, pat) = n + Len(pat)
<1> DEFINE L == Len(pat)
           ends == {i \in L .. Len(text) : SubSeq(text, (i - L) + 1, i) = pat}
           e == n + L
<1>1. L \in Nat /\ L # 0 /\ Len(text) \in Nat /\ e <= Len(text)
  BY DEF IsText, Has
<1> HIDE DEF L
<1>2. e \in ends
  <2>1. e \in L .. Len(text) /\ (e - L) + 1 = n + 1
    BY <1>1
  <2>2. SubSeq(text, n + 1, e) = pat
    BY HasSubSeq DEF L
  <2> QED
    BY <2>1, <2>2
<1>3. ASSUME NEW i \in ends
      PROVE  e <= i
  <2> DEFINE m == i - L
  <2>1. m \in Nat /\ m + L = i /\ m + L <= Len(text) /\ i \in Nat
    BY <1>1
  <2>2. SubSeq(text, m + 1, i) = pat
    OBVIOUS
  <2> HIDE DEF m
  <2>3. SubSeq(text, m + 1, m + L) = pat
    BY <2>1, <2>2
  <2>4. Has(text, m, pat)
    BY <2>1, <2>3, SubSeqHas DEF L
  <2>5. ~(m < n)
    BY <2>1, <2>4
  <2> QED
    BY <1>1, <2>1, <2>5
<1>4. ends \subseteq Nat /\ e \in Nat
  BY <1>1
<1>5. EndOfFirst(text, pat) = IF ends = {} THEN 0 ELSE CHOOSE i \in ends : \A j \in ends : i <= j
  BY DEF EndOfFirst, L
<1> HIDE DEF ends, e
<1>6. ASSUME NEW i \in ends, \A j \in ends : i <= j
      PROVE  i = e
  <2>1. i <= e /\ e <= i /\ i \in Nat
    BY <1>2, <1>3, <1>4, <1>6
  <2> QED
    BY <1>4, <2>1
<1>7. (CHOOSE i \in ends : \A j \in ends : i <= j) = e
  BY <1>2, <1>3, <1>6, Zenon
<1>8. ends # {}
  BY <1>2
<1> QED
  BY <1>5, <1>7, <1>8 DEF e, L

LEMMA FourText ==
  ASSUME NEW a, NEW b, NEW c, NEW d
  PROVE  /\ IsText(<<a, b, c, d>>) /\ Len(<<a, b, c, d>>) = 4
         /\ <<a, b, c, d>>[1] = a /\ <<a, b, c, d>>[2] = b /\ <<a, b, c, d>>[3] = c /\ <<a, b, c, d>>[4] = d
<1>1. <<a, b, c, d>> \in Seq({a, b, c, d})
  OBVIOUS
<1> QED
  BY <1>1, SeqIsText

LEMMA ThreeText ==
  ASSUME NEW a, NEW b, NEW c
  PROVE  /\ IsText(<<a, b, c>>) /\ Len(<<a, b, c>>) = 3
         /\ <<a, b, c>>[1] = a /\ <<a, b, c>>[2] = b /\ <<a, b, c>>[3] = c
<1>1. <<a, b, c>> \in Seq({a, b, c})
  OBVIOUS
<1> QED
  BY <1>1, SeqIsText

GoodCall(c) ==
    /\ IsText(c.path) /\ Len(c.path) # 0 /\ IsText(c.nums) /\ Len(c.nums) = Len(Keys(c.op))
    /\ \A i \in 1 .. Len(c.nums) : c.nums[i] \in Digit

NumberText(c, i) == <<"amp", Keys(c.op)[i], "eq", c.nums[i]>>

(* Four symbols for each number *)
LEMMA NumbersText ==
  ASSUME NEW c, GoodCall(c)
  PROVE  /\ IsText(QueryNumbers(c)) /\ (Len(c.nums) <= 2 => Len(QueryNumbers(c)) = 4 * Len(c.nums))
         /\ \A i \in 1 .. Len(c.nums) : i <= 2 => Has(QueryNumbers(c), 4 * (i - 1), NumberText(c, i))
<1> DEFINE K == Len(c.nums)
           s == [i \in DOMAIN c.nums |-> NumberText(c, i)]
           N == QueryNumbers(c)
<1>1. K \in Nat /\ DOMAIN c.nums = 1 .. K
  BY DEF GoodCall, IsText
<1>2. N = FlattenSeq(s)
  BY Zenon DEF QueryNumbers, NumberText
<1>3. Len(s) = K /\ DOMAIN s = 1 .. K /\ \A i \in 1 .. K : s[i] = NumberText(c, i)
  BY <1>1
<1>4. \A i \in 1 .. K : IsText(NumberText(c, i)) /\ Len(NumberText(c, i)) = 4
  BY FourText, Zenon DEF NumberText
<1>5. CASE K = 0
  <2>1. s = <<>>
    BY <1>1, <1>5
  <2>2. N = s
    BY <1>2, <1>3, <1>5 DEF FlattenSeq
  <2> QED
    BY <1>5, <2>1, <2>2, EmptyText
<1> HIDE DEF s, N, K
<1>6. CASE K # 0
  <2>1. \A i \in 1 .. Len(s) : IsText(s[i]) /\ Len(s[i]) = 4
    BY <1>3, <1>4
  <2>2. IsText(N) /\ Len(N) \in Nat
    <3>1. IsText(N)
      BY <1>1, <1>2, <1>3, <1>6, <2>1, FlattenText
    <3> QED
      BY <3>1 DEF IsText
  <2>3. Has(N, 0, FlattenSeq(s))
    BY <1>2, <2>2 DEF Has
  <2>4. \E off : Laid(N, s, 0, off)
    BY <1>1, <1>3, <1>6, <2>1, <2>2, <2>3, FlattenHas
  <2>5. PICK off : Laid(N, s, 0, off)
    BY <2>4
  <2>6. /\ off[0] = 0 /\ off[K] = Len(N)
        /\ \A i \in 1 .. K : Has(N, off[i - 1], s[i]) /\ off[i] = off[i - 1] + Len(s[i])
    BY <1>1, <1>2, <1>3, <2>2, <2>5 DEF Laid
  <2>7. 1 \in 1 .. K /\ 1 - 1 = 0 /\ 2 - 1 = 1 /\ 4 * 0 = 0 /\ 4 * 1 = 4 /\ (K >= 2 => 2 \in 1 .. K)
    BY <1>1, <1>6
  <2>8. Has(N, 0, s[1]) /\ off[1] = 4
    <3>1. Has(N, off[1 - 1], s[1]) /\ off[1] = off[1 - 1] + Len(s[1]) /\ Len(s[1]) = 4
      BY <1>3, <2>1, <2>6, <2>7
    <3> QED
      BY <2>6, <2>7, <3>1
  <2>9. K >= 2 => Has(N, 4, s[2]) /\ off[2] = 8
    <3>1. K >= 2 => Has(N, off[2 - 1], s[2]) /\ off[2] = off[2 - 1] + Len(s[2]) /\ Len(s[2]) = 4
      BY <1>3, <2>1, <2>6, <2>7
    <3>2. off[2 - 1] = 4
      BY <2>7, <2>8
    <3>3. ASSUME K >= 2 PROVE Has(N, 4, s[2])
      BY <3>1, <3>2, <3>3
    <3>4. ASSUME K >= 2 PROVE off[2] = 8
      <4>1. off[2] = 4 + 4
        BY <3>1, <3>2, <3>4, Zenon
      <4> QED
        BY <4>1
    <3> QED
      BY <3>3, <3>4
  <2>10. K <= 2 => Len(N) = 4 * K
    BY <1>1, <1>6, <2>6, <2>8, <2>9
  <2>11. ASSUME NEW i \in 1 .. K, i <= 2
         PROVE  Has(N, 4 * (i - 1), NumberText(c, i))
    <3>1. CASE i = 1
      BY <1>3, <2>7, <2>8, <3>1
    <3>2. CASE i = 2
      BY <1>1, <1>3, <2>7, <2>9, <3>2
    <3> QED
      BY <1>1, <2>11, <3>1, <3>2
  <2> QED
    BY <2>2, <2>10, <2>11 DEF N, K
<1> QED
  BY <1>5, <1>6

LEMMA KeysOfQuery ==
  ASSUME NEW op \in Query
  PROVE  /\ Len(Keys(op)) \in 0 .. 2 /\ op \notin Blank /\ op # "qm"
         /\ \A i \in 1 .. Len(Keys(op)) : Keys(op)[i] \notin {"amp", "path"} \cup Blank
         /\ \A i, j \in 1 .. Len(Keys(op)) : Keys(op)[i] = Keys(op)[j] => i = j
<1>1. CASE op = "meta"
  BY <1>1 DEF Keys, Blank
<1>2. CASE op = "list"
  BY <1>2 DEF Keys, Blank
<1>3. CASE op = "read"
  <2> DEFINE o == "offset"
             s == "size"
  <2>1. Keys(op) = <<o, s>>
    BY <1>3 DEF Keys
  <2>2. o \notin {"amp", "path"} \cup Blank /\ s \notin {"amp", "path"} \cup Blank /\ o # s
    BY DEF Blank
  <2> HIDE DEF o, s
  <2>3. Len(<<o, s>>) = 2 /\ <<o, s>>[1] = o /\ <<o, s>>[2] = s
    OBVIOUS
  <2>4. op \notin Blank /\ op # "qm"
    BY <1>3 DEF Blank
  <2> QED
    BY <2>1, <2>2, <2>3, <2>4
<1>4. CASE op = "write"
  <2> DEFINE o == "offset"
  <2>1. Keys(op) = <<o>>
    BY <1>4 DEF Keys
  <2>2. o \notin {"amp", "path"} \cup Blank
    BY DEF Blank
  <2> HIDE DEF o
  <2>3. Len(<<o>>) = 1 /\ <<o>>[1] = o
    OBVIOUS
  <2>4. op \notin Blank /\ op # "qm"
    BY <1>4 DEF Blank
  <2> QED
    BY <2>1, <2>2, <2>3, <2>4
<1> QED
  BY <1>1, <1>2, <1>3, <1>4 DEF Query

Joined(c, a, b) ==
    /\ IsText(c) /\ Len(c) = Len(a) + Len(b)
    /\ \A i \in 1 .. Len(a) : c[i] = a[i]
    /\ \A i \in 1 .. Len(b) : c[Len(a) + i] = b[i]

LEMMA ConcatJoined ==
  ASSUME NEW a, NEW b, IsText(a), IsText(b)
  PROVE  Joined(a \o b, a, b)
BY ConcatText DEF Joined

(* Where the parts of an endpoint are *)
EndpointIs(u, op, e, N) ==
    /\ IsText(u) /\ Len(e) \in Nat /\ Len(N) \in Nat /\ Len(u) = (4 + Len(e)) + Len(N)
    /\ u[1] = op /\ u[2] = "qm" /\ u[3] = "path" /\ u[4] = "eq"
    /\ \A j \in 1 .. Len(e) : u[4 + j] = e[j]
    /\ \A j \in 1 .. Len(N) : u[(4 + Len(e)) + j] = N[j]

LEMMA EndpointParts ==
  ASSUME NEW c, GoodCall(c), c.op \in Query
  PROVE  EndpointIs(Endpoint(c), c.op, curl_easy_escape(c.path), QueryNumbers(c))
<1> DEFINE e == curl_easy_escape(c.path)
           N == QueryNumbers(c)
           a == <<"qm", "path", "eq">>
           o == <<c.op>>
           u == o \o ((a \o e) \o N)
<1>0. Endpoint(c) = u
  BY DEF Endpoint
<1>1. IsText(e)
  BY EscapedIs, Zenon DEF GoodCall
<1>2. IsText(N)
  BY NumbersText
<1>3. IsText(a) /\ Len(a) = 3 /\ a[1] = "qm" /\ a[2] = "path" /\ a[3] = "eq"
  BY ThreeText
<1>4. IsText(o) /\ Len(o) = 1 /\ o[1] = c.op
  BY WordText
<1>5. Len(e) \in Nat /\ Len(N) \in Nat
  BY <1>1, <1>2 DEF IsText
<1> HIDE DEF e, N, a, o
<1> DEFINE ae == a \o e
<1>6. /\ IsText(ae) /\ Len(ae) = Len(a) + Len(e) /\ (\A i \in 1 .. Len(a) : ae[i] = a[i])
      /\ \A i \in 1 .. Len(e) : ae[Len(a) + i] = e[i]
  <2>1. Joined(ae, a, e)
    BY <1>1, <1>3, ConcatJoined, Zenon
  <2> HIDE DEF ae
  <2> QED
    BY <2>1, Zenon DEF Joined
<1> HIDE DEF ae
<1> DEFINE x == ae \o N
<1>7. /\ IsText(x) /\ Len(x) = Len(ae) + Len(N) /\ (\A i \in 1 .. Len(ae) : x[i] = ae[i])
      /\ \A i \in 1 .. Len(N) : x[Len(ae) + i] = N[i]
  <2>1. Joined(x, ae, N)
    BY <1>2, <1>6, ConcatJoined, Zenon
  <2> HIDE DEF x
  <2> QED
    BY <2>1, Zenon DEF Joined
<1> HIDE DEF x
<1>8. Joined(o \o x, o, x)
  BY <1>4, <1>7, ConcatJoined, Zenon
<1>9. u = o \o x
  BY DEF x, ae
<1> HIDE DEF u
<1>10. /\ IsText(u) /\ Len(u) = 1 + Len(x) /\ u[1] = c.op /\ (\A i \in 1 .. Len(x) : u[1 + i] = x[i])
  <2>1. Joined(u, o, x)
    BY <1>8, <1>9
  <2> QED
    BY <1>4, <2>1 DEF Joined
<1>11. Len(ae) = 3 + Len(e) /\ Len(x) = (3 + Len(e)) + Len(N)
  BY <1>3, <1>6, <1>7
<1>12. x[1] = "qm" /\ x[2] = "path" /\ x[3] = "eq"
  BY <1>3, <1>5, <1>6, <1>7, <1>11
<1>13. u[2] = "qm" /\ u[3] = "path" /\ u[4] = "eq"
  <2>1. 1 \in 1 .. Len(x) /\ 2 \in 1 .. Len(x) /\ 3 \in 1 .. Len(x) /\ 1 + 1 = 2 /\ 1 + 2 = 3 /\ 1 + 3 = 4
    BY <1>5, <1>11
  <2> QED
    BY <1>10, <1>12, <2>1
<1>14. ASSUME NEW j \in 1 .. Len(e)
       PROVE  u[4 + j] = e[j]
  <2>1. 3 + j \in 1 .. Len(ae) /\ 3 + j \in 1 .. Len(x) /\ 1 + (3 + j) = 4 + j
    BY <1>5, <1>11
  <2>2. ae[3 + j] = e[j]
    BY <1>3, <1>6
  <2> QED
    BY <1>7, <1>10, <2>1, <2>2
<1>15. ASSUME NEW j \in 1 .. Len(N)
       PROVE  u[(4 + Len(e)) + j] = N[j]
  <2>1. (3 + Len(e)) + j \in 1 .. Len(x) /\ 1 + ((3 + Len(e)) + j) = (4 + Len(e)) + j
    BY <1>5, <1>11
  <2>2. x[(3 + Len(e)) + j] = N[j]
    BY <1>7, <1>11
  <2> QED
    BY <1>10, <2>1, <2>2
<1>16. Len(u) = (4 + Len(e)) + Len(N)
  BY <1>5, <1>10, <1>11
<1>17. EndpointIs(u, c.op, e, N)
  BY <1>5, <1>10, <1>13, <1>14, <1>15, <1>16 DEF EndpointIs
<1> QED
  BY <1>0, <1>17 DEF e, N

(* The symbols of a number's part of the query *)
LEMMA NumberAt ==
  ASSUME NEW c, GoodCall(c), Len(c.nums) <= 2, NEW i \in 1 .. Len(c.nums)
  PROVE  LET b == 4 * (i - 1) IN
         /\ b + 4 \in 1 .. Len(QueryNumbers(c)) /\ b \in Nat
         /\ QueryNumbers(c)[b + 1] = "amp" /\ QueryNumbers(c)[b + 2] = Keys(c.op)[i]
         /\ QueryNumbers(c)[b + 3] = "eq" /\ QueryNumbers(c)[b + 4] = c.nums[i]
<1> DEFINE N == QueryNumbers(c)
           b == 4 * (i - 1)
           x == NumberText(c, i)
<1>1. Len(c.nums) \in Nat
  BY DEF GoodCall, IsText
<1>2. Has(N, b, x) /\ b \in Nat
  BY <1>1, NumbersText
<1>3. Len(x) = 4 /\ x[1] = "amp" /\ x[2] = Keys(c.op)[i] /\ x[3] = "eq" /\ x[4] = c.nums[i]
  BY FourText DEF NumberText
<1>4. Len(N) \in Nat
  BY NumbersText DEF IsText
<1> HIDE DEF x, b, N
<1>5. N[b + 1] = x[1] /\ N[b + 2] = x[2] /\ N[b + 3] = x[3] /\ N[b + 4] = x[4] /\ b + 4 \in 1 .. Len(N)
  BY <1>2, <1>3, <1>4 DEF Has
<1> QED
  BY <1>2, <1>3, <1>5 DEF b, N

LEMMA NumbersFree ==
  ASSUME NEW c, GoodCall(c), c.op \in Query, NEW j \in 1 .. Len(QueryNumbers(c))
  PROVE  QueryNumbers(c)[j] \notin Blank
<1> DEFINE N == QueryNumbers(c)
           K == Len(c.nums)
           keys == Keys(c.op)
<1>1. K \in 0 .. 2 /\ K = Len(keys) /\ \A i \in 1 .. K : c.nums[i] \in Digit /\ keys[i] \notin Blank
  BY KeysOfQuery DEF GoodCall
<1>2. Len(N) = 4 * K
  BY <1>1, NumbersText
<1>3. \A i \in 1 .. K : c.nums[i] \notin Blank /\ keys[i] \notin Blank
  BY <1>1 DEF Digit, Blank
<1>4. "amp" \notin Blank /\ "eq" \notin Blank
  BY DEF Blank
<1>5. K >= 1 => N[1] = "amp" /\ N[2] = keys[1] /\ N[3] = "eq" /\ N[4] = c.nums[1]
  <2> SUFFICES ASSUME K >= 1 PROVE N[1] = "amp" /\ N[2] = keys[1] /\ N[3] = "eq" /\ N[4] = c.nums[1]
    OBVIOUS
  <2>1. 1 \in 1 .. K /\ K <= 2 /\ 4 * (1 - 1) = 0 /\ 0 + 1 = 1 /\ 0 + 2 = 2 /\ 0 + 3 = 3 /\ 0 + 4 = 4
    BY <1>1
  <2>2. N[0 + 1] = "amp" /\ N[0 + 2] = keys[1] /\ N[0 + 3] = "eq" /\ N[0 + 4] = c.nums[1]
    BY <2>1, NumberAt
  <2> HIDE DEF N, keys
  <2> QED
    BY <2>1, <2>2
<1>11. \A i \in 1 .. K : /\ N[4 * (i - 1) + 1] = "amp" /\ N[4 * (i - 1) + 2] = keys[i]
                         /\ N[4 * (i - 1) + 3] = "eq" /\ N[4 * (i - 1) + 4] = c.nums[i]
  BY <1>1, NumberAt
<1>6. K = 2 => N[5] = "amp" /\ N[6] = keys[2] /\ N[7] = "eq" /\ N[8] = c.nums[2]
  <2> SUFFICES ASSUME K = 2 PROVE N[5] = "amp" /\ N[6] = keys[2] /\ N[7] = "eq" /\ N[8] = c.nums[2]
    OBVIOUS
  <2>1. 2 \in 1 .. K /\ K <= 2 /\ 4 * (2 - 1) = 4 /\ 4 + 1 = 5 /\ 4 + 2 = 6 /\ 4 + 3 = 7 /\ 4 + 4 = 8
    BY <1>1
  <2>2. N[4 + 1] = "amp" /\ N[4 + 2] = keys[2] /\ N[4 + 3] = "eq" /\ N[4 + 4] = c.nums[2]
    <3> HIDE DEF N, keys, K
    <3> QED
      BY <1>11, <2>1
  <2> HIDE DEF N, keys
  <2> QED
    BY <2>1, <2>2
<1>7. j \in 1 .. 4 * K
  BY <1>2
<1> HIDE DEF N, keys, K
<1>8. \/ (K >= 1 /\ (j = 1 \/ j = 2 \/ j = 3 \/ j = 4))
      \/ (K = 2 /\ (j = 5 \/ j = 6 \/ j = 7 \/ j = 8))
  BY <1>1, <1>7
<1>9. (K >= 1 => 1 \in 1 .. K) /\ (K = 2 => 2 \in 1 .. K)
  BY <1>1
<1>10. N[j] \notin Blank
  BY <1>3, <1>4, <1>5, <1>6, <1>8, <1>9, Zenon
<1> QED
  BY <1>10 DEF N

LEMMA FirstMark ==
  ASSUME NEW u, IsText(u), Len(u) >= 2, u[1] # "qm", u[2] = "qm"
  PROVE  EndOfFirst(u, <<"qm">>) = 2
<1> DEFINE p == <<"qm">>
<1>1. IsText(p) /\ Len(p) = 1 /\ p[1] = "qm" /\ Len(u) \in Nat
  BY WordText DEF IsText
<1> HIDE DEF p
<1>2. Has(u, 1, p)
  <2>1. 1 + 1 = 2
    OBVIOUS
  <2> QED
    BY <1>1, <2>1 DEF Has
<1>3. ~Has(u, 0, p)
  <2>1. 0 + 1 = 1 /\ 1 \in 1 .. Len(p)
    BY <1>1
  <2> QED
    BY <1>1, <2>1 DEF Has
<1>4. \A m \in Nat : m < 1 => ~Has(u, m, p)
  <2>1. \A m \in Nat : m < 1 => m = 0
    OBVIOUS
  <2> QED
    BY <1>3, <2>1
<1>5. 1 \in Nat /\ Len(p) # 0 /\ 1 + Len(p) = 2
  BY <1>1
<1>6. EndOfFirst(u, p) = 1 + Len(p)
  BY <1>1, <1>2, <1>4, <1>5, FirstEnd
<1> QED
  BY <1>5, <1>6 DEF p

(* An endpoint's query is the path and the numbers of the call, ... *)
LEMMA EndpointQuery ==
  ASSUME NEW c, GoodCall(c), c.op \in Query
  PROVE  /\ QueryIs(QueryOf(Endpoint(c)), curl_easy_escape(c.path), Keys(c.op), c.nums)
         /\ IsText(Endpoint(c)) /\ Len(Endpoint(c)) >= 4 + Len(curl_easy_escape(c.path))
<1> DEFINE u == Endpoint(c)
           e == curl_easy_escape(c.path)
           N == QueryNumbers(c)
           K == Len(c.nums)
           keys == Keys(c.op)
           Q == QueryOf(u)
           b == 2 + Len(e)
<1>1. EndpointIs(u, c.op, e, N)
  BY EndpointParts
<1>2. K \in 0 .. 2 /\ K = Len(keys) /\ \A i \in 1 .. K : c.nums[i] \in Digit
  BY KeysOfQuery DEF GoodCall
<1>3. Len(N) = 4 * K
  BY <1>2, NumbersText
<1>4. /\ \A i \in 1 .. Len(keys) : keys[i] \notin {"amp", "path"}
      /\ \A i, j \in 1 .. Len(keys) : keys[i] = keys[j] => i = j
      /\ c.op # "qm"
  BY KeysOfQuery
<1>5. IsText(e) /\ Len(e) \in Nat
  BY EscapedIs, Zenon DEF GoodCall, IsText
<1>6. \A j \in 1 .. Len(e) : e[j] # "amp"
  BY EscapedFree DEF GoodCall
<1>7. \A i \in 1 .. K : /\ 4 * (i - 1) \in Nat /\ 4 * (i - 1) + 4 \in 1 .. Len(N) 
                        /\ N[4 * (i - 1) + 1] = "amp" /\ N[4 * (i - 1) + 2] = keys[i]
                        /\ N[4 * (i - 1) + 3] = "eq" /\ N[4 * (i - 1) + 4] = c.nums[i]
  BY <1>2, NumberAt
<1> HIDE DEF u, e, N, keys, K
<1>8. /\ IsText(u) /\ Len(u) = (4 + Len(e)) + Len(N) /\ u[1] = c.op /\ u[2] = "qm" /\ u[3] = "path" /\ u[4] = "eq"
      /\ \A j \in 1 .. Len(e) : u[4 + j] = e[j]
      /\ \A j \in 1 .. Len(N) : u[(4 + Len(e)) + j] = N[j]
  BY <1>1 DEF EndpointIs
<1>9. Len(u) >= 4 + Len(e) /\ Len(u) >= 2 /\ Len(u) \in Nat /\ Len(N) \in Nat
  BY <1>2, <1>3, <1>5, <1>8
<1>10. EndOfFirst(u, <<"qm">>) = 2
  BY <1>4, <1>8, <1>9, FirstMark
<1>11. Q = SubSeq(u, 3, Len(u))
  BY <1>10 DEF QueryOf
<1>12. IsText(Q) /\ Len(Q) = Len(u) - 2 /\ \A j \in 1 .. Len(Q) : Q[j] = u[2 + j]
  <2> DEFINE X == {u[j] : j \in 1 .. Len(u)}
  <2>1. u \in Seq(X)
    BY <1>8 DEF IsText
  <2> HIDE DEF X
  <2>2. SubSeq(u, 3, Len(u)) \in Seq(X) /\ Len(SubSeq(u, 3, Len(u))) = Len(u) - 2
        /\ \A j \in 1 .. Len(u) - 2 : SubSeq(u, 3, Len(u))[j] = u[2 + j]
    BY <1>9, <2>1
  <2> HIDE DEF Q
  <2>3. Q \in Seq(X) /\ Len(Q) = Len(u) - 2 /\ \A j \in 1 .. Len(Q) : Q[j] = u[2 + j]
    BY <1>11, <2>2
  <2> QED
    BY <2>3, SeqIsText
<1> HIDE DEF Q, b
<1>13. Len(Q) = b + 4 * K /\ b = 2 + Len(e) /\ b \in Nat
  BY <1>3, <1>5, <1>8, <1>12, <1>2 DEF b
<1>14. Q[1] = "path" /\ Q[2] = "eq"
  <2>1. 1 \in 1 .. Len(Q) /\ 2 \in 1 .. Len(Q) /\ 2 + 1 = 3 /\ 2 + 2 = 4
    BY <1>2, <1>5, <1>13
  <2> QED
    BY <1>8, <1>12, <2>1
<1>15. Has(Q, 2, e)
  <2>1. 2 + Len(e) <= Len(Q)
    BY <1>2, <1>5, <1>13
  <2>2. ASSUME NEW j \in 1 .. Len(e) PROVE Q[2 + j] = e[j]
    <3>1. 2 + j \in 1 .. Len(Q) /\ 2 + (2 + j) = 4 + j
      BY <1>5, <2>1
    <3> QED
      BY <1>8, <1>12, <3>1
  <2> QED
    BY <2>1, <2>2 DEF Has
<1>16. ASSUME NEW j \in 1 .. Len(N)
       PROVE  Q[b + j] = N[j]
  <2>1. b + j \in 1 .. Len(Q) /\ 2 + (b + j) = (4 + Len(e)) + j
    BY <1>2, <1>3, <1>5, <1>13
  <2> QED
    BY <1>8, <1>12, <2>1
<1>17. ASSUME NEW i \in 1 .. K
       PROVE  /\ Q[(b + 4 * (i - 1)) + 1] = "amp" /\ Q[(b + 4 * (i - 1)) + 2] = keys[i]
              /\ Q[(b + 4 * (i - 1)) + 3] = "eq" /\ Q[(b + 4 * (i - 1)) + 4] = c.nums[i]
  <2> DEFINE d == 4 * (i - 1)
  <2>1. d \in Nat /\ d + 4 \in 1 .. Len(N) /\ N[d + 1] = "amp" /\ N[d + 2] = keys[i] /\ N[d + 3] = "eq" /\ N[d + 4] = c.nums[i]
    BY <1>7
  <2> HIDE DEF d
  <2>2. /\ d + 1 \in 1 .. Len(N) /\ d + 2 \in 1 .. Len(N) /\ d + 3 \in 1 .. Len(N)
        /\ b + (d + 1) = (b + d) + 1 /\ b + (d + 2) = (b + d) + 2 /\ b + (d + 3) = (b + d) + 3 /\ b + (d + 4) = (b + d) + 4
    BY <1>9, <1>13, <2>1
  <2>3. Q[(b + d) + 1] = "amp" /\ Q[(b + d) + 2] = keys[i] /\ Q[(b + d) + 3] = "eq" /\ Q[(b + d) + 4] = c.nums[i]
    BY <1>16, <2>1, <2>2
  <2> QED
    BY <2>3 DEF d
<1>18. \A i \in 1 .. K : c.nums[i] # "amp"
  BY <1>2 DEF Digit
<1>19. QueryIs(Q, e, keys, c.nums)
  BY <1>2, <1>4, <1>5, <1>6, <1>12, <1>13, <1>14, <1>15, <1>17, <1>18 DEF QueryIs
<1> QED
  BY <1>8, <1>9, <1>19 DEF Q, e, keys, u

LEMMA EndpointFree ==
  ASSUME NEW c, GoodCall(c), c.op \in Query, NEW j \in 1 .. Len(Endpoint(c))
  PROVE  Endpoint(c)[j] \notin Blank
<1> DEFINE u == Endpoint(c)
           e == curl_easy_escape(c.path)
           N == QueryNumbers(c)
<1>1. EndpointIs(u, c.op, e, N)
  BY EndpointParts
<1>2. \A i \in 1 .. Len(e) : e[i] \notin Blank
  BY EscapedFree DEF GoodCall
<1>3. \A i \in 1 .. Len(N) : N[i] \notin Blank
  BY NumbersFree
<1>4. c.op \notin Blank /\ "qm" \notin Blank /\ "path" \notin Blank /\ "eq" \notin Blank
  <2>1. "qm" \notin Blank /\ "path" \notin Blank /\ "eq" \notin Blank
    BY DEF Blank
  <2> QED
    BY <2>1, KeysOfQuery
<1> HIDE DEF u, e, N
<1>5. /\ Len(e) \in Nat /\ Len(N) \in Nat /\ Len(u) = (4 + Len(e)) + Len(N)
      /\ u[1] = c.op /\ u[2] = "qm" /\ u[3] = "path" /\ u[4] = "eq"
      /\ \A i \in 1 .. Len(e) : u[4 + i] = e[i]
      /\ \A i \in 1 .. Len(N) : u[(4 + Len(e)) + i] = N[i]
  BY <1>1 DEF EndpointIs
<1>6. j \in 1 .. (4 + Len(e)) + Len(N)
  BY <1>5 DEF u
<1>7. CASE j \in 1 .. 4
  <2>1. j = 1 \/ j = 2 \/ j = 3 \/ j = 4
    BY <1>7
  <2>2. u[j] \notin Blank
    BY <1>4, <1>5, <2>1, Zenon
  <2> QED
    BY <2>2 DEF u
<1>8. CASE j \in 5 .. 4 + Len(e)
  <2>1. j - 4 \in 1 .. Len(e) /\ 4 + (j - 4) = j
    BY <1>5, <1>8
  <2>2. u[j] = e[j - 4]
    BY <1>5, <2>1
  <2> QED
    BY <1>2, <2>1, <2>2 DEF u
<1>9. CASE j > 4 + Len(e)
  <2> DEFINE k == j - (4 + Len(e))
  <2>1. k \in 1 .. Len(N) /\ (4 + Len(e)) + k = j
    BY <1>5, <1>6, <1>9
  <2> HIDE DEF k
  <2>2. u[j] = N[k]
    BY <1>5, <2>1
  <2> QED
    BY <1>3, <2>1, <2>2 DEF u
<1> QED
  BY <1>5, <1>6, <1>7, <1>8, <1>9

(* ... which sscanf leaves whole, ... *)
LEMMA RawUriWhole ==
  ASSUME NEW u, IsText(u), \A j \in 1 .. Len(u) : u[j] \notin Blank, RawUriSize \in Nat, Len(u) < RawUriSize
  PROVE  RawUri(u) = u
<1> DEFINE blanks == {i \in DOMAIN u : u[i] \in Blank}
<1>1. Len(u) \in Nat /\ DOMAIN u = 1 .. Len(u) /\ SubSeq(u, 1, Len(u)) = u
  BY DEF IsText
<1>2. blanks = {}
  BY <1>1
<1>3. RawUri(u) = SubSeq(u, 1, IF Len(u) < RawUriSize THEN Len(u) ELSE RawUriSize - 1)
  BY <1>2, Zenon DEF RawUri
<1> QED
  BY <1>1, <1>3

LEMMA DigitPlain == \A d \in Digit : d \notin DOMAIN Hex
BY DEF Digit, Hex

LEMMA DecodeDigit ==
  ASSUME NEW d \in Digit, NEW size \in Nat
  PROVE  url_decode(<<d>>, size) = IF 1 < size THEN Made(<<d>>) ELSE Failed
<1> DEFINE s == <<d>>
<1>1. IsText(s) /\ Len(s) = 1 /\ s[1] = d
  BY WordText
<1>2. Escaped(d) = s
  BY DigitPlain DEF Escaped
<1> HIDE DEF s
<1> DEFINE q == EscapedParts(s)
<1>3. curl_easy_escape(s) = FlattenSeq(q) /\ Len(q) = 1 /\ q[1] = s
  <2>1. curl_easy_escape(s) = FlattenSeq(q) /\ Len(q) = Len(s) /\ \A i \in 1 .. Len(s) : q[i] = Escaped(s[i])
    BY <1>1, EscapedIs
  <2> QED
    BY <1>1, <1>2, <2>1
<1> HIDE DEF q
<1>4. \E f : FlattenSeq(q) = f[Len(q)] /\ f[1] = q[1] /\ \A i \in 2 .. Len(q) : f[i] = f[i - 1] \o q[i]
  <2>1. Len(q) \in Nat /\ Len(q) # 0
    BY <1>3
  <2> QED
    BY <2>1, FlattenTurns, Zenon
<1>5. FlattenSeq(q) = s
  BY <1>3, <1>4
<1>6. url_decode(curl_easy_escape(s), size) = IF Len(s) < size THEN Made(s) ELSE Failed
  BY <1>1, DecodeEscaped
<1>7. url_decode(s, size) = IF 1 < size THEN Made(s) ELSE Failed
  BY <1>1, <1>3, <1>5, <1>6
<1> QED
  BY <1>7 DEF s

(* ... and the handler reads the same values from it. *)
LEMMA QueryRead ==
  ASSUME NEW c, GoodCall(c), c.op \in Query, NEW size \in Nat,
         RawUriSize \in Nat, Len(Endpoint(c)) < RawUriSize
  PROVE  /\ RawUri(Endpoint(c)) = Endpoint(c) /\ IsText(Endpoint(c)) /\ Len(c.path) < Len(Endpoint(c))
         /\ query_value(QueryOf(Endpoint(c)), "path", size) = IF Len(c.path) < size THEN Made(c.path) ELSE Failed
         /\ Len(Keys(c.op)) = Len(c.nums)
         /\ \A i \in 1 .. Len(c.nums) : query_value(QueryOf(Endpoint(c)), Keys(c.op)[i], size) =
                                          IF 1 < size THEN Made(<<c.nums[i]>>) ELSE Failed
<1> DEFINE u == Endpoint(c)
           e == curl_easy_escape(c.path)
           Q == QueryOf(u)
           keys == Keys(c.op)
<1>1. QueryIs(Q, e, keys, c.nums) /\ IsText(u) /\ Len(u) >= 4 + Len(e)
  BY EndpointQuery
<1>2. \A j \in 1 .. Len(u) : u[j] \notin Blank
  BY EndpointFree
<1>3. RawUri(u) = u
  BY <1>1, <1>2, RawUriWhole
<1>4. IsText(c.path) /\ Len(c.path) # 0 /\ Len(keys) = Len(c.nums) /\ \A i \in 1 .. Len(c.nums) : c.nums[i] \in Digit
  BY DEF GoodCall
<1>5. Len(e) >= Len(c.path)
  BY <1>4, EscapedFree
<1>6. Len(e) \in Nat /\ Len(u) \in Nat /\ Len(c.path) \in Nat
  <2>1. IsText(e)
    BY <1>4, EscapedIs, Zenon
  <2> QED
    BY <1>1, <1>4, <2>1 DEF IsText
<1>7. url_decode(e, size) = IF Len(c.path) < size THEN Made(c.path) ELSE Failed
  BY <1>4, DecodeEscaped
<1> HIDE DEF u, e, Q, keys
<1>8. Len(u) < RawUriSize /\ ~(Len(e) + 1 > RawUriSize) /\ RawUriSize >= 2
  BY <1>1, <1>6 DEF u
<1>9. query_value(Q, "path", size) = IF Len(e) + 1 > RawUriSize THEN Failed ELSE url_decode(e, size)
  BY <1>1, QueryPath, Zenon
<1>10. ASSUME NEW i \in 1 .. Len(c.nums)
       PROVE  query_value(Q, keys[i], size) = IF 1 < size THEN Made(<<c.nums[i]>>) ELSE Failed
  <2>1. query_value(Q, keys[i], size) = url_decode(<<c.nums[i]>>, size)
    BY <1>1, <1>4, <1>8, QueryNumber
  <2>2. c.nums[i] \in Digit
    BY <1>4
  <2> QED
    BY <2>1, <2>2, DecodeDigit, Zenon
<1>11. Len(c.path) < Len(u)
  BY <1>1, <1>5, <1>6
<1>12. query_value(Q, "path", size) = IF Len(c.path) < size THEN Made(c.path) ELSE Failed
  BY <1>7, <1>8, <1>9, Zenon
<1> QED
  BY <1>1, <1>3, <1>4, <1>10, <1>11, <1>12, Zenon DEF u, Q, keys

-----------------------------------------------------------------------------
(* The answers without an object or array inside *)

R(key, kind, v) == [key |-> key, kind |-> kind, v |-> v]

LEMMA PieceOf ==
  ASSUME NEW key, NEW kind, NEW v
  PROVE  /\ R(key, kind, v).key = key /\ R(key, kind, v).kind = kind /\ R(key, kind, v).v = v
BY DEF R

LEMMA PiecesThree ==
  ASSUME NEW a, NEW b, NEW c, Good(a.key, a.kind, a.v), Good(b.key, b.kind, b.v), Good(c.key, c.kind, c.v)
  PROVE  /\ GoodAll(<<a, b, c>>) /\ Len(<<a, b, c>>) = 3
         /\ Pieces(<<a, b, c>>) = <<M(a.key, a.kind, a.v), M(b.key, b.kind, b.v), M(c.key, c.kind, c.v)>>
<1> DEFINE s == <<a, b, c>>
           x == M(a.key, a.kind, a.v)
           y == M(b.key, b.kind, b.v)
           z == M(c.key, c.kind, c.v)
<1>1. IsText(s) /\ Len(s) = 3 /\ s[1] = a /\ s[2] = b /\ s[3] = c /\ DOMAIN s = 1 .. 3
  BY ThreeText
<1>2. \A i \in 1 .. 3 : i = 1 \/ i = 2 \/ i = 3
  OBVIOUS
<1> HIDE DEF s
<1>3. GoodAll(s)
  BY <1>1, <1>2 DEF GoodAll
<1>4. Pieces(s) = [i \in 1 .. 3 |-> M(s[i].key, s[i].kind, s[i].v)]
  BY <1>1 DEF Pieces
<1>5. M(s[1].key, s[1].kind, s[1].v) = x /\ M(s[2].key, s[2].kind, s[2].v) = y /\ M(s[3].key, s[3].kind, s[3].v) = z
  BY <1>1
<1>6. Pieces(s) = <<x, y, z>>
  <2> DEFINE f == Pieces(s)
  <2>1. f[1] = x /\ f[2] = y /\ f[3] = z /\ f = [i \in 1 .. 3 |-> f[i]]
    BY <1>4, <1>5
  <2> HIDE DEF x, y, z, f
  <2>2. <<x, y, z>> = [i \in 1 .. 3 |-> f[i]]
    BY <2>1
  <2> QED
    BY <2>1, <2>2 DEF f
<1> QED
  BY <1>1, <1>3, <1>6 DEF s

LEMMA PiecesOne ==
  ASSUME NEW a, Good(a.key, a.kind, a.v)
  PROVE  GoodAll(<<a>>) /\ Len(<<a>>) = 1 /\ Pieces(<<a>>) = <<M(a.key, a.kind, a.v)>>
<1> DEFINE s == <<a>>
           x == M(a.key, a.kind, a.v)
<1>1. IsText(s) /\ Len(s) = 1 /\ s[1] = a /\ DOMAIN s = 1 .. 1
  BY WordText
<1>2. \A i \in 1 .. 1 : i = 1
  OBVIOUS
<1> HIDE DEF s
<1>3. GoodAll(s)
  BY <1>1, <1>2 DEF GoodAll
<1>4. Pieces(s) = [i \in 1 .. 1 |-> M(s[i].key, s[i].kind, s[i].v)]
  BY <1>1 DEF Pieces
<1>5. Pieces(s) = <<x>>
  <2> DEFINE f == Pieces(s)
  <2>1. f[1] = x /\ f = [i \in 1 .. 1 |-> f[i]]
    BY <1>1, <1>4
  <2> HIDE DEF x, f
  <2>2. <<x>> = [i \in 1 .. 1 |-> f[i]]
    BY <2>1
  <2> QED
    BY <2>1, <2>2 DEF f
<1> QED
  BY <1>1, <1>3, <1>5 DEF s

StatusIs(w) == R("status", "string", <<w>>)
ErrnoIs(errno) == R("errno", "primitive", <<errno>>)
MessageIs == R("message", "string", <<"text">>)
WrittenIs == R("bytes_written", "primitive", <<"1">>)
DigestIs == R("content_md5", "string", <<"digest">>)

LEMMA StringGood ==
  ASSUME NEW key, NEW w, key \notin {"quote", "bslash"}, w \notin {"quote", "bslash"}
  PROVE  LET r == R(key, "string", <<w>>) IN
         Good(r.key, r.kind, r.v) /\ M(r.key, r.kind, r.v) = Member(key, Quoted(<<w>>))
<1>1. Clean(<<w>>)
  BY CleanWord, Zenon
<1>2. Good(key, "string", <<w>>)
  BY <1>1 DEF Good
<1>3. M(key, "string", <<w>>) = Member(key, Quoted(<<w>>))
  BY DEF M, ValueText
<1> QED
  BY <1>2, <1>3, PieceOf

LEMMA WordGood ==
  ASSUME NEW key, NEW w, key \notin {"quote", "bslash"}, Plain(w)
  PROVE  LET r == R(key, "primitive", <<w>>) IN
         Good(r.key, r.kind, r.v) /\ M(r.key, r.kind, r.v) = Member(key, <<w>>)
<1>2. Good(key, "primitive", <<w>>)
  BY DEF Good
<1>3. M(key, "primitive", <<w>>) = Member(key, <<w>>)
  BY DEF M, ValueText
<1> QED
  BY <1>2, <1>3, PieceOf

ErrorMembers(errno) ==
    IF provider = "python" THEN <<ErrnoIs(errno), MessageIs, StatusIs("error")>>
    ELSE <<StatusIs("error"), ErrnoIs(errno), MessageIs>>

WriteMembers ==
    IF provider = "c" THEN <<StatusIs("ok"), WrittenIs, DigestIs>> ELSE <<WrittenIs, DigestIs, StatusIs("ok")>>

LEMMA ErrorTextIs ==
  ASSUME NEW errno, Plain(errno)
  PROVE  /\ ErrorText(errno) = Line(Pieces(ErrorMembers(errno)))
         /\ GoodAll(ErrorMembers(errno)) /\ Len(ErrorMembers(errno)) = 3
<1> DEFINE s == StatusIs("error")
           e == ErrnoIs(errno)
           m == MessageIs
           ms == Member("status", Quoted(<<"error">>))
           me == Member("errno", <<errno>>)
           mm == Member("message", Quoted(<<"text">>))
<1>1. Good(s.key, s.kind, s.v) /\ M(s.key, s.kind, s.v) = ms
  BY StringGood DEF StatusIs
<1>2. Good(e.key, e.kind, e.v) /\ M(e.key, e.kind, e.v) = me
  BY WordGood DEF ErrnoIs
<1>3. Good(m.key, m.kind, m.v) /\ M(m.key, m.kind, m.v) = mm
  BY StringGood DEF MessageIs
<1>4. ErrorText(errno) = Line(IF provider = "python" THEN <<me, mm, ms>> ELSE <<ms, me, mm>>)
  BY DEF ErrorText
<1> HIDE DEF s, e, m, ms, me, mm
<1>5. /\ GoodAll(<<e, m, s>>) /\ Len(<<e, m, s>>) = 3 /\ Pieces(<<e, m, s>>) = <<me, mm, ms>>
      /\ GoodAll(<<s, e, m>>) /\ Len(<<s, e, m>>) = 3 /\ Pieces(<<s, e, m>>) = <<ms, me, mm>>
  BY <1>1, <1>2, <1>3, PiecesThree
<1>6. ErrorMembers(errno) = IF provider = "python" THEN <<e, m, s>> ELSE <<s, e, m>>
  BY DEF ErrorMembers, s, e, m
<1> QED
  BY <1>4, <1>5, <1>6, Zenon

LEMMA PlainWords ==
  Plain("EINVAL") /\ Plain("ENOENT") /\ Plain("EIO") /\ Plain("400") /\ Plain("1") /\ Plain("7")
BY DEF Plain, Blank, Printable

LEMMA WriteTextIs ==
  /\ WriteText = Line(Pieces(WriteMembers)) /\ GoodAll(WriteMembers) /\ Len(WriteMembers) = 3
<1> DEFINE s == StatusIs("ok")
           n == WrittenIs
           d == DigestIs
           ms == StatusOk
           mn == Member("bytes_written", <<"1">>)
           md == Member("content_md5", Quoted(<<"digest">>))
<1>1. Good(s.key, s.kind, s.v) /\ M(s.key, s.kind, s.v) = ms
  BY StringGood DEF StatusIs, StatusOk
<1>2. Good(n.key, n.kind, n.v) /\ M(n.key, n.kind, n.v) = mn
  BY WordGood, PlainWords DEF WrittenIs
<1>3. Good(d.key, d.kind, d.v) /\ M(d.key, d.kind, d.v) = md
  BY StringGood DEF DigestIs
<1>4. WriteText = Line(IF provider = "c" THEN <<ms, mn, md>> ELSE <<mn, md, ms>>)
  BY DEF WriteText
<1> HIDE DEF s, n, d, ms, mn, md
<1>5. /\ GoodAll(<<n, d, s>>) /\ Len(<<n, d, s>>) = 3 /\ Pieces(<<n, d, s>>) = <<mn, md, ms>>
      /\ GoodAll(<<s, n, d>>) /\ Len(<<s, n, d>>) = 3 /\ Pieces(<<s, n, d>>) = <<ms, mn, md>>
  BY <1>1, <1>2, <1>3, PiecesThree
<1>6. WriteMembers = IF provider = "c" THEN <<s, n, d>> ELSE <<n, d, s>>
  BY DEF WriteMembers, s, n, d
<1> QED
  BY <1>4, <1>5, <1>6, Zenon

LEMMA OkTextIs ==
  /\ Line(<<StatusOk>>) = Line(Pieces(<<StatusIs("ok")>>)) /\ GoodAll(<<StatusIs("ok")>>)
  /\ Len(<<StatusIs("ok")>>) = 1
<1> DEFINE s == StatusIs("ok")
<1>1. Good(s.key, s.kind, s.v) /\ M(s.key, s.kind, s.v) = StatusOk
  BY StringGood DEF StatusIs, StatusOk
<1> HIDE DEF s
<1>2. GoodAll(<<s>>) /\ Len(<<s>>) = 1 /\ Pieces(<<s>>) = <<StatusOk>>
  BY <1>1, PiecesOne
<1> QED
  BY <1>2 DEF s

-----------------------------------------------------------------------------
(* Every answer is a text. *)

LEMMA AnyMemberText ==
  ASSUME NEW key, NEW v, IsText(v)
  PROVE  IsText(Member(key, v)) /\ Len(Member(key, v)) = 4 + Len(v)
<1> DEFINE w == <<key>>
           k == Quoted(w)
           c == <<"colon">>
<1>1. IsText(w) /\ Len(w) = 1 /\ IsText(c) /\ Len(c) = 1
  BY WordText
<1>2. Member(key, v) = (k \o c) \o v
  BY DEF Member
<1> HIDE DEF w, c
<1>3. IsText(k) /\ Len(k) = Len(w) + 2
  BY <1>1, QuotedText, Zenon
<1> HIDE DEF k
<1> DEFINE d == k \o c
<1>4. Joined(d, k, c)
  BY <1>1, <1>3, ConcatJoined, Zenon
<1> HIDE DEF d
<1>5. IsText(d) /\ Len(d) = 4
  BY <1>1, <1>3, <1>4 DEF Joined
<1>6. Joined(d \o v, d, v)
  BY <1>5, ConcatJoined, Zenon
<1>7. IsText(d \o v) /\ Len(d \o v) = 4 + Len(v)
  BY <1>5, <1>6, Zenon DEF Joined
<1> QED
  BY <1>2, <1>7 DEF d

LEMMA NoCommas ==
  ASSUME NEW parts, IsText(parts), Len(parts) = 0
  PROVE  parts = <<>> /\ Commas(parts) = <<>>
<1>1. DOMAIN parts = {} /\ parts = <<>>
  BY DEF IsText
<1> DEFINE s == [i \in DOMAIN parts |-> IF i = 1 THEN parts[i] ELSE <<"comma">> \o parts[i]]
<1>2. s = <<>>
  BY <1>1
<1>3. Commas(parts) = FlattenSeq(s)
  BY Zenon DEF Commas
<1> HIDE DEF s
<1> QED
  BY <1>1, <1>2, <1>3 DEF FlattenSeq

LEMMA AnyCommasText ==
  ASSUME NEW parts, IsText(parts), \A i \in 1 .. Len(parts) : IsText(parts[i])
  PROVE  IsText(Commas(parts))
<1>1. CASE Len(parts) = 0
  BY <1>1, NoCommas, EmptyText
<1>2. CASE Len(parts) # 0
  BY <1>2, CommasText, Zenon
<1> QED
  BY <1>1, <1>2

LEMMA AnyObjectText ==
  ASSUME NEW parts, IsText(parts), \A i \in 1 .. Len(parts) : IsText(parts[i])
  PROVE  IsText(Object(parts))
<1>1. IsText(Commas(parts))
  BY AnyCommasText, Zenon
<1> DEFINE c == Commas(parts)
<1> HIDE DEF c
<1>2. IsText(<<"lbrace">> \o c \o <<"rbrace">>)
  BY <1>1, BracketsHas DEF c
<1> QED
  BY <1>2 DEF Object, c

LEMMA TwoText ==
  ASSUME NEW a, NEW b
  PROVE  IsText(<<a, b>>) /\ Len(<<a, b>>) = 2 /\ <<a, b>>[1] = a /\ <<a, b>>[2] = b
<1>1. <<a, b>> \in Seq({a, b})
  OBVIOUS
<1> QED
  BY <1>1, SeqIsText

LEMMA ObjectOfTwo ==
  ASSUME NEW a, NEW b, IsText(a), IsText(b)
  PROVE  IsText(Object(<<a, b>>))
<1> DEFINE s == <<a, b>>
<1>1. IsText(s) /\ Len(s) = 2 /\ s[1] = a /\ s[2] = b
  BY TwoText
<1> HIDE DEF s
<1>2. \A i \in 1 .. Len(s) : IsText(s[i])
  <2>1. \A i \in 1 .. 2 : i = 1 \/ i = 2
    OBVIOUS
  <2> QED
    BY <1>1, <2>1
<1>3. IsText(Object(s))
  BY <1>1, <1>2, AnyObjectText, Zenon
<1> QED
  BY <1>3 DEF s

LEMMA ObjectOfFour ==
  ASSUME NEW a, NEW b, NEW c, NEW d, IsText(a), IsText(b), IsText(c), IsText(d)
  PROVE  IsText(Object(<<a, b, c, d>>))
<1> DEFINE s == <<a, b, c, d>>
<1>1. IsText(s) /\ Len(s) = 4 /\ s[1] = a /\ s[2] = b /\ s[3] = c /\ s[4] = d
  BY FourText
<1> HIDE DEF s
<1>2. \A i \in 1 .. Len(s) : IsText(s[i])
  <2>1. \A i \in 1 .. 4 : i = 1 \/ i = 2 \/ i = 3 \/ i = 4
    OBVIOUS
  <2> QED
    BY <1>1, <2>1
<1>3. IsText(Object(s))
  BY <1>1, <1>2, AnyObjectText, Zenon
<1> QED
  BY <1>3 DEF s

LEMMA StatusOkText == IsText(StatusOk)
BY WordText, QuotedText, AnyMemberText DEF StatusOk

LEMMA AnswerText ==
  ASSUME NEW key, NEW v, IsText(v)
  PROVE  IsText(Answer(key, v))
<1> DEFINE m == Member(key, v)
           s == StatusOk
<1>1. IsText(m) /\ IsText(s)
  BY AnyMemberText, StatusOkText
<1>2. Answer(key, v) = Line(IF provider = "c" THEN <<s, m>> ELSE <<m, s>>)
  BY DEF Answer
<1> HIDE DEF m, s
<1>3. IsText(Object(<<s, m>>)) /\ IsText(Object(<<m, s>>))
  BY <1>1, ObjectOfTwo
<1>4. IsText(Line(<<s, m>>)) /\ IsText(Line(<<m, s>>))
  BY <1>3, LineText, Zenon
<1> QED
  BY <1>2, <1>4, Zenon

LEMMA EscapedByText ==
  ASSUME NEW s, IsText(s)
  PROVE  IsText(EscapedBy(s))
BY EscapedByClean, Zenon DEF Clean

LEMMA EntryTextText ==
  ASSUME NEW e, IsText(e.name)
  PROVE  IsText(EntryText(e))
<1> DEFINE n == EscapedBy(e.name)
           a == Member("name", Quoted(n))
           b == Member("type", Quoted(<<e.type>>))
<1>1. IsText(a) /\ IsText(b)
  BY EscapedByText, WordText, QuotedText, AnyMemberText
<1>2. EntryText(e) = Object(<<a, b>>)
  BY DEF EntryText
<1> HIDE DEF a, b
<1> QED
  BY <1>1, <1>2, ObjectOfTwo

LEMMA ListTextText ==
  ASSUME IsText(dir), \A i \in 1 .. Len(dir) : IsText(dir[i].name)
  PROVE  IsText(ListText)
<1> DEFINE parts == [i \in DOMAIN dir |-> EntryText(dir[i])]
           c == Commas(parts)
           v == <<"lbracket">> \o c \o <<"rbracket">>
<1>1. DOMAIN dir = 1 .. Len(dir) /\ Len(dir) \in Nat
  BY DEF IsText
<1>2. parts \in Seq({EntryText(dir[i]) : i \in 1 .. Len(dir)}) /\ Len(parts) = Len(dir)
  BY <1>1
<1>3. \A i \in 1 .. Len(parts) : IsText(parts[i])
  <2> SUFFICES ASSUME NEW i \in 1 .. Len(dir) PROVE IsText(parts[i])
    BY <1>2
  <2>1. parts[i] = EntryText(dir[i])
    BY <1>1
  <2> QED
    BY <2>1, EntryTextText, Zenon
<1>4. ListText = Answer("entries", v)
  BY DEF ListText
<1> HIDE DEF parts
<1>5. IsText(parts)
  BY <1>2, SeqIsText
<1>6. IsText(c)
  BY <1>3, <1>5, AnyCommasText, Zenon
<1> HIDE DEF c
<1>7. IsText(v)
  BY <1>6, BracketsHas
<1> HIDE DEF v
<1> QED
  BY <1>4, <1>7, AnswerText, Zenon

LEMMA MetaTextText ==
  ASSUME IsText(seen.path)
  PROVE  IsText(MetaText)
<1> DEFINE x == IF provider = "c" THEN seen.path ELSE EscapedBy(seen.path)
           path == Member("path", Quoted(x))
           type == Member("type", Quoted(<<MetaType>>))
           mode == Member("mode", <<"1">>)
           size == Member("size", <<MetaSize>>)
           o == Object(IF provider = "python" THEN <<mode, path, size, type>> ELSE <<path, type, mode, size>>)
<1>1. IsText(x)
  BY EscapedByText
<1> HIDE DEF x
<1>2. IsText(path) /\ IsText(type) /\ IsText(mode) /\ IsText(size)
  BY <1>1, WordText, QuotedText, AnyMemberText
<1>3. MetaText = Answer("meta", o)
  BY Zenon DEF MetaText, x
<1> HIDE DEF path, type, mode, size
<1>4. IsText(Object(<<mode, path, size, type>>)) /\ IsText(Object(<<path, type, mode, size>>))
  BY <1>2, ObjectOfFour
<1>5. IsText(o)
  BY <1>4, Zenon
<1> HIDE DEF o
<1> QED
  BY <1>3, <1>5, AnswerText, Zenon

LEMMA SeqSame ==
  ASSUME NEW X, NEW s \in Seq(X), NEW f, f = [i \in 1 .. Len(s) |-> s[i]]
  PROVE  f = s
OBVIOUS

LEMMA PiecesTwo ==
  ASSUME NEW a, NEW b, Good(a.key, a.kind, a.v), Good(b.key, b.kind, b.v)
  PROVE  /\ GoodAll(<<a, b>>) /\ Len(<<a, b>>) = 2
         /\ Pieces(<<a, b>>) = <<M(a.key, a.kind, a.v), M(b.key, b.kind, b.v)>>
<1> DEFINE s == <<a, b>>
           q == <<M(a.key, a.kind, a.v), M(b.key, b.kind, b.v)>>
<1>1. IsText(s) /\ Len(s) = 2 /\ s[1] = a /\ s[2] = b
  BY TwoText, Zenon
<1>2. IsText(q) /\ Len(q) = 2 /\ q[1] = M(a.key, a.kind, a.v) /\ q[2] = M(b.key, b.kind, b.v)
  BY TwoText, Zenon
<1>3. DOMAIN s = 1 .. 2 /\ DOMAIN q = 1 .. 2
  OBVIOUS
<1>4. \A i \in 1 .. 2 : i = 1 \/ i = 2
  OBVIOUS
<1>5. q = [i \in 1 .. 2 |-> q[i]]
  OBVIOUS
<1> HIDE DEF s, q
<1>6. GoodAll(s)
  <2>1. \A i \in 1 .. Len(s) : Good(s[i].key, s[i].kind, s[i].v)
    BY <1>1, <1>4
  <2>2. Len(s) # 0
    BY <1>1
  <2> QED
    BY <1>1, <2>1, <2>2, Zenon DEF GoodAll
<1>7. \A i \in 1 .. 2 : q[i] = M(s[i].key, s[i].kind, s[i].v)
  BY <1>1, <1>2, <1>4
<1>8. Pieces(s) = [i \in 1 .. 2 |-> M(s[i].key, s[i].kind, s[i].v)]
  BY <1>3, Zenon DEF Pieces
<1>9. Pieces(s) = q
  <2> DEFINE f == [i \in 1 .. 2 |-> M(s[i].key, s[i].kind, s[i].v)]
             g == [i \in 1 .. 2 |-> q[i]]
  <2>1. f = g
    BY <1>7, Zenon
  <2> QED
    BY <1>5, <1>8, <2>1
<1> QED
  BY <1>1, <1>6, <1>9 DEF s, q

LEMMA SixText ==
  ASSUME NEW a, NEW b, NEW c, NEW d, NEW e, NEW f
  PROVE  IsText(<<a, b, c, d, e, f>>) /\ Len(<<a, b, c, d, e, f>>) = 6
<1>1. <<a, b, c, d, e, f>> \in Seq({a, b, c, d, e, f}) /\ Len(<<a, b, c, d, e, f>>) = 6
  OBVIOUS
<1> QED
  BY <1>1, SeqIsText

-----------------------------------------------------------------------------
(* json_escape_string gives all of its input, escaped, or nothing. *)

EscapeStep(input, size, before, i) ==
    LET ch   == input[i]
        need == IF ch \in Control THEN 6 ELSE 2
    IN  IF ~before.ok \/ Len(before.text) + need >= size THEN Failed
        ELSE Made(before.text \o EscapeChar(ch))

LEMMA EscapeTurns ==
  ASSUME NEW s, Len(s) \in Nat, NEW size, size # 0
  PROVE  \E out : /\ json_escape_string(s, size) = out[Len(s)] /\ out[0] = Made(<<>>)
                  /\ \A i \in 1 .. Len(s) : out[i] = EscapeStep(s, size, out[i - 1], i)
<1> DEFINE zero == Made(<<>>)
           turn(p, n) == EscapeStep(s, size, p, n)
           solves(g, k) == g = [n \in 0 .. k |-> IF n = 0 THEN zero ELSE turn(g[n - 1], n)]
           T == {k \in Nat : \E g : solves(g, k)}
           out == CHOOSE x : solves(x, Len(s))
<1>0. json_escape_string(s, size) = out[Len(s)]
  BY Zenon DEF json_escape_string, EscapeStep
<1> HIDE DEF turn, zero
<1>1. 0 \in T
  <2>1. solves([n \in 0 .. 0 |-> zero], 0)
    OBVIOUS
  <2> QED
    BY <2>1
<1>2. ASSUME NEW k \in Nat, k \in T
      PROVE  k + 1 \in T
  <2>1. PICK g : solves(g, k)
    BY <1>2
  <2> DEFINE h == [n \in 0 .. k + 1 |-> IF n <= k THEN g[n] ELSE turn(g[k], k + 1)]
  <2>2. \A n \in 0 .. k + 1 : h[n] = IF n = 0 THEN zero ELSE turn(h[n - 1], n)
    <3> TAKE n \in 0 .. k + 1
    <3>1. CASE n <= k
      <4>1. n \in 0 .. k /\ (n # 0 => n - 1 \in 0 .. k + 1 /\ n - 1 <= k)
        BY <3>1
      <4>2. h[n] = g[n] /\ (n # 0 => h[n - 1] = g[n - 1])
        BY <3>1, <4>1
      <4>3. g[n] = IF n = 0 THEN zero ELSE turn(g[n - 1], n)
        BY <2>1, <4>1
      <4> QED
        BY <4>2, <4>3
    <3>2. CASE n = k + 1
      <4>1. n # 0 /\ n - 1 = k /\ ~ (n <= k) /\ k \in 0 .. k + 1 /\ k <= k
        BY <3>2
      <4>2. h[n] = turn(g[k], k + 1) /\ h[n - 1] = g[k]
        BY <4>1
      <4> QED
        BY <3>2, <4>1, <4>2
    <3> QED
      BY <3>1, <3>2
  <2>3. solves(h, k + 1) /\ k + 1 \in Nat
    BY <2>2
  <2> HIDE DEF h, solves
  <2> QED
    BY <2>3
<1>3. \A k \in Nat : k \in T
  <2> HIDE DEF T
  <2>1. \A n \in Nat : n \in T => n + 1 \in T
    BY <1>2, Zenon
  <2> QED
    BY <1>1, <2>1, SetInduction, Zenon
<1>4. PICK g : solves(g, Len(s))
  BY <1>3
<1>5. solves(out, Len(s))
  <2> HIDE DEF solves
  <2> QED
    BY <1>4, Zenon
<1> HIDE DEF out
<1>6. out[0] = zero /\ \A n \in 1 .. Len(s) : out[n] = turn(out[n - 1], n)
  BY <1>5
<1> QED
  BY <1>0, <1>6 DEF zero, turn

(* a text, escaped *)
EscapeParts(s) == [i \in DOMAIN s |-> EscapeChar(s[i])]

LEMMA EscapePartsText ==
  ASSUME NEW s, IsText(s)
  PROVE  /\ IsText(EscapeParts(s)) /\ Len(EscapeParts(s)) = Len(s)
         /\ \A i \in 1 .. Len(s) : /\ EscapeParts(s)[i] = EscapeChar(s[i])
                                   /\ IsText(EscapeParts(s)[i])
<1> DEFINE p == EscapeParts(s)
<1>1. DOMAIN s = 1 .. Len(s) /\ Len(s) \in Nat
  BY DEF IsText
<1>2. /\ p \in Seq({EscapeChar(s[i]) : i \in 1 .. Len(s)}) /\ Len(p) = Len(s)
      /\ \A i \in 1 .. Len(s) : p[i] = EscapeChar(s[i])
  BY <1>1 DEF EscapeParts
<1> HIDE DEF p
<1>3. IsText(p)
  BY <1>2, SeqIsText
<1>4. \A i \in 1 .. Len(s) : IsText(p[i])
  <2>1. \A i \in 1 .. Len(s) : IsText(EscapeChar(s[i]))
    BY EscapeCharClean, Zenon DEF Clean
  <2> QED
    BY <1>2, <2>1
<1> QED
  BY <1>2, <1>3, <1>4 DEF p

LEMMA EscapeWhole ==
  ASSUME NEW s, IsText(s), NEW size \in Nat, json_escape_string(s, size).ok
  PROVE  /\ json_escape_string(s, size).text = FlattenSeq(EscapeParts(s))
         /\ IsText(FlattenSeq(EscapeParts(s))) /\ Len(FlattenSeq(EscapeParts(s))) < size
<1> DEFINE p == EscapeParts(s)
           e == json_escape_string(s, size)
<1>1. IsText(p) /\ Len(p) = Len(s) /\ Len(s) \in Nat
      /\ \A i \in 1 .. Len(s) : p[i] = EscapeChar(s[i]) /\ IsText(p[i])
  BY EscapePartsText DEF IsText
<1>2. size # 0
  BY DEF json_escape_string, Failed
<1>3. PICK out : /\ e = out[Len(s)] /\ out[0] = Made(<<>>)
                 /\ \A i \in 1 .. Len(s) : out[i] = EscapeStep(s, size, out[i - 1], i)
  BY <1>1, <1>2, EscapeTurns
<1> HIDE DEF e
<1>4. CASE Len(s) = 0
  <2>1. e = Made(<<>>) /\ Made(<<>>).text = <<>>
    BY <1>3, <1>4 DEF Made
  <2>2. p = <<>>
    <3>1. DOMAIN p = {}
      BY <1>1, <1>4 DEF IsText
    <3> QED
      BY <1>1, <1>4 DEF IsText
  <2> HIDE DEF p
  <2>3. FlattenSeq(p) = <<>>
    BY <2>2 DEF FlattenSeq
  <2>4. IsText(FlattenSeq(p)) /\ Len(FlattenSeq(p)) = 0
    BY <2>3, EmptyText
  <2> QED
    BY <1>2, <2>1, <2>3, <2>4 DEF e, p
<1>5. CASE Len(s) # 0
  <2> HIDE DEF p
  <2>1. PICK f : /\ FlattenSeq(p) = f[Len(p)] /\ f[1] = p[1]
                 /\ \A i \in 2 .. Len(p) : f[i] = f[i - 1] \o p[i]
    BY <1>1, <1>5, FlattenTurns
  <2> DEFINE good(i) == out[i].ok => out[i].text = f[i] /\ IsText(f[i]) /\ Len(f[i]) < size
             T == {i \in Nat : i + 1 <= Len(s) => good(i + 1)}
  <2>2. ASSUME NEW i \in 1 .. Len(s), NEW before, before = out[i - 1], out[i].ok,
               IsText(before.text)
        PROVE  /\ before.ok /\ out[i].text = before.text \o p[i]
               /\ IsText(before.text \o p[i]) /\ Len(before.text \o p[i]) < size
    <3> DEFINE ch == s[i]
               need == IF ch \in Control THEN 6 ELSE 2
               b == before.text
               c == EscapeChar(ch)
    <3>1. out[i] = IF ~before.ok \/ Len(b) + need >= size THEN Failed ELSE Made(b \o c)
      BY <1>3, <2>2 DEF EscapeStep
    <3>2. p[i] = c /\ IsText(c)
      BY <1>1
    <3>3. Len(c) <= need /\ need \in Nat
      <4>1. CASE ch \in DOMAIN Letter
        <5>1. c = <<"bslash", Letter[ch]>>
          BY <4>1 DEF EscapeChar
        <5> QED
          BY <5>1, TwoText
      <4>2. CASE ch \notin DOMAIN Letter /\ ch \in Control
        <5>1. c = <<"bslash", "u", "0", "0", ControlCode[1], ControlCode[2]>>
          BY <4>2 DEF EscapeChar, Unicode
        <5>2. Len(c) = 6
          <6> DEFINE x == ControlCode[1]
                     y == ControlCode[2]
          <6> HIDE DEF x, y
          <6>1. Len(<<"bslash", "u", "0", "0", x, y>>) = 6
            BY SixText
          <6> QED
            BY <5>1, <6>1 DEF x, y
        <5> QED
          BY <4>2, <5>2
      <4>3. CASE ch \notin DOMAIN Letter /\ ch \notin Control
        <5>1. c = <<ch>>
          BY <4>3 DEF EscapeChar
        <5> QED
          BY <5>1, WordText
      <4> QED
        BY <4>1, <4>2, <4>3
    <3> HIDE DEF need, b, c
    <3>4. before.ok /\ ~(Len(b) + need >= size) /\ out[i] = Made(b \o c)
      <4>1. Failed.ok = FALSE
        BY DEF Failed
      <4> QED
        BY <2>2, <3>1, <4>1
    <3>5. out[i].text = b \o c
      BY <3>4 DEF Made
    <3>6. IsText(b)
      BY <2>2 DEF b
    <3>7. IsText(b \o c) /\ Len(b \o c) = Len(b) + Len(c)
      BY <3>2, <3>6, ConcatText
    <3>8. Len(b \o c) < size
      <4> DEFINE x == Len(b)
                 y == Len(c)
      <4>1. x \in Nat /\ y \in Nat /\ y <= need /\ ~(x + need >= size)
        BY <3>2, <3>3, <3>4, <3>6 DEF IsText
      <4> HIDE DEF x, y
      <4>2. x + y < size
        BY <3>3, <4>1
      <4> QED
        BY <3>7, <4>2 DEF x, y
    <3> QED
      BY <3>2, <3>4, <3>5, <3>7, <3>8 DEF b
  <2>3. 0 \in T
    <3> SUFFICES ASSUME out[1].ok PROVE out[1].text = f[1] /\ IsText(f[1]) /\ Len(f[1]) < size
      BY <1>1
    <3> DEFINE before == Made(<<>>)
    <3>1. before = out[1 - 1] /\ 1 \in 1 .. Len(s) /\ before.text = <<>> /\ IsText(<<>>)
      BY <1>1, <1>3, <1>5, EmptyText DEF Made
    <3> HIDE DEF before
    <3>2. out[1].text = <<>> \o p[1] /\ IsText(<<>> \o p[1]) /\ Len(<<>> \o p[1]) < size
      BY <2>2, <3>1
    <3>3. <<>> \o p[1] = p[1]
      <4>1. IsText(p[1])
        BY <1>1, <3>1
      <4> DEFINE q == p[1]
                 X == {q[i] : i \in 1 .. Len(q)}
      <4>2. q \in Seq(X)
        BY <4>1 DEF IsText
      <4> HIDE DEF q, X
      <4>3. <<>> \o q = q
        BY <4>2
      <4> QED
        BY <4>3 DEF q
    <3> QED
      BY <2>1, <3>2, <3>3
  <2>4. ASSUME NEW i \in Nat, i \in T
        PROVE  i + 1 \in T
    <3> SUFFICES ASSUME (i + 1) + 1 <= Len(s) PROVE good((i + 1) + 1)
      OBVIOUS
    <3> DEFINE k == i + 1
               m == k + 1
    <3>1. k <= Len(s) /\ m \in 2 .. Len(p) /\ m - 1 = k /\ m \in 1 .. Len(s) /\ k \in 1 .. Len(s)
      BY <1>1
    <3>2. good(k)
      BY <2>4, <3>1
    <3>3. f[m] = f[k] \o p[m]
      BY <2>1, <3>1
    <3> HIDE DEF k, m
    <3>4. ASSUME out[m].ok PROVE out[m].text = f[m] /\ IsText(f[m]) /\ Len(f[m]) < size
      <4>1. out[k].ok
        <5>1. out[m] = EscapeStep(s, size, out[k], m)
          BY <1>3, <3>1
        <5>2. ~out[k].ok => EscapeStep(s, size, out[k], m) = Failed
          BY DEF EscapeStep
        <5> QED
          BY <3>4, <5>1, <5>2 DEF Failed
      <4>2. out[k].text = f[k] /\ IsText(f[k])
        BY <3>2, <4>1
      <4> QED
        BY <2>2, <3>1, <3>3, <3>4, <4>2
    <3> QED
      BY <3>4 DEF m, k
  <2>5. \A i \in Nat : i \in T
    <3> HIDE DEF T
    <3>1. \A i \in Nat : i \in T => i + 1 \in T
      BY <2>4, Zenon
    <3> QED
      BY <2>3, <3>1, SetInduction, Zenon
  <2>6. good(Len(s))
    <3>1. Len(s) - 1 \in Nat /\ (Len(s) - 1) + 1 = Len(s) /\ Len(s) <= Len(s)
      BY <1>1, <1>5
    <3>2. Len(s) - 1 \in T
      BY <2>5, <3>1
    <3> HIDE DEF good
    <3> QED
      BY <3>1, <3>2
  <2> QED
    BY <1>1, <1>3, <2>1, <2>6 DEF e, p
<1> QED
  BY <1>1, <1>4, <1>5

(* the members of a body with one path *)
NumberMember(c, i) == Member(Keys(c.op)[i], <<c.nums[i]>>)
PathMembers(c, path) == <<Member("path", Quoted(path))>> \o [i \in DOMAIN c.nums |-> NumberMember(c, i)]

LEMMA PathMembersAre ==
  ASSUME NEW c, GoodCall(c), NEW path
  PROVE  /\ IsText(PathMembers(c, path)) /\ Len(PathMembers(c, path)) = 1 + Len(c.nums)
         /\ PathMembers(c, path)[1] = Member("path", Quoted(path))
         /\ \A i \in 1 .. Len(c.nums) : PathMembers(c, path)[1 + i] = NumberMember(c, i)
<1> DEFINE a == <<Member("path", Quoted(path))>>
           b == [i \in DOMAIN c.nums |-> NumberMember(c, i)]
<1>1. DOMAIN c.nums = 1 .. Len(c.nums) /\ Len(c.nums) \in Nat
  BY DEF GoodCall, IsText
<1>2. /\ b \in Seq({NumberMember(c, i) : i \in 1 .. Len(c.nums)}) /\ Len(b) = Len(c.nums)
      /\ \A i \in 1 .. Len(c.nums) : b[i] = NumberMember(c, i)
  BY <1>1
<1>3. IsText(a) /\ Len(a) = 1 /\ a[1] = Member("path", Quoted(path))
  BY WordText
<1>4. PathMembers(c, path) = a \o b
  BY DEF PathMembers
<1> HIDE DEF a, b
<1>5. IsText(b)
  BY <1>2, SeqIsText
<1>6. Joined(a \o b, a, b)
  BY <1>3, <1>5, ConcatJoined, Zenon
<1> DEFINE c2 == a \o b
<1> HIDE DEF c2
<1>7. Joined(c2, a, b)
  BY <1>6 DEF c2
<1>8. /\ IsText(c2) /\ Len(c2) = 1 + Len(c.nums) /\ c2[1] = a[1]
      /\ \A i \in 1 .. Len(c.nums) : c2[1 + i] = b[i]
  BY <1>2, <1>3, <1>7 DEF Joined
<1> QED
  BY <1>2, <1>3, <1>4, <1>8 DEF c2

-----------------------------------------------------------------------------
(* Where everything is in the body of a request *)

(* the symbols of a member in a text, from n on *)
MemberIn(text, n, key, v) ==
    /\ text[n + 1] = "quote" /\ text[n + 2] = key /\ text[n + 3] = "quote" /\ text[n + 4] = "colon"
    /\ Has(text, n + 4, v) /\ (n + 4) + Len(v) <= Len(text)

LEMMA MemberHas ==
  ASSUME NEW text, Len(text) \in Nat, NEW n \in Nat, NEW key, NEW v, IsText(v), Has(text, n, Member(key, v))
  PROVE  MemberIn(text, n, key, v)
<1> DEFINE w == <<key>>
           k == Quoted(w)
           c == <<"colon">>
           d == k \o c
<1>1. IsText(w) /\ Len(w) = 1 /\ w[1] = key /\ IsText(c) /\ Len(c) = 1 /\ c[1] = "colon"
  BY WordText
<1>2. Member(key, v) = d \o v /\ k = <<"quote">> \o w \o <<"quote">>
  BY DEF Member, Quoted
<1> HIDE DEF w, c
<1>3. /\ IsText(k) /\ Len(k) = 3
      /\ \A t, m : Len(t) \in Nat /\ m \in Nat /\ Has(t, m, k) =>
            Has(t, m, <<"quote">>) /\ Has(t, m + 1, w) /\ Has(t, (m + 1) + 1, <<"quote">>)
  <2> DEFINE x == <<"quote">> \o w \o <<"quote">>
  <2>1. /\ IsText(x) /\ Len(x) = Len(w) + 2
        /\ \A t, m : Len(t) \in Nat /\ m \in Nat /\ Has(t, m, x) =>
              Has(t, m, <<"quote">>) /\ Has(t, m + 1, w) /\ Has(t, (m + 1) + Len(w), <<"quote">>)
    BY <1>1, BracketsHas
  <2>2. k = x
    BY <1>2
  <2> HIDE DEF x, k
  <2> QED
    BY <1>1, <2>1, <2>2
<1> HIDE DEF k
<1>4. IsText(d) /\ Len(d) = 4
  <2>1. Joined(d, k, c)
    BY <1>1, <1>3, ConcatJoined, Zenon
  <2> HIDE DEF d
  <2> QED
    BY <1>1, <1>3, <2>1 DEF Joined
<1>5. Has(text, n, d) /\ Has(text, n + 4, v)
  <2> HIDE DEF d
  <2> QED
    BY <1>2, <1>4, HasConcat
<1>6. Has(text, n, k) /\ Has(text, n + 3, c)
  BY <1>1, <1>3, <1>5, HasConcat
<1>7. Has(text, n, <<"quote">>) /\ Has(text, n + 1, w) /\ Has(text, (n + 1) + 1, <<"quote">>)
  BY <1>3, <1>6
<1>8. text[n + 1] = "quote"
  BY <1>7, HasWord
<1>9. text[n + 2] = key
  <2>1. text[(n + 1) + 1] = w[1]
    BY <1>1, <1>7 DEF Has
  <2> QED
    BY <1>1, <2>1
<1>10. text[n + 3] = "quote"
  <2> DEFINE m == (n + 1) + 1
  <2>1. m \in Nat /\ m + 1 = n + 3 /\ Has(text, m, <<"quote">>)
    BY <1>7
  <2> HIDE DEF m
  <2>2. text[m + 1] = "quote"
    BY <2>1, HasWord
  <2> QED
    BY <2>1, <2>2
<1>11. text[n + 4] = "colon"
  <2>1. text[(n + 3) + 1] = c[1]
    BY <1>1, <1>6 DEF Has
  <2> QED
    BY <1>1, <2>1
<1>12. (n + 4) + Len(v) <= Len(text)
  BY <1>5 DEF Has
<1> QED
  BY <1>5, <1>8, <1>9, <1>10, <1>11, <1>12 DEF MemberIn

(* the symbols of a quoted text *)
LEMMA QuotedHas ==
  ASSUME NEW text, Len(text) \in Nat, NEW n \in Nat, NEW v, IsText(v), Has(text, n, Quoted(v))
  PROVE  text[n + 1] = "quote" /\ Has(text, n + 1, v) /\ text[(n + 2) + Len(v)] = "quote"
<1> DEFINE x == <<"quote">> \o v \o <<"quote">>
<1>1. \A t, m : Len(t) \in Nat /\ m \in Nat /\ Has(t, m, x) =>
            Has(t, m, <<"quote">>) /\ Has(t, m + 1, v) /\ Has(t, (m + 1) + Len(v), <<"quote">>)
  BY BracketsHas
<1>2. Quoted(v) = x
  BY DEF Quoted
<1> HIDE DEF x
<1>3. Has(text, n, <<"quote">>) /\ Has(text, n + 1, v) /\ Has(text, (n + 1) + Len(v), <<"quote">>)
  BY <1>1, <1>2
<1>4. text[n + 1] = "quote"
  BY <1>3, HasWord
<1>5. text[(n + 2) + Len(v)] = "quote"
  <2> DEFINE m == (n + 1) + Len(v)
  <2>1. m \in Nat /\ m + 1 = (n + 2) + Len(v) /\ Has(text, m, <<"quote">>)
    BY <1>3 DEF IsText
  <2> HIDE DEF m
  <2>2. text[m + 1] = "quote"
    BY <2>1, HasWord
  <2> QED
    BY <2>1, <2>2
<1> QED
  BY <1>3, <1>4, <1>5

(* A quote in an escaped text has a backslash before it. *)
Guarded(t) == IsText(t) /\ \A i \in 1 .. Len(t) : t[i] = "quote" => i > 1 /\ t[i - 1] = "bslash"

LEMMA GuardedConcat ==
  ASSUME NEW a, NEW b, Guarded(a), Guarded(b)
  PROVE  Guarded(a \o b)
<1> DEFINE c == a \o b
<1>1. IsText(a) /\ IsText(b) /\ Len(a) \in Nat /\ Len(b) \in Nat
  BY DEF Guarded, IsText
<1>2. Joined(c, a, b)
  BY <1>1, ConcatJoined, Zenon
<1> HIDE DEF c
<1>3. ASSUME NEW i \in 1 .. Len(c), c[i] = "quote"
      PROVE  i > 1 /\ c[i - 1] = "bslash"
  <2>1. CASE i \in 1 .. Len(a)
    <3>1. a[i] = "quote"
      BY <1>2, <1>3, <2>1 DEF Joined
    <3>2. i > 1 /\ a[i - 1] = "bslash"
      BY <2>1, <3>1 DEF Guarded
    <3>3. i - 1 \in 1 .. Len(a)
      BY <1>1, <2>1, <3>2
    <3> QED
      BY <1>2, <3>2, <3>3 DEF Joined
  <2>2. CASE ~ (i <= Len(a))
    <3> DEFINE j == i - Len(a)
    <3>1. j \in 1 .. Len(b) /\ Len(a) + j = i /\ i - 1 = Len(a) + (j - 1)
      BY <1>1, <1>2, <2>2 DEF Joined
    <3> HIDE DEF j
    <3>2. b[j] = "quote"
      BY <1>2, <1>3, <3>1 DEF Joined
    <3>3. j > 1 /\ b[j - 1] = "bslash"
      BY <3>1, <3>2 DEF Guarded
    <3>4. j - 1 \in 1 .. Len(b) /\ i > 1
      BY <1>1, <3>1, <3>3
    <3>5. c[Len(a) + (j - 1)] = b[j - 1]
      BY <1>2, <3>4 DEF Joined
    <3> QED
      BY <3>1, <3>3, <3>4, <3>5
  <2> QED
    BY <1>1, <2>1, <2>2
<1>4. Guarded(c)
  BY <1>2, <1>3 DEF Guarded, Joined
<1> QED
  BY <1>4 DEF c

LEMMA GuardedChar ==
  ASSUME NEW ch
  PROVE  Guarded(EscapeChar(ch))
<1>0. IsText(EscapeChar(ch))
  BY EscapeCharClean, Zenon DEF Clean
<1>1. CASE ch \in DOMAIN Letter
  <2>1. EscapeChar(ch) = <<"bslash", Letter[ch]>>
    BY <1>1 DEF EscapeChar
  <2>2. /\ Len(EscapeChar(ch)) = 2 /\ EscapeChar(ch)[1] = "bslash"
    BY <2>1, TwoText
  <2>3. \A i \in 1 .. 2 : i = 1 \/ (i > 1 /\ i - 1 = 1)
    OBVIOUS
  <2> QED
    BY <1>0, <2>2, <2>3 DEF Guarded
<1>2. CASE ch \notin DOMAIN Letter /\ ch \in Control
  <2>1. EscapeChar(ch) = <<"bslash", "u", "0", "0", "0", "1">>
    BY <1>2 DEF EscapeChar, Unicode, ControlCode
  <2>2. \A i \in 1 .. Len(EscapeChar(ch)) : EscapeChar(ch)[i] # "quote"
    BY <2>1
  <2> QED
    BY <1>0, <2>2 DEF Guarded
<1>3. CASE ch \notin DOMAIN Letter /\ ch \notin Control
  <2>1. EscapeChar(ch) = <<ch>> /\ ch # "quote"
    BY <1>3 DEF EscapeChar, Letter
  <2>2. Len(EscapeChar(ch)) = 1 /\ EscapeChar(ch)[1] # "quote"
    BY <2>1, WordText
  <2> QED
    BY <1>0, <2>2 DEF Guarded
<1> QED
  BY <1>1, <1>2, <1>3

LEMMA GuardedEscaped ==
  ASSUME NEW s, IsText(s), Len(s) # 0
  PROVE  Guarded(FlattenSeq(EscapeParts(s)))
<1> DEFINE p == EscapeParts(s)
<1>1. /\ Len(p) = Len(s) /\ Len(p) \in Nat /\ Len(p) # 0
      /\ \A i \in 1 .. Len(p) : p[i] = EscapeChar(s[i])
  BY EscapePartsText DEF IsText
<1> HIDE DEF p
<1>2. \A i \in 1 .. Len(p) : Guarded(p[i])
  BY <1>1, GuardedChar
<1>3. PICK f : /\ FlattenSeq(p) = f[Len(p)] /\ f[1] = p[1]
               /\ \A i \in 2 .. Len(p) : f[i] = f[i - 1] \o p[i]
  BY <1>1, FlattenTurns
<1> DEFINE T == {i \in Nat : i + 1 <= Len(p) => Guarded(f[i + 1])}
<1>4. 0 \in T
  BY <1>1, <1>2, <1>3
<1>5. ASSUME NEW i \in Nat, i \in T
      PROVE  i + 1 \in T
  <2> SUFFICES ASSUME (i + 1) + 1 <= Len(p) PROVE Guarded(f[(i + 1) + 1])
    OBVIOUS
  <2>1. i + 1 <= Len(p) /\ (i + 1) + 1 \in 2 .. Len(p) /\ (i + 1) + 1 \in 1 .. Len(p)
        /\ ((i + 1) + 1) - 1 = i + 1
    BY <1>1
  <2>2. Guarded(f[i + 1]) /\ Guarded(p[(i + 1) + 1])
    BY <1>2, <1>5, <2>1
  <2>3. f[(i + 1) + 1] = f[i + 1] \o p[(i + 1) + 1]
    BY <1>3, <2>1
  <2> QED
    BY <2>2, <2>3, GuardedConcat
<1>6. \A i \in Nat : i \in T
  <2> HIDE DEF T
  <2>1. \A i \in Nat : i \in T => i + 1 \in T
    BY <1>5, Zenon
  <2> QED
    BY <1>4, <2>1, SetInduction, Zenon
<1>7. Len(p) - 1 \in T
  BY <1>1, <1>6
<1> QED
  BY <1>1, <1>3, <1>7 DEF p

(* where number i of a body with one path begins, at its comma *)
NumberPlace(p, i) == (7 + p) + 6 * (i - 1)

NumberIn(B, p, c, i) ==
    LET b == NumberPlace(p, i)
    IN  /\ B[b + 1] = "comma" /\ B[b + 2] = "quote" /\ B[b + 3] = Keys(c.op)[i]
        /\ B[b + 4] = "quote" /\ B[b + 5] = "colon" /\ B[b + 6] = c.nums[i]

PathIn(B, key, P) ==
    /\ B[1] = "lbrace" /\ B[2] = "quote" /\ B[3] = key /\ B[4] = "quote" /\ B[5] = "colon" /\ B[6] = "quote"
    /\ Has(B, 6, P) /\ B[7 + Len(P)] = "quote"

PathLaid(B, c, P) ==
    /\ IsText(B) /\ Len(B) = (8 + Len(P)) + 6 * Len(c.nums) /\ PathIn(B, "path", P)
    /\ \A i \in 1 .. Len(c.nums) : NumberIn(B, Len(P), c, i)

LEMMA FirstMember ==
  ASSUME NEW B, Len(B) \in Nat, NEW key, NEW P, IsText(P), Has(B, 0, <<"lbrace">>),
         Has(B, 1, Member(key, Quoted(P)))
  PROVE  PathIn(B, key, P)
<1>1. IsText(Quoted(P))
  BY QuotedText
<1> DEFINE q == Quoted(P)
<1> HIDE DEF q
<1>2. MemberIn(B, 1, key, q)
  BY <1>1, MemberHas DEF q
<1>3. /\ B[1 + 1] = "quote" /\ B[1 + 2] = key /\ B[1 + 3] = "quote" /\ B[1 + 4] = "colon"
      /\ Has(B, 1 + 4, q)
  BY <1>2 DEF MemberIn
<1> DEFINE n == 1 + 4
<1>4. n \in Nat /\ n = 5
  OBVIOUS
<1> HIDE DEF n
<1>5. B[n + 1] = "quote" /\ Has(B, n + 1, P) /\ B[(n + 2) + Len(P)] = "quote"
  BY <1>3, <1>4, QuotedHas DEF q, n
<1>6. B[0 + 1] = "lbrace"
  BY HasWord
<1>7. n + 1 = 6 /\ (n + 2) + Len(P) = 7 + Len(P)
  BY <1>4 DEF IsText
<1> QED
  BY <1>3, <1>5, <1>6, <1>7 DEF PathIn

LEMMA PathBodyLaid ==
  ASSUME NEW c, GoodCall(c), c.op # "rename", NEW P, IsText(P), NEW to
  PROVE  PathLaid(Body(c, P, to), c, P)
<1> DEFINE ms == PathMembers(c, P)
           m1 == Member("path", Quoted(P))
           B == Object(ms)
           k == Commas(ms)
           p == Len(P)
           n == Len(c.nums)
<1>1. Body(c, P, to) = B
  BY DEF Body, PathMembers, NumberMember
<1>2. /\ IsText(ms) /\ Len(ms) = 1 + n /\ ms[1] = m1
      /\ \A i \in 1 .. n : ms[1 + i] = NumberMember(c, i)
  BY PathMembersAre
<1>3. n \in Nat /\ p \in Nat
  BY DEF GoodCall, IsText
<1>4. IsText(m1) /\ Len(m1) = 6 + p
  <2>1. IsText(Quoted(P)) /\ Len(Quoted(P)) = p + 2
    BY QuotedText
  <2>2. IsText(m1) /\ Len(m1) = 4 + Len(Quoted(P))
    BY <2>1, AnyMemberText, Zenon
  <2> QED
    BY <1>3, <2>1, <2>2
<1>5. ASSUME NEW i \in 1 .. n
      PROVE  IsText(NumberMember(c, i)) /\ Len(NumberMember(c, i)) = 5
  <2> DEFINE v == <<c.nums[i]>>
  <2>1. IsText(v) /\ Len(v) = 1
    BY WordText
  <2> HIDE DEF v
  <2>2. IsText(Member(Keys(c.op)[i], v)) /\ Len(Member(Keys(c.op)[i], v)) = 4 + Len(v)
    BY <2>1, AnyMemberText, Zenon
  <2> QED
    BY <2>1, <2>2 DEF NumberMember, v
<1> HIDE DEF ms, m1
<1>6. \A i \in 1 .. Len(ms) : IsText(ms[i])
  <2> SUFFICES ASSUME NEW i \in 1 .. Len(ms) PROVE IsText(ms[i])
    OBVIOUS
  <2>1. CASE i = 1
    BY <1>2, <1>4, <2>1
  <2>2. CASE i # 1
    <3> DEFINE j == i - 1
    <3>1. j \in 1 .. n /\ 1 + j = i
      BY <1>2, <1>3, <2>2
    <3> HIDE DEF j
    <3>2. ms[1 + j] = NumberMember(c, j) /\ IsText(NumberMember(c, j))
      BY <1>2, <1>5, <3>1
    <3> QED
      BY <3>1, <3>2
  <2> QED
    BY <2>1, <2>2
<1>7. IsText(k) /\ Len(k) \in Nat
  <2>1. Len(ms) # 0
    BY <1>2, <1>3
  <2>2. IsText(k)
    BY <1>2, <1>6, <2>1, CommasText, Zenon
  <2> QED
    BY <2>2 DEF IsText
<1>8. B = <<"lbrace">> \o k \o <<"rbrace">>
  BY DEF Object
<1> HIDE DEF k
<1> DEFINE br == <<"lbrace">> \o k \o <<"rbrace">>
<1>9. /\ IsText(br) /\ Len(br) = Len(k) + 2
      /\ \A t, m : Len(t) \in Nat /\ m \in Nat /\ Has(t, m, br) =>
            Has(t, m, <<"lbrace">>) /\ Has(t, m + 1, k) /\ Has(t, (m + 1) + Len(k), <<"rbrace">>)
  BY <1>7, BracketsHas
<1>10. B = br
  BY <1>8
<1> HIDE DEF br, B
<1>11. IsText(B) /\ Len(B) = Len(k) + 2 /\ Len(B) \in Nat
  BY <1>7, <1>9, <1>10
<1>12. Has(B, 0, B)
  BY <1>11 DEF Has
<1>13. Has(B, 0, <<"lbrace">>) /\ Has(B, 1, k)
  <2>1. Has(B, 0, <<"lbrace">>) /\ Has(B, 0 + 1, k)
    BY <1>9, <1>10, <1>11, <1>12
  <2> QED
    BY <2>1
<1>14. PICK at : Separated(B, ms, 1, at)
  <2>1. Len(ms) # 0
    BY <1>2, <1>3
  <2>2. Has(B, 1, Commas(ms)) /\ 1 \in Nat
    BY <1>13 DEF k
  <2> QED
    BY <1>2, <1>6, <1>11, <2>1, <2>2, CommasHas
<1>15. /\ at[1] = 1 /\ at[1 + n] + Len(ms[1 + n]) = 1 + Len(k)
       /\ \A i \in 1 .. 1 + n : at[i] \in Nat /\ Has(B, at[i], ms[i])
       /\ \A i \in 1 .. n : Has(B, at[i] + Len(ms[i]), <<"comma">>) /\ at[i + 1] = (at[i] + Len(ms[i])) + 1
  <2>1. Len(ms) = 1 + n /\ Len(ms) - 1 = n
    BY <1>2, <1>3
  <2> QED
    BY <1>14, <2>1 DEF Separated, k
<1>16. PathIn(B, "path", P)
  <2>1. Has(B, 1, Member("path", Quoted(P)))
    <3>1. 1 \in 1 .. 1 + n
      BY <1>3
    <3>2. Has(B, at[1], ms[1])
      BY <1>15, <3>1
    <3> QED
      BY <1>2, <1>15, <3>2 DEF m1
  <2> QED
    BY <1>11, <1>13, <2>1, FirstMember
<1> HIDE DEF p, n
<1> DEFINE claim(i) == i <= n => at[i] + Len(ms[i]) = NumberPlace(p, i)
           T == {i \in Nat : i + 1 <= n + 1 => at[i + 1] + Len(ms[i + 1]) = NumberPlace(p, i + 1)}
<1>17. 0 \in T
  <2>1. at[1] + Len(ms[1]) = 7 + p
    BY <1>2, <1>3, <1>4, <1>15
  <2>2. NumberPlace(p, 1) = 7 + p
    BY <1>3 DEF NumberPlace
  <2> QED
    BY <2>1, <2>2
<1>18. ASSUME NEW i \in Nat, i \in T
       PROVE  i + 1 \in T
  <2> SUFFICES ASSUME (i + 1) + 1 <= n + 1 PROVE at[(i + 1) + 1] + Len(ms[(i + 1) + 1]) = NumberPlace(p, (i + 1) + 1)
    OBVIOUS
  <2> DEFINE j == i + 1
  <2>1. j \in 1 .. n /\ 1 + j = j + 1 /\ j <= n + 1
    BY <1>3
  <2>2. at[j] + Len(ms[j]) = NumberPlace(p, j)
    BY <1>3, <1>18, <2>1
  <2> HIDE DEF j
  <2>3. at[j + 1] = NumberPlace(p, j) + 1 /\ Len(ms[j + 1]) = 5
    BY <1>2, <1>5, <1>15, <2>1, <2>2
  <2>4. (NumberPlace(p, j) + 1) + 5 = NumberPlace(p, j + 1)
    BY <1>3, <2>1 DEF NumberPlace
  <2>5. at[j + 1] + Len(ms[j + 1]) = NumberPlace(p, j + 1)
    BY <2>3, <2>4
  <2> QED
    BY <2>5 DEF j
<1>19. \A i \in Nat : i \in T
  <2> HIDE DEF T
  <2>1. \A i \in Nat : i \in T => i + 1 \in T
    BY <1>18, Zenon
  <2> QED
    BY <1>17, <2>1, SetInduction, Zenon
<1>20. ASSUME NEW i \in 1 .. n + 1
       PROVE  at[i] + Len(ms[i]) = NumberPlace(p, i)
  <2> DEFINE j == i - 1
  <2>1. j \in Nat /\ j + 1 = i
    BY <1>3
  <2> HIDE DEF j
  <2>2. j \in T
    BY <1>19, <2>1
  <2> QED
    BY <1>3, <2>1, <2>2
<1> HIDE DEF T
<1>21. Len(B) = (8 + p) + 6 * n
  <2>1. n + 1 \in 1 .. n + 1 /\ 1 + n = n + 1
    BY <1>3
  <2>2. 1 + Len(k) = NumberPlace(p, n + 1)
    BY <1>15, <1>20, <2>1
  <2>3. NumberPlace(p, n + 1) = (7 + p) + 6 * n
    BY <1>3 DEF NumberPlace
  <2> QED
    BY <1>3, <1>7, <1>11, <2>2, <2>3
<1>22. ASSUME NEW i \in 1 .. n
       PROVE  NumberIn(B, p, c, i)
  <2> DEFINE b == NumberPlace(p, i)
             key == Keys(c.op)[i]
             v == <<c.nums[i]>>
  <2>1. b \in Nat
    BY <1>3 DEF NumberPlace
  <2>2. at[i] + Len(ms[i]) = b /\ 1 + i = i + 1 /\ i + 1 \in 1 .. 1 + n
    <3>1. i \in 1 .. n + 1 /\ 1 + i = i + 1 /\ i + 1 \in 1 .. 1 + n
      BY <1>3
    <3> QED
      BY <1>20, <3>1
  <2>3. Has(B, b, <<"comma">>) /\ Has(B, b + 1, Member(key, v))
    <3>1. Has(B, at[i] + Len(ms[i]), <<"comma">>) /\ at[i + 1] = (at[i] + Len(ms[i])) + 1
      BY <1>15
    <3>2. Has(B, at[i + 1], ms[i + 1])
      BY <1>15, <2>2
    <3>3. ms[i + 1] = NumberMember(c, i)
      BY <1>2, <2>2
    <3> QED
      BY <2>2, <3>1, <3>2, <3>3 DEF NumberMember
  <2> HIDE DEF b, key
  <2>4. B[b + 1] = "comma"
    BY <1>11, <2>1, <2>3, HasWord
  <2>5. IsText(v)
    BY WordText
  <2>6. v = <<c.nums[i]>>
    OBVIOUS
  <2> HIDE DEF v
  <2> DEFINE d == b + 1
  <2>7. d \in Nat /\ d + 1 = b + 2 /\ d + 2 = b + 3 /\ d + 3 = b + 4 /\ d + 4 = b + 5 /\ b + 5 \in Nat /\ (b + 5) + 1 = b + 6
    BY <2>1
  <2>8. Has(B, d, Member(key, v))
    BY <2>3
  <2> HIDE DEF d
  <2>9. MemberIn(B, d, key, v)
    BY <1>11, <2>5, <2>7, <2>8, MemberHas
  <2>10. /\ B[b + 2] = "quote" /\ B[b + 3] = key /\ B[b + 4] = "quote" /\ B[b + 5] = "colon"
         /\ Has(B, b + 5, v)
    BY <2>7, <2>9 DEF MemberIn
  <2>11. B[b + 6] = c.nums[i]
    <3> DEFINE e == b + 5
    <3> HIDE DEF e
    <3>1. B[e + 1] = c.nums[i]
      BY <1>11, <2>6, <2>7, <2>10, HasWord DEF e
    <3> QED
      BY <2>7, <3>1 DEF e
  <2> QED
    BY <2>4, <2>10, <2>11 DEF NumberIn, b, key
<1> QED
  BY <1>1, <1>11, <1>16, <1>21, <1>22 DEF PathLaid, p, n

(* The second path of a rename, from place b on *)
SecondIn(B, b, T) ==
    /\ B[b] = "comma" /\ B[b + 1] = "quote" /\ B[b + 2] = "new_path" /\ B[b + 3] = "quote"
    /\ B[b + 4] = "colon" /\ B[b + 5] = "quote" /\ Has(B, b + 5, T) /\ B[(b + 6) + Len(T)] = "quote"

PathsLaid(B, P, T) ==
    /\ IsText(B) /\ Len(B) = (15 + Len(P)) + Len(T) /\ PathIn(B, "old_path", P)
    /\ SecondIn(B, 8 + Len(P), T)

LEMMA RenameBodyLaid ==
  ASSUME NEW c, c.op = "rename", NEW P, IsText(P), NEW T, IsText(T)
  PROVE  PathsLaid(Body(c, P, T), P, T)
<1> DEFINE m1 == Member("old_path", Quoted(P))
           m2 == Member("new_path", Quoted(T))
           ms == <<m1, m2>>
           B == Object(ms)
           k == Commas(ms)
           p == Len(P)
           q == Len(T)
<1>1. Body(c, P, T) = B
  BY DEF Body
<1>2. p \in Nat /\ q \in Nat
  BY DEF IsText
<1>3. IsText(m1) /\ Len(m1) = 6 + p /\ IsText(m2) /\ Len(m2) = 6 + q
  <2>1. IsText(Quoted(P)) /\ Len(Quoted(P)) = p + 2 /\ IsText(Quoted(T)) /\ Len(Quoted(T)) = q + 2
    BY QuotedText
  <2>2. IsText(m1) /\ Len(m1) = 4 + Len(Quoted(P)) /\ IsText(m2) /\ Len(m2) = 4 + Len(Quoted(T))
    BY <2>1, AnyMemberText, Zenon
  <2> QED
    BY <1>2, <2>1, <2>2
<1> HIDE DEF m1, m2
<1>4. IsText(ms) /\ Len(ms) = 2 /\ ms[1] = m1 /\ ms[2] = m2
  BY TwoText
<1> HIDE DEF ms
<1>5. \A i \in 1 .. Len(ms) : IsText(ms[i])
  <2>1. \A i \in 1 .. 2 : i = 1 \/ i = 2
    OBVIOUS
  <2> QED
    BY <1>3, <1>4, <2>1
<1>6. IsText(k) /\ Len(k) \in Nat
  <2>1. IsText(k)
    BY <1>4, <1>5, AnyCommasText, Zenon
  <2> QED
    BY <2>1 DEF IsText
<1>7. B = <<"lbrace">> \o k \o <<"rbrace">>
  BY DEF Object
<1> HIDE DEF k
<1> DEFINE br == <<"lbrace">> \o k \o <<"rbrace">>
<1>8. /\ IsText(br) /\ Len(br) = Len(k) + 2
      /\ \A t, m : Len(t) \in Nat /\ m \in Nat /\ Has(t, m, br) =>
            Has(t, m, <<"lbrace">>) /\ Has(t, m + 1, k) /\ Has(t, (m + 1) + Len(k), <<"rbrace">>)
  BY <1>6, BracketsHas
<1>9. B = br
  BY <1>7
<1> HIDE DEF br, B
<1>10. IsText(B) /\ Len(B) = Len(k) + 2 /\ Len(B) \in Nat
  BY <1>6, <1>8, <1>9
<1>11. Has(B, 0, B)
  BY <1>10 DEF Has
<1>12. Has(B, 0, <<"lbrace">>) /\ Has(B, 1, k)
  <2>1. Has(B, 0, <<"lbrace">>) /\ Has(B, 0 + 1, k)
    BY <1>8, <1>9, <1>10, <1>11
  <2> QED
    BY <2>1
<1>13. PICK at : Separated(B, ms, 1, at)
  <2>1. Len(ms) # 0
    BY <1>4
  <2>2. Has(B, 1, Commas(ms)) /\ 1 \in Nat
    BY <1>12 DEF k
  <2> QED
    BY <1>4, <1>5, <1>10, <2>1, <2>2, CommasHas
<1>14. /\ at[1] = 1 /\ at[2] + Len(m2) = 1 + Len(k)
       /\ Has(B, at[1], m1) /\ Has(B, at[2], m2)
       /\ Has(B, at[1] + Len(m1), <<"comma">>) /\ at[2] = (at[1] + Len(m1)) + 1
  <2>1. 1 \in 1 .. Len(ms) /\ 2 \in 1 .. Len(ms) /\ 1 \in 1 .. Len(ms) - 1 /\ 1 + 1 = 2
    BY <1>4
  <2> QED
    BY <1>4, <1>13, <2>1 DEF Separated, k
<1> DEFINE b == 8 + p
<1>15. b \in Nat /\ at[2] = b /\ at[1] + Len(m1) = 7 + p
  BY <1>2, <1>3, <1>14
<1>16. PathIn(B, "old_path", P)
  <2>1. Has(B, 1, Member("old_path", Quoted(P)))
    BY <1>14 DEF m1
  <2> QED
    BY <1>10, <1>12, <2>1, FirstMember
<1>17. B[b] = "comma"
  <2> DEFINE d == 7 + p
  <2>1. d \in Nat /\ d + 1 = b /\ Has(B, d, <<"comma">>)
    BY <1>2, <1>14, <1>15
  <2> HIDE DEF d, b
  <2>2. B[d + 1] = "comma"
    BY <1>10, <2>1, HasWord
  <2> QED
    BY <2>1, <2>2
<1>18. SecondIn(B, b, T)
  <2> HIDE DEF b
  <2> DEFINE v == Quoted(T)
  <2>1. IsText(v)
    BY QuotedText
  <2> HIDE DEF v
  <2>2. MemberIn(B, b, "new_path", v)
    <3>1. Has(B, b, Member("new_path", v))
      BY <1>14, <1>15 DEF m2, v
    <3> QED
      BY <1>10, <1>15, <2>1, <3>1, MemberHas
  <2>3. /\ B[b + 1] = "quote" /\ B[b + 2] = "new_path" /\ B[b + 3] = "quote" /\ B[b + 4] = "colon"
        /\ Has(B, b + 4, v)
    BY <2>2 DEF MemberIn
  <2> DEFINE n == b + 4
  <2>4. n \in Nat /\ n + 1 = b + 5 /\ (n + 2) + q = (b + 6) + q /\ Has(B, n, v)
    BY <1>2, <1>15, <2>3
  <2> HIDE DEF n
  <2>5. B[n + 1] = "quote" /\ Has(B, n + 1, T) /\ B[(n + 2) + Len(T)] = "quote"
    BY <1>10, <2>4, QuotedHas DEF v
  <2> QED
    BY <1>17, <2>3, <2>4, <2>5 DEF SecondIn
<1>19. Len(B) = (15 + p) + q
  <2> DEFINE x == Len(k)
             y == at[2]
             z == Len(m2)
             w == Len(B)
  <2>1. x \in Nat /\ y = 8 + p /\ z = 6 + q /\ y + z = 1 + x /\ w = x + 2
    BY <1>3, <1>6, <1>10, <1>14, <1>15
  <2> HIDE DEF x, y, z, w, p, q
  <2>2. w = (15 + p) + q
    BY <1>2, <2>1
  <2> QED
    BY <2>2 DEF w
<1> QED
  BY <1>1, <1>10, <1>16, <1>18, <1>19 DEF PathsLaid

-----------------------------------------------------------------------------
(* What json_get_string makes of an escaped path *)

(* The state of json_get_string while it reads a string *)
Holds(text) == [mode |-> "string", text |-> text]

LEMMA UnquoteStays ==
  ASSUME NEW s, s.mode \in {"done", "failed"}, NEW ch, NEW size
  PROVE  Unquote(s, ch, size) = s
BY DEF Unquote

LEMMA UnquoteEnd ==
  ASSUME NEW t, NEW size
  PROVE  LET q == Unquote(Holds(t), "quote", size) IN q.mode = "done" /\ q.text = t
BY DEF Unquote, Holds

(* A symbol that is put into output[], or for which there is no room *)
Put(t, ch, q) == q.mode = "failed" \/ q = Holds(Append(t, ch))

LEMMA UnquotePut ==
  ASSUME NEW t, NEW size, NEW ch, ch \notin {"quote", "bslash"}
  PROVE  Put(t, ch, Unquote(Holds(t), ch, size))
BY DEF Unquote, Holds, Put

LEMMA UnquoteEscape ==
  ASSUME NEW t, NEW size
  PROVE  Unquote(Holds(t), "bslash", size) = [mode |-> "escape", text |-> t]
BY DEF Unquote, Holds

LEMMA UnquoteKnown ==
  ASSUME NEW t, NEW size, NEW ch
  PROVE  LET q == Unquote([mode |-> "escape", text |-> t], ch, size) IN
         /\ ch \in DOMAIN Known => Put(t, Known[ch], q)
         /\ ch \notin DOMAIN Known => q.mode = "failed"
BY DEF Unquote, Holds, Put

(* The letters that both json_escape_string and json_get_string know are    *)
(* read as what they were written for.                                      *)
LEMMA LetterKnown ==
  ASSUME NEW ch \in DOMAIN Letter, Letter[ch] \in DOMAIN Known
  PROVE  Known[Letter[ch]] = ch
<1>1. ch \in {"quote", "bslash", "bsp", "ff", "nl", "cr", "tab"}
  BY DEF Letter
<1>2. CASE ch = "quote"
  BY <1>2 DEF Letter, Known
<1>3. CASE ch = "bslash"
  BY <1>3 DEF Letter, Known
<1>4. CASE ch = "bsp"
  BY <1>4 DEF Letter, Known
<1>5. CASE ch = "ff"
  BY <1>5 DEF Letter, Known
<1>6. CASE ch = "nl"
  BY <1>6 DEF Letter, Known
<1>7. CASE ch = "cr"
  BY <1>7 DEF Letter, Known
<1>8. CASE ch = "tab"
  BY <1>8 DEF Letter, Known
<1> QED
  BY <1>1, <1>2, <1>3, <1>4, <1>5, <1>6, <1>7, <1>8

(* The states of json_get_string, symbol by symbol *)
Unquotes(B, from, size, read) ==
    /\ Len(B) \in Nat /\ from \in Nat
    /\ \A i \in 0 .. Len(B) : i <= from => read[i] = Holds(<<>>)
    /\ \A i \in 0 .. Len(B) : i > from => read[i] = Unquote(read[i - 1], B[i], size)

LEMMA GetStringTurns ==
  ASSUME NEW B, Len(B) \in Nat, NEW key, NEW size,
         EndOfFirst(B, KeyPattern(key) \o <<"quote">>) \in Nat \ {0}
  PROVE  LET from == EndOfFirst(B, KeyPattern(key) \o <<"quote">>) IN
         \E read : /\ Unquotes(B, from, size, read)
                   /\ json_get_string(B, key, size) =
                        IF read[Len(B)].mode # "done" THEN Failed ELSE Made(read[Len(B)].text)
<1> DEFINE from == EndOfFirst(B, KeyPattern(key) \o <<"quote">>)
           zero == Holds(<<>>)
           step(p, n) == Unquote(p, B[n], size)
           solves(g, k) == g = [n \in 0 .. k |-> IF n <= from THEN zero ELSE step(g[n - 1], n)]
           T == {k \in Nat : \E g : solves(g, k)}
           read == CHOOSE x : solves(x, Len(B))
<1>f. from \in Nat
  <2> HIDE DEF zero, step
  <2> QED
    BY Zenon
<1>0. json_get_string(B, key, size) = IF read[Len(B)].mode # "done" THEN Failed ELSE Made(read[Len(B)].text)
  <2>1. json_get_string(B, key, size) =
          IF from = 0 \/ read[Len(B)].mode # "done" THEN Failed ELSE Made(read[Len(B)].text)
    BY Zenon DEF json_get_string, Holds
  <2> HIDE DEF read, from
  <2> QED
    BY <2>1 DEF from
<1> HIDE DEF step, zero, from
<1>1. 0 \in T
  <2>1. solves([n \in 0 .. 0 |-> zero], 0)
    BY <1>f
  <2> QED
    BY <2>1
<1>2. ASSUME NEW k \in Nat, k \in T
      PROVE  k + 1 \in T
  <2>1. PICK g : solves(g, k)
    BY <1>2
  <2> DEFINE h == [n \in 0 .. k + 1 |-> IF n <= k THEN g[n] ELSE IF n <= from THEN zero ELSE step(g[k], n)]
  <2>2. \A n \in 0 .. k + 1 : h[n] = IF n <= from THEN zero ELSE step(h[n - 1], n)
    <3> TAKE n \in 0 .. k + 1
    <3>1. CASE n <= k
      <4>1. n \in 0 .. k /\ (~ (n <= from) => n - 1 \in 0 .. k + 1 /\ n - 1 <= k)
        BY <1>f, <3>1
      <4>2. h[n] = g[n] /\ (~ (n <= from) => h[n - 1] = g[n - 1])
        BY <3>1, <4>1
      <4>3. g[n] = IF n <= from THEN zero ELSE step(g[n - 1], n)
        BY <2>1, <4>1
      <4> QED
        BY <4>2, <4>3
    <3>2. CASE n = k + 1
      <4>1. n - 1 = k /\ ~ (n <= k) /\ k \in 0 .. k + 1 /\ k <= k
        BY <3>2
      <4>2. h[n] = (IF n <= from THEN zero ELSE step(g[k], n)) /\ h[n - 1] = g[k]
        BY <4>1
      <4> QED
        BY <3>2, <4>1, <4>2
    <3> QED
      BY <3>1, <3>2
  <2>3. solves(h, k + 1) /\ k + 1 \in Nat
    BY <2>2
  <2> HIDE DEF h, solves
  <2> QED
    BY <2>3
<1>3. \A k \in Nat : k \in T
  <2> HIDE DEF T
  <2>1. \A n \in Nat : n \in T => n + 1 \in T
    BY <1>2, Zenon
  <2> QED
    BY <1>1, <2>1, SetInduction, Zenon
<1>4. PICK g : solves(g, Len(B))
  BY <1>3
<1>5. solves(read, Len(B))
  <2> HIDE DEF solves
  <2> QED
    BY <1>4, Zenon
<1> HIDE DEF read
<1>6. \A n \in 0 .. Len(B) : read[n] = IF n <= from THEN zero ELSE step(read[n - 1], n)
  BY <1>5
<1>7. Unquotes(B, from, size, read)
  BY <1>f, <1>6 DEF zero, step, Unquotes
<1> QED
  BY <1>0, <1>7 DEF from

LEMMA UnquoteNext ==
  ASSUME NEW B, NEW from, NEW size, NEW read, Unquotes(B, from, size, read),
         NEW o \in Nat, from <= o, o + 1 <= Len(B)
  PROVE  read[o + 1] = Unquote(read[o], B[o + 1], size)
<1>1. Len(B) \in Nat /\ from \in Nat /\ \A i \in 0 .. Len(B) : i > from => read[i] = Unquote(read[i - 1], B[i], size)
  BY DEF Unquotes
<1> DEFINE i == o + 1
<1>2. i \in 0 .. Len(B) /\ i > from /\ i - 1 = o
  BY <1>1
<1> HIDE DEF i
<1>3. read[i] = Unquote(read[o], B[i], size)
  BY <1>1, <1>2
<1> QED
  BY <1>3 DEF i

(* After the end of the string, or a failure, nothing changes. *)
LEMMA UnquoteRests ==
  ASSUME NEW B, NEW from, NEW size, NEW read, Unquotes(B, from, size, read),
         NEW o \in Nat, from <= o, o <= Len(B), read[o].mode \in {"done", "failed"},
         NEW d \in Nat, o + d <= Len(B)
  PROVE  read[o + d] = read[o]
<1> DEFINE T == {k \in Nat : o + k <= Len(B) => read[o + k] = read[o]}
<1>0. Len(B) \in Nat /\ from \in Nat
  BY DEF Unquotes
<1>1. 0 \in T
  OBVIOUS
<1>2. ASSUME NEW k \in Nat, k \in T
      PROVE  k + 1 \in T
  <2> DEFINE m == o + k
  <2> SUFFICES ASSUME o + (k + 1) <= Len(B) PROVE read[o + (k + 1)] = read[o]
    OBVIOUS
  <2>1. m \in Nat /\ m + 1 = o + (k + 1) /\ from <= m /\ m + 1 <= Len(B) /\ m <= Len(B)
    BY <1>0
  <2>2. read[m] = read[o]
    BY <1>2, <2>1
  <2> HIDE DEF m
  <2>3. read[m + 1] = Unquote(read[m], B[m + 1], size)
    BY <2>1, UnquoteNext
  <2>4. read[m + 1] = read[o]
    BY <2>2, <2>3, UnquoteStays
  <2> QED
    BY <2>1, <2>4
<1>3. \A k \in Nat : k \in T
  <2> HIDE DEF T
  <2>1. \A n \in Nat : n \in T => n + 1 \in T
    BY <1>2, Zenon
  <2> QED
    BY <1>1, <2>1, SetInduction, Zenon
<1> QED
  BY <1>3

(* What was written for t has been read as t, unless json_get_string failed. *)
Stands(q, t) == q.mode = "failed" \/ q = Holds(t)

LEMMA UnquoteFails ==
  ASSUME NEW B, NEW from, NEW size, NEW read, Unquotes(B, from, size, read),
         NEW o \in Nat, from <= o, o <= Len(B), read[o].mode = "failed", NEW d \in Nat, o + d <= Len(B), NEW t
  PROVE  Stands(read[o + d], t)
<1>1. read[o + d] = read[o]
  BY UnquoteRests
<1> QED
  BY <1>1 DEF Stands

LEMMA UnquotePlain ==
  ASSUME NEW B, NEW from, NEW size, NEW read, Unquotes(B, from, size, read),
         NEW o \in Nat, from <= o, o + 1 <= Len(B), NEW t, Stands(read[o], t),
         B[o + 1] \notin {"quote", "bslash"}
  PROVE  Stands(read[o + 1], Append(t, B[o + 1]))
<1>0. Len(B) \in Nat /\ from \in Nat /\ o <= Len(B)
  BY DEF Unquotes
<1>1. CASE read[o].mode = "failed"
  BY <1>0, <1>1, UnquoteFails
<1>2. CASE read[o] = Holds(t)
  <2>1. read[o + 1] = Unquote(Holds(t), B[o + 1], size)
    BY <1>2, UnquoteNext
  <2>2. Put(t, B[o + 1], read[o + 1])
    BY <2>1, UnquotePut
  <2> QED
    BY <2>2 DEF Put, Stands
<1> QED
  BY <1>1, <1>2 DEF Stands

(* A backslash and a letter: after d symbols, what the letter stands for *)
LEMMA UnquoteLetter ==
  ASSUME NEW B, NEW from, NEW size, NEW read, Unquotes(B, from, size, read),
         NEW o \in Nat, from <= o, NEW d \in Nat, d >= 2, o + d <= Len(B), NEW t, Stands(read[o], t),
         B[o + 1] = "bslash", NEW ch, B[o + 2] \in DOMAIN Known => d = 2 /\ Known[B[o + 2]] = ch
  PROVE  Stands(read[o + d], Append(t, ch))
<1>0. Len(B) \in Nat /\ from \in Nat /\ o <= Len(B)
  BY DEF Unquotes
<1>1. CASE read[o].mode = "failed"
  BY <1>0, <1>1, UnquoteFails
<1>2. CASE read[o] = Holds(t)
  <2> DEFINE m == o + 1
             e == d - 2
             n == o + 2
  <2>0. /\ m \in Nat /\ from <= m /\ m + 1 <= Len(B) /\ m + 1 = n /\ n \in Nat /\ from <= n /\ n <= Len(B)
        /\ e \in Nat /\ n + e = o + d /\ o + 1 <= Len(B) /\ (d = 2 => n = o + d)
    BY <1>0
  <2>1. read[m] = [mode |-> "escape", text |-> t]
    <3>1. read[o + 1] = Unquote(Holds(t), "bslash", size)
      BY <1>2, <2>0, UnquoteNext
    <3> QED
      BY <3>1, UnquoteEscape
  <2>2. B[n] \in DOMAIN Known => d = 2 /\ Known[B[n]] = ch
    OBVIOUS
  <2> HIDE DEF m, e, n
  <2>3. read[m + 1] = Unquote(read[m], B[m + 1], size)
    BY <2>0, UnquoteNext
  <2>4. read[n] = Unquote([mode |-> "escape", text |-> t], B[n], size)
    BY <2>0, <2>1, <2>3
  <2>5. CASE B[n] \in DOMAIN Known
    <3>1. Put(t, ch, read[n])
      BY <2>2, <2>4, <2>5, UnquoteKnown
    <3> QED
      BY <2>0, <2>2, <2>5, <3>1 DEF Put, Stands
  <2>6. CASE B[n] \notin DOMAIN Known
    <3>1. read[n].mode = "failed"
      BY <2>4, <2>6, UnquoteKnown
    <3>2. Stands(read[n + e], Append(t, ch))
      BY <2>0, <3>1, UnquoteFails
    <3> QED
      BY <2>0, <3>2
  <2> QED
    BY <2>5, <2>6
<1> QED
  BY <1>1, <1>2 DEF Stands

LEMMA UnquoteChar ==
  ASSUME NEW B, NEW from, NEW size, NEW read, Unquotes(B, from, size, read),
         NEW o \in Nat, from <= o, NEW ch, Has(B, o, EscapeChar(ch)), NEW t, Stands(read[o], t)
  PROVE  Stands(read[o + Len(EscapeChar(ch))], Append(t, ch))
<1>0. Len(B) \in Nat /\ from \in Nat
  BY DEF Unquotes
<1>1. CASE ch \in DOMAIN Letter
  <2> DEFINE w == Letter[ch]
  <2>1. EscapeChar(ch) = <<"bslash", w>>
    BY <1>1 DEF EscapeChar
  <2>2. Len(<<"bslash", w>>) = 2 /\ <<"bslash", w>>[1] = "bslash" /\ <<"bslash", w>>[2] = w
    OBVIOUS
  <2> HIDE DEF w
  <2>3. o + 2 <= Len(B) /\ B[o + 1] = "bslash" /\ B[o + 2] = w
    <3>1. Has(B, o, <<"bslash", w>>)
      BY <2>1
    <3> QED
      BY <2>2, <3>1 DEF Has
  <2>4. w \in DOMAIN Known => Known[w] = ch
    BY <1>1, LetterKnown DEF w
  <2> DEFINE d == 2
  <2>5. d \in Nat /\ d >= 2 /\ o + d <= Len(B) /\ d = 2
    BY <2>3
  <2> HIDE DEF d
  <2>6. Stands(read[o + d], Append(t, ch))
    BY <2>3, <2>4, <2>5, UnquoteLetter
  <2> QED
    BY <2>1, <2>2, <2>5, <2>6
<1>2. CASE ch \notin DOMAIN Letter /\ ch \in Control
  <2> DEFINE e == <<"bslash", "u", "0", "0", "0", "1">>
             d == 6
  <2>1. EscapeChar(ch) = e
    BY <1>2 DEF EscapeChar, Unicode, ControlCode
  <2>2. Len(e) = d /\ e[1] = "bslash" /\ e[2] = "u" /\ d \in Nat /\ d >= 2
    OBVIOUS
  <2> HIDE DEF e, d
  <2>3. o + d <= Len(B) /\ B[o + 1] = "bslash" /\ B[o + 2] = "u"
    <3>1. Has(B, o, e)
      BY <2>1
    <3> QED
      BY <2>2, <3>1 DEF Has
  <2>4. B[o + 2] \notin DOMAIN Known
    BY <2>3 DEF Known
  <2>5. Stands(read[o + d], Append(t, ch))
    BY <2>2, <2>3, <2>4, UnquoteLetter
  <2> QED
    BY <2>1, <2>2, <2>5
<1>3. CASE ch \notin DOMAIN Letter /\ ch \notin Control
  <2>1. EscapeChar(ch) = <<ch>>
    BY <1>3 DEF EscapeChar
  <2>2. ch \notin {"quote", "bslash"}
    BY <1>3 DEF Letter
  <2>3. o + 1 \in 1 .. Len(B) /\ B[o + 1] = ch
    <3>1. Has(B, o, <<ch>>)
      BY <2>1
    <3> QED
      BY <1>0, <3>1, HasWord
  <2>4. o + 1 <= Len(B)
    BY <1>0, <2>3
  <2>5. Stands(read[o + 1], Append(t, B[o + 1]))
    BY <2>2, <2>3, <2>4, UnquotePlain
  <2>6. Len(<<ch>>) = 1
    OBVIOUS
  <2> QED
    BY <2>1, <2>3, <2>5, <2>6
<1> QED
  BY <1>1, <1>2, <1>3

(* json_get_string, from the place of the key on, reads the text that       *)
(* json_escape_string was given, or fails.                                  *)
LEMMA UnquoteWhole ==
  ASSUME NEW B, NEW from, NEW size, NEW read, Unquotes(B, from, size, read),
         NEW s, IsText(s), Len(s) # 0, NEW P, P = FlattenSeq(EscapeParts(s)), IsText(P), Has(B, from, P),
         (from + Len(P)) + 1 <= Len(B), B[(from + Len(P)) + 1] = "quote",
         read[Len(B)].mode = "done"
  PROVE  read[Len(B)].text = s
<1>0. Len(B) \in Nat /\ from \in Nat /\ Len(s) \in Nat /\ Len(P) \in Nat
  BY DEF Unquotes, IsText
<1> DEFINE parts == EscapeParts(s)
<1>1. IsText(parts) /\ Len(parts) = Len(s) /\ \A i \in 1 .. Len(s) : parts[i] = EscapeChar(s[i]) /\ IsText(parts[i])
  BY EscapePartsText
<1> HIDE DEF parts
<1>2. PICK off : Laid(B, parts, from, off)
  <2>1. Len(parts) \in Nat /\ Len(parts) # 0 /\ \A i \in 1 .. Len(parts) : IsText(parts[i])
    BY <1>0, <1>1
  <2>2. Has(B, from, FlattenSeq(parts))
    BY DEF parts
  <2> QED
    BY <1>0, <2>1, <2>2, FlattenHas
<1>3. /\ off[0] = from /\ off[Len(s)] = from + Len(P)
      /\ \A i \in 1 .. Len(s) : /\ off[i - 1] \in Nat /\ Has(B, off[i - 1], EscapeChar(s[i]))
                                /\ off[i] = off[i - 1] + Len(EscapeChar(s[i])) /\ Len(EscapeChar(s[i])) \in Nat
  <2>1. /\ off[0] = from /\ off[Len(parts)] = from + Len(FlattenSeq(parts))
        /\ \A i \in 1 .. Len(parts) : /\ off[i - 1] \in Nat /\ Has(B, off[i - 1], parts[i])
                                      /\ off[i] = off[i - 1] + Len(parts[i])
    BY <1>2 DEF Laid
  <2>2. \A i \in 1 .. Len(s) : Len(parts[i]) \in Nat
    BY <1>1 DEF IsText
  <2> QED
    BY <1>1, <2>1, <2>2 DEF parts
<1> DEFINE T == {k \in Nat : k <= Len(s) => from <= off[k] /\ off[k] \in Nat /\ Stands(read[off[k]], SubSeq(s, 1, k))}
<1>4. 0 \in T
  <2>1. read[from] = Holds(<<>>)
    <3>1. from \in 0 .. Len(B) /\ from <= from
      BY <1>0
    <3> QED
      BY <3>1 DEF Unquotes
  <2>2. SubSeq(s, 1, 0) = <<>>
    <3>1. 0 \in 0 .. Len(s)
      BY <1>0
    <3> QED
      BY <3>1, Prefix
  <2>3. Stands(Holds(<<>>), SubSeq(s, 1, 0))
    BY <2>2, Zenon DEF Stands
  <2>4. Stands(read[off[0]], SubSeq(s, 1, 0))
    BY <1>3, <2>1, <2>3, Zenon
  <2> QED
    BY <1>0, <1>3, <2>4
<1>5. ASSUME NEW k \in Nat, k \in T
      PROVE  k + 1 \in T
  <2> SUFFICES ASSUME k + 1 <= Len(s)
               PROVE  from <= off[k + 1] /\ off[k + 1] \in Nat /\ Stands(read[off[k + 1]], SubSeq(s, 1, k + 1))
    OBVIOUS
  <2> DEFINE i == k + 1
             o == off[k]
             ch == s[i]
             n == Len(EscapeChar(ch))
  <2>1. i \in 1 .. Len(s) /\ i - 1 = k /\ k \in 0 .. Len(s) /\ k <= Len(s) /\ k < Len(s)
    BY <1>0
  <2>2. from <= o /\ o \in Nat /\ Stands(read[o], SubSeq(s, 1, k))
    BY <1>5, <2>1
  <2>3. Append(SubSeq(s, 1, k), ch) = SubSeq(s, 1, i)
    BY <2>1, Prefix
  <2> HIDE DEF i
  <2>4. Has(B, o, EscapeChar(ch)) /\ off[i] = o + n /\ n \in Nat /\ n = Len(EscapeChar(ch))
    BY <1>3, <2>1
  <2> DEFINE t == SubSeq(s, 1, k)
  <2> HIDE DEF o, n, ch, T, t
  <2>7. Stands(read[o], t)
    BY <2>2 DEF t
  <2>8. Stands(read[o + Len(EscapeChar(ch))], Append(t, ch))
    BY <2>2, <2>4, <2>7, UnquoteChar
  <2>5. Stands(read[o + n], Append(SubSeq(s, 1, k), ch))
    BY <2>4, <2>8 DEF t
  <2>9. from <= o + n /\ o + n \in Nat
    BY <1>0, <2>2, <2>4
  <2>a. Append(SubSeq(s, 1, k), ch) = SubSeq(s, 1, i) /\ off[i] = o + n
    BY <2>3, <2>4
  <2> HIDE DEF t
  <2>6. from <= off[i] /\ off[i] \in Nat /\ Stands(read[off[i]], SubSeq(s, 1, i))
    BY <2>5, <2>9, <2>a, Zenon
  <2> QED
    BY <2>6 DEF i
<1>6. \A k \in Nat : k \in T
  <2> HIDE DEF T
  <2>1. \A n \in Nat : n \in T => n + 1 \in T
    BY <1>5, Zenon
  <2> QED
    BY <1>4, <2>1, SetInduction, Zenon
<1> DEFINE e == from + Len(P)
           z == e + 1
<1>7. Stands(read[e], s)
  <2>1. Stands(read[off[Len(s)]], SubSeq(s, 1, Len(s)))
    BY <1>0, <1>6
  <2>2. SubSeq(s, 1, Len(s)) = s
    <3>1. Len(s) \in 0 .. Len(s)
      BY <1>0
    <3> QED
      BY <3>1, Prefix
  <2> QED
    BY <1>3, <2>1, <2>2
<1> HIDE DEF T
<1>8. e \in Nat /\ from <= e /\ z <= Len(B) /\ e <= Len(B) /\ z \in Nat /\ from <= z /\ B[z] = "quote" /\ z = e + 1
  BY <1>0
<1> HIDE DEF e, z
<1>11. ASSUME NEW o \in Nat, from <= o, o <= Len(B), read[o].mode \in {"done", "failed"},
             NEW d \in Nat, o + d <= Len(B)
       PROVE  read[o + d] = read[o]
  BY <1>11, UnquoteRests
<1>9. CASE read[e] = Holds(s)
  <2>1. read[z] = Unquote(Holds(s), "quote", size)
    BY <1>8, <1>9, UnquoteNext
  <2>2. read[z].mode = "done" /\ read[z].text = s /\ read[z].mode \in {"done", "failed"}
    BY <2>1, UnquoteEnd
  <2> DEFINE d == Len(B) - z
  <2>3. d \in Nat /\ z + d = Len(B) /\ z + d <= Len(B)
    BY <1>0, <1>8
  <2> HIDE DEF d
  <2>4. read[z + d] = read[z]
    <3>1. z \in Nat /\ from <= z /\ z <= Len(B)
      BY <1>8
    <3>2. read[z].mode \in {"done", "failed"}
      BY <2>2
    <3>3. d \in Nat /\ z + d <= Len(B)
      BY <2>3
    <3> QED
      BY <1>11, <3>1, <3>2, <3>3
  <2> QED
    BY <2>2, <2>3, <2>4
<1>10. CASE read[e].mode = "failed"
  <2> DEFINE d == Len(B) - e
  <2>3. d \in Nat /\ e + d = Len(B) /\ e + d <= Len(B)
    BY <1>0, <1>8
  <2> HIDE DEF d
  <2>4. read[e + d] = read[e]
    BY <1>8, <1>10, <2>3, UnquoteRests
  <2> QED
    BY <1>10, <2>3, <2>4
<1> QED
  BY <1>7, <1>9, <1>10 DEF Stands

-----------------------------------------------------------------------------
(* Where strstr finds the keys of a body *)

LEMMA KeysPlain ==
  ASSUME NEW op
  PROVE  /\ \A i \in 1 .. Len(Keys(op)) : Keys(op)[i] \notin {"quote", "bslash", "colon", "path"}
         /\ \A i, j \in 1 .. Len(Keys(op)) : Keys(op)[i] = Keys(op)[j] => i = j
<1>1. CASE op = "read"
  BY <1>1 DEF Keys
<1>2. CASE op = "write"
  BY <1>2 DEF Keys
<1>3. CASE op \in {"create-file", "create-dir"}
  BY <1>3 DEF Keys
<1>4. CASE op = "truncate"
  BY <1>4 DEF Keys
<1>5. CASE op = "utimens"
  <2> DEFINE k == Keys(op)
  <2>1. Len(k) = 4 /\ k[1] = "atime_sec" /\ k[2] = "atime_nsec" /\ k[3] = "mtime_sec" /\ k[4] = "mtime_nsec"
    BY <1>5 DEF Keys
  <2> HIDE DEF k
  <2>2. \A i \in 1 .. Len(k) : i = 1 \/ i = 2 \/ i = 3 \/ i = 4
    BY <2>1
  <2>3. \A i \in 1 .. Len(k) : k[i] \notin {"quote", "bslash", "colon", "path"}
    BY <2>1, <2>2
  <2>4. \A i, j \in 1 .. Len(k) : k[i] = k[j] => i = j
    BY <2>1, <2>2
  <2> QED
    BY <2>3, <2>4 DEF k
<1>6. CASE op \notin {"read", "write", "create-file", "create-dir", "truncate", "utimens"}
  BY <1>6 DEF Keys
<1> QED
  BY <1>1, <1>2, <1>3, <1>4, <1>5, <1>6

(* A key and its colon around place x *)
KeyAround(B, x, key) == B[x - 1] = key /\ B[x] = "quote" /\ B[x + 1] = "colon"

StringPattern(key) == KeyPattern(key) \o <<"quote">>

LEMMA Patterns ==
  ASSUME NEW key
  PROVE  /\ IsText(KeyPattern(key)) /\ Len(KeyPattern(key)) = 4
         /\ KeyPattern(key)[1] = "quote" /\ KeyPattern(key)[2] = key
         /\ KeyPattern(key)[3] = "quote" /\ KeyPattern(key)[4] = "colon"
         /\ IsText(StringPattern(key)) /\ Len(StringPattern(key)) = 5
         /\ \A i \in 1 .. 4 : StringPattern(key)[i] = KeyPattern(key)[i]
         /\ StringPattern(key)[5] = "quote"
<1> DEFINE k == KeyPattern(key)
           w == <<"quote">>
<1>1. /\ IsText(k) /\ Len(k) = 4
      /\ k[1] = "quote" /\ k[2] = key /\ k[3] = "quote" /\ k[4] = "colon"
  BY FourText DEF KeyPattern
<1>2. IsText(w) /\ Len(w) = 1 /\ w[1] = "quote"
  BY WordText
<1> HIDE DEF k, w
<1>3. /\ IsText(k \o w) /\ Len(k \o w) = Len(k) + Len(w)
      /\ \A i \in 1 .. Len(k) : (k \o w)[i] = k[i]
      /\ \A i \in 1 .. Len(w) : (k \o w)[Len(k) + i] = w[i]
  <2>1. IsText(k) /\ IsText(w)
    BY <1>1, <1>2
  <2> QED
    BY <2>1, ConcatText
<1>4. StringPattern(key) = k \o w
  BY DEF StringPattern, k, w
<1> DEFINE z == k \o w
<1> HIDE DEF z
<1>5. Len(z) = 5 /\ (\A i \in 1 .. 4 : z[i] = k[i]) /\ z[5] = "quote" /\ IsText(z)
  <2>1. z[Len(k) + 1] = w[1]
    BY <1>2, <1>3 DEF z
  <2> QED
    BY <1>1, <1>2, <1>3, <2>1 DEF z
<1> QED
  BY <1>1, <1>4, <1>5 DEF k, z

(* A place where a pattern is found is the place of a key. *)
LEMMA HasKey ==
  ASSUME NEW B, Len(B) \in Nat, NEW m \in Nat, NEW key,
         Has(B, m, KeyPattern(key)) \/ Has(B, m, StringPattern(key))
  PROVE  /\ m + 4 <= Len(B) /\ B[m + 1] = "quote" /\ KeyAround(B, m + 3, key)
<1> DEFINE k == KeyPattern(key)
           z == StringPattern(key)
<1>1. /\ Len(k) = 4 /\ k[1] = "quote" /\ k[2] = key /\ k[3] = "quote" /\ k[4] = "colon" /\ Len(z) = 5
      /\ z[1] = "quote" /\ z[2] = key /\ z[3] = "quote" /\ z[4] = "colon"
  BY Patterns
<1> HIDE DEF k, z
<1>2. m + 4 <= Len(B) /\ B[m + 1] = "quote" /\ B[m + 2] = key /\ B[m + 3] = "quote" /\ B[m + 4] = "colon"
  <2>1. CASE Has(B, m, k)
    BY <1>1, <2>1 DEF Has
  <2>2. CASE Has(B, m, z)
    BY <1>1, <2>2 DEF Has
  <2> QED
    BY <2>1, <2>2 DEF k, z
<1>3. (m + 3) - 1 = m + 2 /\ (m + 3) + 1 = m + 4
  OBVIOUS
<1> QED
  BY <1>2, <1>3 DEF KeyAround

(* The patterns where they are *)
LEMMA PatternHas ==
  ASSUME NEW B, Len(B) \in Nat, NEW m \in Nat, NEW key, m + 4 <= Len(B),
         B[m + 1] = "quote", B[m + 2] = key, B[m + 3] = "quote", B[m + 4] = "colon"
  PROVE  /\ Has(B, m, KeyPattern(key))
         /\ m + 5 <= Len(B) /\ B[m + 5] = "quote" => Has(B, m, StringPattern(key))
<1> DEFINE k == KeyPattern(key)
           z == StringPattern(key)
<1>1. /\ Len(k) = 4 /\ k[1] = "quote" /\ k[2] = key /\ k[3] = "quote" /\ k[4] = "colon" /\ Len(z) = 5
      /\ z[1] = "quote" /\ z[2] = key /\ z[3] = "quote" /\ z[4] = "colon" /\ z[5] = "quote"
  BY Patterns
<1> HIDE DEF k, z
<1>2. Has(B, m, k)
  <2>1. \A i \in 1 .. 4 : i = 1 \/ i = 2 \/ i = 3 \/ i = 4
    OBVIOUS
  <2> QED
    BY <1>1, <2>1 DEF Has
<1>3. m + 5 <= Len(B) /\ B[m + 5] = "quote" => Has(B, m, z)
  <2>1. \A i \in 1 .. 5 : i = 1 \/ i = 2 \/ i = 3 \/ i = 4 \/ i = 5
    OBVIOUS
  <2> QED
    BY <1>1, <2>1 DEF Has
<1> QED
  BY <1>2, <1>3 DEF k, z

(* In the body of a call with one path, a key with its colon is only where  *)
(* the body has it: in the path every quote follows a backslash.            *)
LEMMA PathKeys ==
  ASSUME NEW c, GoodCall(c), NEW P, NEW B, PathLaid(B, c, P), Guarded(P), Len(c.nums) # 0,
         NEW key, key \notin {"quote", "bslash", "colon"}, NEW x \in 2 .. Len(B) - 1, KeyAround(B, x, key)
  PROVE  \/ x = 4 /\ key = "path"
         \/ \E i \in 1 .. Len(c.nums) : x = NumberPlace(Len(P), i) + 4 /\ key = Keys(c.op)[i]
<1> DEFINE p == Len(P)
           n == Len(c.nums)
<1>1. p \in Nat /\ n \in Nat /\ n # 0 /\ Len(B) = (8 + p) + 6 * n /\ Len(Keys(c.op)) = n
  BY DEF PathLaid, Guarded, GoodCall, IsText
<1>2. /\ B[3] = "path" /\ B[4] = "quote" /\ B[5] = "colon" /\ B[6] = "quote" /\ B[2] = "quote"
      /\ \A i \in 1 .. p : B[6 + i] = P[i]
  BY DEF PathLaid, PathIn, Has
<1>3. \A i \in 1 .. n : NumberIn(B, p, c, i)
  BY DEF PathLaid
<1>4. B[x - 1] = key /\ B[x] = "quote" /\ B[x + 1] = "colon"
  BY DEF KeyAround
<1>5. \A i \in 1 .. n : Keys(c.op)[i] \notin {"quote", "colon"} /\ c.nums[i] # "quote"
  <2>1. \A i \in 1 .. n : Keys(c.op)[i] \notin {"quote", "colon"}
    BY <1>1, KeysPlain
  <2>2. \A i \in 1 .. n : c.nums[i] # "quote"
    BY DEF GoodCall, Digit
  <2> QED
    BY <2>1, <2>2
<1>6. \A i \in 1 .. p : P[i] = "quote" => i > 1 /\ P[i - 1] = "bslash"
  BY DEF Guarded
<1> HIDE DEF p, n
<1>7. CASE x <= 6
  <2>1. x = 2 \/ x = 3 \/ x = 4 \/ x = 5 \/ x = 6
    BY <1>7
  <2>2. x = 4 /\ B[3] = key
    BY <1>2, <1>4, <2>1
  <2> QED
    BY <1>2, <2>2
<1>8. CASE x > 6 /\ x <= 6 + p
  <2> DEFINE i == x - 6
             h == i - 1
  <2>1. i \in 1 .. p /\ 6 + i = x
    BY <1>1, <1>8
  <2> HIDE DEF i
  <2>2. P[i] = "quote"
    BY <1>2, <1>4, <2>1
  <2>3. i > 1 /\ P[h] = "bslash"
    BY <1>6, <2>1, <2>2
  <2>4. h \in 1 .. p /\ 6 + h = x - 1
    BY <1>1, <2>1, <2>3
  <2> HIDE DEF h
  <2>5. B[x - 1] = "bslash"
    BY <1>2, <2>3, <2>4
  <2> QED
    BY <1>4, <2>5
<1>9. CASE x = 7 + p
  <2> DEFINE i == 1
  <2>1. i \in 1 .. n /\ NumberPlace(p, i) + 1 = x + 1
    BY <1>1, <1>9 DEF NumberPlace
  <2> HIDE DEF i
  <2>2. B[x + 1] = "comma"
    BY <1>3, <2>1 DEF NumberIn
  <2> QED
    BY <1>4, <2>2
<1>10. CASE x >= 8 + p
  <2> DEFINE d == x - (8 + p)
             i == (d \div 6) + 1
             r == d % 6
             b == NumberPlace(p, i)
  <2>1. d \in 0 .. 6 * n - 1
    BY <1>1, <1>10
  <2> HIDE DEF d
  <2>2. i \in 1 .. n /\ r \in 0 .. 5 /\ d = 6 * (i - 1) + r
    BY <1>1, <2>1
  <2> HIDE DEF i, r
  <2>3. b \in Nat /\ x = (b + 1) + r
    BY <1>1, <2>2 DEF NumberPlace, d
  <2>4. /\ B[b + 1] = "comma" /\ B[b + 3] = Keys(c.op)[i]
        /\ B[b + 4] = "quote" /\ B[b + 5] = "colon" /\ B[b + 6] = c.nums[i]
    BY <1>3, <2>2 DEF NumberIn
  <2>5. Keys(c.op)[i] \notin {"quote", "colon"} /\ c.nums[i] # "quote"
    BY <1>5, <2>2
  <2> HIDE DEF b
  <2>6. r = 3
    <3>1. r = 0 \/ r = 1 \/ r = 2 \/ r = 3 \/ r = 4 \/ r = 5
      BY <2>2
    <3> QED
      BY <1>4, <2>3, <2>4, <2>5, <3>1
  <2>7. x = b + 4 /\ x - 1 = b + 3
    BY <2>3, <2>6
  <2>8. key = Keys(c.op)[i]
    BY <1>4, <2>4, <2>7
  <2> QED
    BY <2>2, <2>7, <2>8 DEF b, n, p
<1>11. x \in Nat
  BY <1>1
<1> QED
  BY <1>1, <1>7, <1>8, <1>9, <1>10, <1>11

(* A string whose key is first found at place n is read as what was escaped. *)
LEMMA StringRead ==
  ASSUME NEW B, IsText(B), NEW key, NEW n \in Nat, Has(B, n, StringPattern(key)),
         \A m \in Nat : m < n => ~Has(B, m, StringPattern(key)),
         NEW s, IsText(s), Len(s) # 0, NEW P, P = FlattenSeq(EscapeParts(s)), IsText(P),
         Has(B, n + 5, P), (n + 6) + Len(P) <= Len(B), B[(n + 6) + Len(P)] = "quote", NEW size
  PROVE  LET r == json_get_string(B, key, size) IN r.ok => r.text = s
<1> DEFINE pat == StringPattern(key)
           from == n + 5
<1>1. IsText(pat) /\ Len(pat) = 5
  BY Patterns
<1> HIDE DEF pat
<1>2. EndOfFirst(B, pat) = from
  <2>1. Len(pat) # 0 /\ Has(B, n, pat) /\ \A m \in Nat : m < n => ~Has(B, m, pat)
    BY <1>1 DEF pat
  <2>2. EndOfFirst(B, pat) = n + Len(pat)
    BY <1>1, <2>1, FirstEnd
  <2> QED
    BY <1>1, <2>2
<1>3. from \in Nat /\ from # 0 /\ Len(B) \in Nat /\ Len(P) \in Nat /\ (from + Len(P)) + 1 = (n + 6) + Len(P)
  BY DEF IsText
<1>4. Has(B, from, P)
  OBVIOUS
<1> HIDE DEF from
<1>5. EndOfFirst(B, KeyPattern(key) \o <<"quote">>) = from
  BY <1>2 DEF pat, StringPattern
<1>6. PICK read : /\ Unquotes(B, from, size, read)
                  /\ json_get_string(B, key, size) =
                       IF read[Len(B)].mode # "done" THEN Failed ELSE Made(read[Len(B)].text)
  <2>1. EndOfFirst(B, KeyPattern(key) \o <<"quote">>) \in Nat \ {0}
    BY <1>3, <1>5
  <2> QED
    BY <1>3, <1>5, <2>1, GetStringTurns
<1>7. CASE read[Len(B)].mode # "done"
  <2>1. json_get_string(B, key, size) = Failed
    BY <1>6, <1>7
  <2> QED
    BY <2>1 DEF Failed
<1>8. CASE read[Len(B)].mode = "done"
  <2>1. json_get_string(B, key, size) = Made(read[Len(B)].text)
    BY <1>6, <1>8
  <2>2. (from + Len(P)) + 1 <= Len(B) /\ B[(from + Len(P)) + 1] = "quote"
    BY <1>3
  <2>3. read[Len(B)].text = s
    BY <1>4, <1>6, <1>8, <2>2, UnquoteWhole
  <2> QED
    BY <2>1, <2>3 DEF Made
<1> QED
  BY <1>7, <1>8

(* the first string of a body *)
LEMMA FirstRead ==
  ASSUME NEW B, IsText(B), NEW key, NEW P, PathIn(B, key, P), IsText(P), 7 + Len(P) <= Len(B),
         NEW s, IsText(s), Len(s) # 0, P = FlattenSeq(EscapeParts(s)), NEW size
  PROVE  LET r == json_get_string(B, key, size) IN r.ok => r.text = s
<1> DEFINE n == 1
<1>1. /\ B[1] = "lbrace" /\ B[2] = "quote" /\ B[3] = key /\ B[4] = "quote" /\ B[5] = "colon" /\ B[6] = "quote"
      /\ Has(B, 6, P) /\ B[7 + Len(P)] = "quote" /\ Len(B) \in Nat /\ Len(P) \in Nat
  BY DEF PathIn, IsText
<1>2. /\ n \in Nat /\ B[n + 1] = "quote" /\ B[n + 2] = key /\ B[n + 3] = "quote" /\ B[n + 4] = "colon"
      /\ n + 4 <= Len(B) /\ n + 5 <= Len(B) /\ B[n + 5] = "quote" /\ n + 5 = 6
      /\ (n + 6) + Len(P) <= Len(B) /\ B[(n + 6) + Len(P)] = "quote"
  BY <1>1
<1>3. \A m \in Nat : m < n => ~Has(B, m, StringPattern(key))
  <2> SUFFICES ASSUME Has(B, 0, StringPattern(key)) PROVE FALSE
    OBVIOUS
  <2> DEFINE z == 0
  <2>1. z \in Nat /\ z + 1 = 1 /\ Has(B, z, StringPattern(key))
    OBVIOUS
  <2> HIDE DEF z
  <2>2. B[z + 1] = "quote"
    BY <1>1, <2>1, HasKey
  <2> QED
    BY <1>1, <2>1, <2>2
<1> HIDE DEF n
<1>4. Has(B, n, StringPattern(key))
  BY <1>1, <1>2, PatternHas
<1>5. Has(B, n + 5, P)
  BY <1>1, <1>2
<1> QED
  BY <1>2, <1>3, <1>4, <1>5, StringRead

(* the number of a key *)
LEMMA NumberRead ==
  ASSUME NEW c, GoodCall(c), NEW P, NEW B, PathLaid(B, c, P), Guarded(P), NEW j \in 1 .. Len(c.nums)
  PROVE  json_get_long(B, Keys(c.op)[j]) = Made(<<c.nums[j]>>)
<1> DEFINE p == Len(P)
           n == NumberPlace(p, j) + 1
           key == Keys(c.op)[j]
           pat == KeyPattern(key)
           from == n + 4
           k == Len(c.nums)
<1>0. ASSUME NEW m \in Nat, NEW w, Has(B, m, KeyPattern(w))
      PROVE  m + 4 <= Len(B) /\ KeyAround(B, m + 3, w)
  <2>1. Len(B) \in Nat
    BY DEF PathLaid, IsText
  <2> QED
    BY <1>0, <2>1, HasKey
<1>1. /\ p \in Nat /\ Len(c.nums) \in Nat /\ Len(B) = (8 + p) + 6 * Len(c.nums) /\ Len(Keys(c.op)) = Len(c.nums)
      /\ Len(c.nums) # 0 /\ Len(B) \in Nat /\ IsText(B)
  BY DEF PathLaid, Guarded, GoodCall, IsText
<1>2. /\ n \in Nat /\ n = (8 + p) + 6 * (j - 1) /\ from + 1 <= Len(B) /\ n + 4 <= Len(B)
      /\ from \in Nat /\ from # 0 /\ from # Len(B)
  <2>1. p \in Nat /\ k \in Nat /\ j \in 1 .. k /\ Len(B) = (8 + p) + 6 * k
    BY <1>1
  <2> HIDE DEF p, k
  <2>2. n = (8 + p) + 6 * (j - 1)
    BY <2>1 DEF NumberPlace
  <2> HIDE DEF n
  <2> QED
    BY <2>1, <2>2
<1>3. /\ B[n + 1] = "quote" /\ B[n + 2] = key /\ B[n + 3] = "quote" /\ B[n + 4] = "colon" /\ B[n + 5] = c.nums[j]
  <2>1. NumberIn(B, p, c, j)
    BY DEF PathLaid
  <2> DEFINE b == NumberPlace(p, j)
  <2>2. b \in Nat
    BY <1>1 DEF NumberPlace
  <2>3. /\ B[b + 2] = "quote" /\ B[b + 3] = Keys(c.op)[j]
        /\ B[b + 4] = "quote" /\ B[b + 5] = "colon" /\ B[b + 6] = c.nums[j]
    BY <2>1 DEF NumberIn
  <2> HIDE DEF b
  <2>4. n = b + 1
    BY DEF b
  <2> HIDE DEF n
  <2> QED
    BY <2>2, <2>3, <2>4
<1>4. key \notin {"quote", "bslash", "colon", "path"} /\ \A i \in 1 .. Len(c.nums) : Keys(c.op)[i] = key => i = j
  BY <1>1, KeysPlain
<1>5. \A m \in Nat : m < n => ~Has(B, m, pat)
  <2> SUFFICES ASSUME NEW m \in Nat, m < n, Has(B, m, pat) PROVE FALSE
    OBVIOUS
  <2> DEFINE x == m + 3
  <2>1. m + 4 <= Len(B) /\ KeyAround(B, m + 3, key)
    <3>1. Has(B, m, KeyPattern(key))
      OBVIOUS
    <3> HIDE DEF key
    <3> QED
      BY <1>0, <3>1
  <2> HIDE DEF key, n
  <2>2. x \in 2 .. Len(B) - 1 /\ KeyAround(B, x, key) /\ x < n + 3
    <3>1. n \in Nat /\ Len(B) \in Nat
      BY <1>1, <1>2
    <3>2. x \in 2 .. Len(B) - 1 /\ x < n + 3
      BY <2>1, <3>1
    <3> QED
      BY <2>1, <3>2
  <2> HIDE DEF x
  <2>3. \/ x = 4 /\ key = "path"
        \/ \E i \in 1 .. Len(c.nums) : x = NumberPlace(Len(P), i) + 4 /\ key = Keys(c.op)[i]
    <3>1. key \notin {"quote", "bslash", "colon"} /\ Len(c.nums) # 0
      BY <1>1, <1>4
    <3> QED
      BY <2>2, <3>1, PathKeys
  <2>4. PICK i \in 1 .. Len(c.nums) : x = NumberPlace(Len(P), i) + 4 /\ key = Keys(c.op)[i]
    BY <1>4, <2>3
  <2>5. i = j
    BY <1>4, <2>4
  <2>6. x = n + 3
    BY <1>1, <1>2, <2>4, <2>5 DEF NumberPlace
  <2> QED
    BY <1>2, <2>2, <2>6
<1> HIDE DEF n, key, from
<1>6. EndOfFirst(B, pat) = from
  <2>1. Has(B, n, pat)
    BY <1>1, <1>2, <1>3, PatternHas
  <2>2. IsText(pat) /\ Len(pat) = 4
    BY Patterns
  <2> HIDE DEF pat
  <2>3. EndOfFirst(B, pat) = n + Len(pat)
    <3>1. IsText(B) /\ n \in Nat /\ IsText(pat) /\ Len(pat) # 0 /\ Has(B, n, pat)
      BY <1>1, <1>2, <2>1, <2>2
    <3> QED
      BY <1>5, <3>1, FirstEnd
  <2> QED
    BY <2>2, <2>3 DEF from
<1>7. B[from + 1] = c.nums[j] /\ c.nums[j] \in Digit
  <2>1. from + 1 = n + 5
    BY <1>2 DEF from
  <2> QED
    BY <1>3, <2>1 DEF GoodCall
<1> QED
  BY <1>2, <1>6, <1>7 DEF json_get_long, key

(* the second string of a rename's body *)
LEMMA SecondRead ==
  ASSUME NEW B, NEW P, NEW T, PathsLaid(B, P, T), Guarded(P), IsText(T),
         NEW s, IsText(s), Len(s) # 0, T = FlattenSeq(EscapeParts(s)), NEW size
  PROVE  LET r == json_get_string(B, "new_path", size) IN r.ok => r.text = s
<1> DEFINE p == Len(P)
           t == Len(T)
           n == 8 + p
           key == "new_path"
<1>1. p \in Nat /\ t \in Nat /\ Len(B) = (15 + p) + t /\ Len(B) \in Nat /\ IsText(B)
  BY DEF PathsLaid, Guarded, IsText
<1>2. /\ B[1] = "lbrace" /\ B[2] = "quote" /\ B[3] = "old_path" /\ B[4] = "quote" /\ B[5] = "colon" /\ B[6] = "quote"
      /\ (\A i \in 1 .. p : B[6 + i] = P[i]) /\ B[7 + p] = "quote"
  BY DEF PathsLaid, PathIn, Has
<1>3. /\ B[n] = "comma" /\ B[n + 1] = "quote" /\ B[n + 2] = key /\ B[n + 3] = "quote"
      /\ B[n + 4] = "colon" /\ B[n + 5] = "quote" /\ Has(B, n + 5, T) /\ B[(n + 6) + t] = "quote"
  BY DEF PathsLaid, SecondIn
<1>4. \A i \in 1 .. p : P[i] = "quote" => i > 1 /\ P[i - 1] = "bslash"
  BY DEF Guarded
<1>5. n \in Nat /\ n = 8 + p /\ (n + 6) + t <= Len(B) /\ n + 5 <= Len(B) /\ n + 4 <= Len(B)
  BY <1>1
<1>6. \A m \in Nat : m < n => ~Has(B, m, StringPattern(key))
  <2> SUFFICES ASSUME NEW m \in Nat, m < n, Has(B, m, StringPattern(key)) PROVE FALSE
    OBVIOUS
  <2> DEFINE x == m + 3
  <2>1. KeyAround(B, m + 3, key)
    <3>1. Len(B) \in Nat /\ Has(B, m, StringPattern(key))
      BY <1>1
    <3> QED
      BY <3>1, HasKey
  <2>2. x \in Nat /\ x >= 3 /\ x <= 10 + p
    BY <1>1, <1>5
  <2>3. B[x - 1] = "new_path" /\ B[x] = "quote" /\ B[x + 1] = "colon"
    BY <2>1 DEF KeyAround
  <2> HIDE DEF x, p, t, n
  <2>4. CASE x <= 6
    <3>1. x = 3 \/ x = 4 \/ x = 5 \/ x = 6
      BY <2>2, <2>4
    <3> QED
      BY <1>2, <2>3, <3>1
  <2>5. CASE x > 6 /\ x <= 6 + p
    <3> DEFINE i == x - 6
               h == i - 1
    <3>1. i \in 1 .. p /\ 6 + i = x
      BY <1>1, <2>2, <2>5
    <3> HIDE DEF i
    <3>2. P[i] = "quote"
      BY <1>2, <2>3, <3>1
    <3>3. i > 1 /\ P[h] = "bslash"
      BY <1>4, <3>1, <3>2
    <3>4. h \in 1 .. p /\ 6 + h = x - 1
      BY <1>1, <3>1, <3>3
    <3> HIDE DEF h
    <3>5. B[x - 1] = "bslash"
      BY <1>2, <3>3, <3>4
    <3> QED
      BY <2>3, <3>5
  <2>6. CASE x > 6 + p
    <3>1. x = 7 + p \/ x = 8 + p \/ x = 9 + p \/ x = 10 + p
      BY <1>1, <2>2, <2>6
    <3>2. x + 1 = n \/ x = n \/ x + 1 = n + 2 \/ x = n + 2
      BY <1>1, <1>5, <3>1
    <3> QED
      BY <1>3, <2>3, <3>2
  <2> QED
    BY <1>1, <2>2, <2>4, <2>5, <2>6
<1> HIDE DEF n
<1>7. Has(B, n, StringPattern(key))
  BY <1>1, <1>3, <1>5, PatternHas
<1>8. (n + 6) + Len(T) <= Len(B) /\ B[(n + 6) + Len(T)] = "quote" /\ Has(B, n + 5, T)
  BY <1>3, <1>5
<1> QED
  BY <1>1, <1>5, <1>6, <1>7, <1>8, StringRead

-----------------------------------------------------------------------------
(* The body of a call as it is sent *)

Flattened(s) == FlattenSeq(EscapeParts(s))
PostedBody(c) == Body(c, Flattened(c.path), Flattened(c.to))

LEMMA NotCut ==
  ASSUME NEW t, IsText(t), NEW size, Len(t) < size
  PROVE  Cut(t, size) = t
<1>1. Len(t) \in 0 .. Len(t)
  BY DEF IsText
<1>2. SubSeq(t, 1, Len(t)) = t
  BY <1>1, Prefix
<1> QED
  BY <1>2 DEF Cut

-----------------------------------------------------------------------------
(* What the decoders of Go and Python make of an escaped path *)

(* the text so far, and how many symbols of an escape are still to skip *)
Took(t, k) == [text |-> t, skip |-> k]

UnescapeStep(s, before, i) ==
    LET put(ch, n) == [text |-> Append(before.text, ch), skip |-> n] IN
    IF before.skip > 0 THEN [before EXCEPT !.skip = @ - 1]
    ELSE IF s[i] # "bslash" THEN put(s[i], 0)
    ELSE IF s[i + 1] = "u" THEN put("ctl", 5)
    ELSE put(CHOOSE ch \in DOMAIN Letter : Letter[ch] = s[i + 1], 1)

Unescapes(s, dec) ==
    /\ Len(s) \in Nat /\ dec[0] = Took(<<>>, 0)
    /\ \A i \in 1 .. Len(s) : dec[i] = UnescapeStep(s, dec[i - 1], i)

LEMMA UnescapeTurns ==
  ASSUME NEW s, Len(s) \in Nat
  PROVE  \E dec : Unescapes(s, dec) /\ Unescape(s) = dec[Len(s)].text
<1> DEFINE zero == Took(<<>>, 0)
           turn(p, n) == UnescapeStep(s, p, n)
           solves(g, k) == g = [n \in 0 .. k |-> IF n = 0 THEN zero ELSE turn(g[n - 1], n)]
           T == {k \in Nat : \E g : solves(g, k)}
           dec == CHOOSE x : solves(x, Len(s))
<1>0. Unescape(s) = dec[Len(s)].text
  BY Zenon DEF Unescape, UnescapeStep, Took
<1> HIDE DEF turn, zero
<1>1. 0 \in T
  <2>1. solves([n \in 0 .. 0 |-> zero], 0)
    OBVIOUS
  <2> QED
    BY <2>1
<1>2. ASSUME NEW k \in Nat, k \in T
      PROVE  k + 1 \in T
  <2>1. PICK g : solves(g, k)
    BY <1>2
  <2> DEFINE h == [n \in 0 .. k + 1 |-> IF n <= k THEN g[n] ELSE turn(g[k], k + 1)]
  <2>2. \A n \in 0 .. k + 1 : h[n] = IF n = 0 THEN zero ELSE turn(h[n - 1], n)
    <3> TAKE n \in 0 .. k + 1
    <3>1. CASE n <= k
      <4>1. n \in 0 .. k /\ (n # 0 => n - 1 \in 0 .. k + 1 /\ n - 1 <= k)
        BY <3>1
      <4>2. h[n] = g[n] /\ (n # 0 => h[n - 1] = g[n - 1])
        BY <3>1, <4>1
      <4>3. g[n] = IF n = 0 THEN zero ELSE turn(g[n - 1], n)
        BY <2>1, <4>1
      <4> QED
        BY <4>2, <4>3
    <3>2. CASE n = k + 1
      <4>1. n # 0 /\ n - 1 = k /\ ~ (n <= k) /\ k \in 0 .. k + 1 /\ k <= k
        BY <3>2
      <4>2. h[n] = turn(g[k], k + 1) /\ h[n - 1] = g[k]
        BY <4>1
      <4> QED
        BY <3>2, <4>1, <4>2
    <3> QED
      BY <3>1, <3>2
  <2>3. solves(h, k + 1) /\ k + 1 \in Nat
    BY <2>2
  <2> HIDE DEF h, solves
  <2> QED
    BY <2>3
<1>3. \A k \in Nat : k \in T
  <2> HIDE DEF T
  <2>1. \A n \in Nat : n \in T => n + 1 \in T
    BY <1>2, Zenon
  <2> QED
    BY <1>1, <2>1, SetInduction, Zenon
<1>4. PICK g : solves(g, Len(s))
  BY <1>3
<1>5. solves(dec, Len(s))
  <2> HIDE DEF solves
  <2> QED
    BY <1>4, Zenon
<1> HIDE DEF dec
<1>6. dec[0] = zero /\ \A n \in 1 .. Len(s) : dec[n] = turn(dec[n - 1], n)
  BY <1>5
<1>7. Unescapes(s, dec)
  BY <1>6 DEF zero, turn, Unescapes
<1> QED
  BY <1>0, <1>7

LEMMA UnescapeNext ==
  ASSUME NEW s, NEW dec, Unescapes(s, dec), NEW o \in Nat, o + 1 <= Len(s)
  PROVE  dec[o + 1] = UnescapeStep(s, dec[o], o + 1)
<1> DEFINE i == o + 1
<1>1. i \in 1 .. Len(s) /\ i - 1 = o
  BY DEF Unescapes
<1> HIDE DEF i
<1>2. dec[i] = UnescapeStep(s, dec[o], i)
  BY <1>1 DEF Unescapes
<1> QED
  BY <1>2 DEF i

LEMMA UnescapeSkip ==
  ASSUME NEW s, NEW dec, Unescapes(s, dec), NEW o \in Nat, o + 1 <= Len(s), NEW t, NEW k \in 1 .. 5,
         dec[o] = Took(t, k)
  PROVE  dec[o + 1] = Took(t, k - 1)
<1>1. dec[o + 1] = UnescapeStep(s, Took(t, k), o + 1)
  BY UnescapeNext
<1>2. Took(t, k).skip = k /\ k > 0
  BY DEF Took
<1>3. UnescapeStep(s, Took(t, k), o + 1) = [Took(t, k) EXCEPT !.skip = @ - 1]
  BY <1>2 DEF UnescapeStep
<1>4. [Took(t, k) EXCEPT !.skip = @ - 1] = Took(t, k - 1)
  BY DEF Took
<1> QED
  BY <1>1, <1>3, <1>4

LEMMA LetterOnce ==
  ASSUME NEW ch \in DOMAIN Letter
  PROVE  Letter[ch] # "u" /\ (CHOOSE c \in DOMAIN Letter : Letter[c] = Letter[ch]) = ch
<1>1. ch \in {"quote", "bslash", "bsp", "ff", "nl", "cr", "tab"}
  BY DEF Letter
<1>2. \A c \in DOMAIN Letter : Letter[c] = Letter[ch] => c = ch
  <2> TAKE c \in DOMAIN Letter
  <2>1. c \in {"quote", "bslash", "bsp", "ff", "nl", "cr", "tab"}
    BY DEF Letter
  <2> QED
    BY <1>1, <2>1 DEF Letter
<1>3. Letter[ch] # "u"
  BY <1>1 DEF Letter
<1> HIDE DEF Letter
<1> QED
  BY <1>2, <1>3

LEMMA UnescapeChar ==
  ASSUME NEW s, NEW dec, Unescapes(s, dec), NEW o \in Nat, NEW ch, Has(s, o, EscapeChar(ch)), NEW t,
         dec[o] = Took(t, 0)
  PROVE  dec[o + Len(EscapeChar(ch))] = Took(Append(t, ch), 0)
<1>0. Len(s) \in Nat
  BY DEF Unescapes
<1>1. Took(t, 0).skip = 0 /\ Took(t, 0).text = t
  BY DEF Took
<1>2. CASE ch \in DOMAIN Letter
  <2> DEFINE w == Letter[ch]
             n == o + 1
  <2>1. EscapeChar(ch) = <<"bslash", w>>
    BY <1>2 DEF EscapeChar
  <2>2. Len(<<"bslash", w>>) = 2 /\ <<"bslash", w>>[1] = "bslash" /\ <<"bslash", w>>[2] = w
    OBVIOUS
  <2>3. w # "u" /\ (CHOOSE c \in DOMAIN Letter : Letter[c] = w) = ch
    BY <1>2, LetterOnce
  <2> HIDE DEF w
  <2>4. o + 2 <= Len(s) /\ s[o + 1] = "bslash" /\ s[o + 2] = w
    <3>1. Has(s, o, <<"bslash", w>>)
      BY <2>1
    <3> QED
      BY <2>2, <3>1 DEF Has
  <2>5. n \in Nat /\ n = o + 1 /\ n <= Len(s) /\ n + 1 = o + 2 /\ n + 1 <= Len(s)
    BY <1>0, <2>4
  <2> HIDE DEF n
  <2>6. dec[n] = Took(Append(t, ch), 1)
    <3>1. dec[n] = UnescapeStep(s, Took(t, 0), n)
      BY <2>5, UnescapeNext
    <3>2. s[n] = "bslash" /\ s[n + 1] = w
      BY <2>4, <2>5
    <3>3. ~(Took(t, 0).skip > 0)
      BY <1>1
    <3>4. UnescapeStep(s, Took(t, 0), n) = [text |-> Append(t, ch), skip |-> 1]
      BY <1>1, <2>3, <3>2, <3>3, Zenon DEF UnescapeStep
    <3> QED
      BY <3>1, <3>4 DEF Took
  <2>7. dec[n + 1] = Took(Append(t, ch), 0)
    <3> DEFINE k == 1
    <3>1. k \in 1 .. 5 /\ dec[n] = Took(Append(t, ch), k) /\ k - 1 = 0
      BY <2>6
    <3> HIDE DEF k
    <3>2. dec[n + 1] = Took(Append(t, ch), k - 1)
      BY <2>5, <3>1, UnescapeSkip
    <3> QED
      BY <3>1, <3>2
  <2> QED
    BY <2>1, <2>2, <2>5, <2>7
<1>3. CASE ch \notin DOMAIN Letter /\ ch \in Control
  <2> DEFINE e == <<"bslash", "u", "0", "0", "0", "1">>
             n == o + 1
             u == Append(t, ch)
  <2>1. EscapeChar(ch) = e /\ ch = "ctl"
    BY <1>3 DEF EscapeChar, Unicode, ControlCode, Control
  <2>2. Len(e) = 6 /\ e[1] = "bslash" /\ e[2] = "u"
    OBVIOUS
  <2> HIDE DEF e
  <2>3. o + 6 <= Len(s) /\ s[o + 1] = "bslash" /\ s[o + 2] = "u"
    <3>1. Has(s, o, e)
      BY <2>1
    <3> QED
      BY <2>2, <3>1 DEF Has
  <2>4. n \in Nat /\ n = o + 1 /\ n <= Len(s) /\ n + 1 = o + 2
    BY <1>0, <2>3
  <2> HIDE DEF n
  <2>5. dec[n] = Took(u, 5)
    <3>1. dec[n] = UnescapeStep(s, Took(t, 0), n)
      BY <2>4, UnescapeNext
    <3>2. s[n] = "bslash" /\ s[n + 1] = "u"
      BY <2>3, <2>4
    <3>3. ~(Took(t, 0).skip > 0)
      BY <1>1
    <3>4. UnescapeStep(s, Took(t, 0), n) = [text |-> Append(t, "ctl"), skip |-> 5]
      BY <1>1, <3>2, <3>3, Zenon DEF UnescapeStep
    <3> QED
      BY <2>1, <3>1, <3>4 DEF Took
  <2> HIDE DEF u
  <2>s. ASSUME NEW m \in Nat, m + 1 <= Len(s), NEW k \in 1 .. 5, dec[m] = Took(u, k)
        PROVE  dec[m + 1] = Took(u, k - 1)
    BY <2>s, UnescapeSkip
  <2>6. ASSUME NEW k \in 1 .. 5, dec[o + (6 - k)] = Took(u, k)
        PROVE  dec[o + (6 - (k - 1))] = Took(u, k - 1)
    <3> DEFINE m == o + (6 - k)
    <3>1. m \in Nat /\ m + 1 = o + (6 - (k - 1)) /\ m + 1 <= Len(s)
      BY <1>0, <2>3
    <3>2. dec[m] = Took(u, k)
      BY <2>6
    <3> HIDE DEF m
    <3>3. dec[m + 1] = Took(u, k - 1)
      BY <2>s, <3>1, <3>2
    <3> QED
      BY <3>1, <3>3
  <2>7. dec[o + 1] = Took(u, 5)
    BY <2>4, <2>5
  <2>8. dec[o + 2] = Took(u, 4)
    BY <2>6, <2>7
  <2>9. dec[o + 3] = Took(u, 3)
    BY <2>6, <2>8
  <2>10. dec[o + 4] = Took(u, 2)
    BY <2>6, <2>9
  <2>11. dec[o + 5] = Took(u, 1)
    BY <2>6, <2>10
  <2>12. dec[o + 6] = Took(u, 0)
    BY <2>6, <2>11
  <2> QED
    BY <2>1, <2>2, <2>12 DEF u
<1>4. CASE ch \notin DOMAIN Letter /\ ch \notin Control
  <2> DEFINE n == o + 1
  <2>1. EscapeChar(ch) = <<ch>> /\ ch # "bslash"
    BY <1>4 DEF EscapeChar, Letter
  <2>2. o + 1 \in 1 .. Len(s) /\ s[o + 1] = ch
    <3>1. Has(s, o, <<ch>>)
      BY <2>1
    <3> QED
      BY <1>0, <3>1, HasWord
  <2>3. n \in Nat /\ n = o + 1 /\ n <= Len(s) /\ s[n] = ch
    BY <1>0, <2>2
  <2> HIDE DEF n
  <2>4. dec[n] = UnescapeStep(s, Took(t, 0), n)
    BY <2>3, UnescapeNext
  <2>5. ~(Took(t, 0).skip > 0)
    BY <1>1
  <2>6. UnescapeStep(s, Took(t, 0), n) = [text |-> Append(t, ch), skip |-> 0]
    BY <1>1, <2>1, <2>3, <2>5, Zenon DEF UnescapeStep
  <2>7. Len(<<ch>>) = 1
    OBVIOUS
  <2> QED
    BY <2>1, <2>3, <2>4, <2>6, <2>7 DEF Took
<1> QED
  BY <1>2, <1>3, <1>4

(* A JSON decoder reads the text that json_escape_string was given.         *)
LEMMA UnescapeWhole ==
  ASSUME NEW s, IsText(s), Len(s) # 0, NEW P, P = FlattenSeq(EscapeParts(s)), IsText(P)
  PROVE  Unescape(P) = s
<1>0. Len(s) \in Nat /\ Len(P) \in Nat
  BY DEF IsText
<1> DEFINE parts == EscapeParts(s)
           z == 0
<1>1. IsText(parts) /\ Len(parts) = Len(s) /\ \A i \in 1 .. Len(s) : parts[i] = EscapeChar(s[i]) /\ IsText(parts[i])
  BY EscapePartsText
<1>z. z \in Nat /\ z = 0 /\ z + Len(P) = Len(P)
  BY <1>0
<1> HIDE DEF parts, z
<1>2. PICK off : Laid(P, parts, z, off)
  <2>1. Len(parts) \in Nat /\ Len(parts) # 0 /\ \A i \in 1 .. Len(parts) : IsText(parts[i])
    BY <1>0, <1>1
  <2>2. Has(P, z, FlattenSeq(parts))
    <3>1. Has(P, z, P)
      BY <1>0, <1>z DEF Has
    <3> QED
      BY <3>1 DEF parts
  <2> QED
    BY <1>0, <1>z, <2>1, <2>2, FlattenHas
<1>3. /\ off[0] = 0 /\ off[Len(s)] = Len(P)
      /\ \A i \in 1 .. Len(s) : /\ off[i - 1] \in Nat /\ Has(P, off[i - 1], EscapeChar(s[i]))
                                /\ off[i] = off[i - 1] + Len(EscapeChar(s[i])) /\ Len(EscapeChar(s[i])) \in Nat
  <2>1. /\ off[0] = z /\ off[Len(parts)] = z + Len(FlattenSeq(parts))
        /\ \A i \in 1 .. Len(parts) : /\ off[i - 1] \in Nat /\ Has(P, off[i - 1], parts[i])
                                      /\ off[i] = off[i - 1] + Len(parts[i])
    BY <1>2 DEF Laid
  <2>2. \A i \in 1 .. Len(s) : Len(parts[i]) \in Nat
    BY <1>1 DEF IsText
  <2>3. FlattenSeq(parts) = P
    BY DEF parts
  <2>4. off[Len(s)] = Len(P)
    BY <1>1, <1>z, <2>1, <2>3
  <2> QED
    BY <1>1, <1>z, <2>1, <2>2, <2>4
<1>4. PICK dec : Unescapes(P, dec) /\ Unescape(P) = dec[Len(P)].text
  BY <1>0, UnescapeTurns
<1> DEFINE T == {k \in Nat : k <= Len(s) => off[k] \in Nat /\ dec[off[k]] = Took(SubSeq(s, 1, k), 0)}
<1>5. 0 \in T
  <2>1. dec[0] = Took(<<>>, 0)
    BY <1>4 DEF Unescapes
  <2>2. SubSeq(s, 1, 0) = <<>>
    <3>1. 0 \in 0 .. Len(s)
      BY <1>0
    <3> QED
      BY <3>1, Prefix
  <2>3. dec[off[0]] = Took(SubSeq(s, 1, 0), 0)
    BY <1>3, <2>1, <2>2, Zenon
  <2> QED
    BY <1>0, <1>3, <2>3
<1>6. ASSUME NEW k \in Nat, k \in T
      PROVE  k + 1 \in T
  <2> SUFFICES ASSUME k + 1 <= Len(s)
               PROVE  off[k + 1] \in Nat /\ dec[off[k + 1]] = Took(SubSeq(s, 1, k + 1), 0)
    OBVIOUS
  <2> DEFINE i == k + 1
             o == off[k]
             ch == s[i]
             t == SubSeq(s, 1, k)
             n == Len(EscapeChar(ch))
  <2>1. i \in 1 .. Len(s) /\ i - 1 = k /\ k \in 0 .. Len(s) /\ k <= Len(s) /\ k < Len(s)
    BY <1>0
  <2>2. o \in Nat /\ dec[o] = Took(t, 0)
    BY <1>6, <2>1
  <2>3. Append(t, ch) = SubSeq(s, 1, i)
    BY <2>1, Prefix
  <2> HIDE DEF i, t
  <2>4. Has(P, o, EscapeChar(ch)) /\ off[i] = o + n /\ n \in Nat /\ n = Len(EscapeChar(ch))
    BY <1>3, <2>1
  <2> HIDE DEF o, n, ch, T
  <2>5. dec[o + Len(EscapeChar(ch))] = Took(Append(t, ch), 0)
    BY <1>4, <2>2, <2>4, UnescapeChar
  <2>6. off[i] \in Nat
    BY <2>2, <2>4
  <2>7. dec[off[i]] = Took(SubSeq(s, 1, i), 0)
    BY <2>3, <2>4, <2>5, Zenon
  <2> QED
    BY <2>6, <2>7 DEF i
<1>7. \A k \in Nat : k \in T
  <2> HIDE DEF T
  <2>1. \A n \in Nat : n \in T => n + 1 \in T
    BY <1>6, Zenon
  <2> QED
    BY <1>5, <2>1, SetInduction, Zenon
<1>8. dec[off[Len(s)]] = Took(SubSeq(s, 1, Len(s)), 0)
  BY <1>0, <1>7
<1>9. SubSeq(s, 1, Len(s)) = s
  <2>1. Len(s) \in 0 .. Len(s)
    BY <1>0
  <2> QED
    BY <2>1, Prefix
<1>10. dec[Len(P)] = Took(s, 0)
  BY <1>3, <1>8, <1>9, Zenon
<1> QED
  BY <1>4, <1>10 DEF Took

LEMMA ReplacedSame ==
  ASSUME NEW s, IsText(s), Utf8(s)
  PROVE  Replaced(s) = s
<1> DEFINE S == {s[i] : i \in 1 .. Len(s)}
<1>1. s \in Seq(S) /\ DOMAIN s = 1 .. Len(s)
  BY DEF IsText
<1>2. \A i \in 1 .. Len(s) : s[i] # "latin"
  BY <1>1 DEF Utf8
<1>3. Replaced(s) = [i \in 1 .. Len(s) |-> s[i]]
  BY <1>1, <1>2 DEF Replaced
<1> HIDE DEF S
<1> QED
  BY <1>1, <1>3, SeqSame

-----------------------------------------------------------------------------
(* What the decoders of Go and Python find in a body *)

LEMMA FlatBody ==
  ASSUME NEW max \in Nat, NEW ms, GoodAll(ms), NEW text, text = Object(Pieces(ms))
  PROVE  \E t : FlatAnswer(text, t, ms) /\ ParseIs(text, max, t)
<1> DEFINE parts == Pieces(ms)
           n == Len(text)
<1>1. IsText(text) /\ n \in Nat
  <2>1. IsText(Commas(parts))
    BY PiecesText, CommasText, Zenon
  <2>2. IsText(Object(parts))
    BY <2>1, BracketsHas, Zenon DEF Object
  <2> QED
    BY <2>2 DEF IsText
<1> DEFINE tk == <<>>
<1>2. At(text, max, 0, 0, tk) /\ Has(text, 0, Object(Pieces(ms)))
  <2>1. Has(text, 0, text)
    BY <1>1 DEF Has
  <2> QED
    BY <1>1, <2>1, AtStart
<1>3. n = 0 + n /\ Len(tk) = 0 /\ 0 \in Nat
  BY <1>1
<1> HIDE DEF tk, n
<1>4. PICK t : ObjectRead(text, max, 0, n, 0, tk, t, ms)
  <2>1. n = 0 + Len(Object(Pieces(ms)))
    BY <1>3 DEF n
  <2>2. \E t : ObjectRead(text, max, 0, n, 0, tk, t, ms)
    BY <1>1, <1>2, <1>3, <2>1, FlatObject, Zenon
  <2> QED
    BY <2>2
<1>5. /\ At(text, max, n, 0, t) /\ Grown(tk, t, 1 + 2 * Len(ms))
      /\ t[Len(tk) + 1] = Token("object", 0 + 1, n + 1, 0)
      /\ Flat(text, t, Len(tk) + 1, ms, Len(ms), 0 + 1, n) /\ Finished(t, Len(tk))
  BY <1>4, Zenon DEF ObjectRead
<1>6. 0 + 1 = 1 /\ Len(tk) + 1 = 1
  BY <1>3
<1>7. Flat(text, t, 1, ms, Len(ms), 1, n) /\ t[1] = Token("object", 1, n + 1, 0) /\ Finished(t, 0)
  BY <1>3, <1>5, <1>6
<1>8. t[1].end = n + 1 /\ t[1].type = "object"
  BY <1>7 DEF Token
<1>9. t \in Seq(Tokens) /\ Len(t) = 1 + 2 * Len(ms)
  <2>1. Len(ms) \in Nat
    BY DEF GoodAll, IsText
  <2> QED
    BY <1>3, <1>5, <2>1 DEF Grown
<1>10. FlatAnswer(text, t, ms)
  BY <1>1, <1>7, <1>8, <1>9, Zenon DEF FlatAnswer
<1>11. ParseIs(text, max, t)
  <2>1. At(text, max, Len(text), 0, t) /\ Len(text) \in Nat
    BY <1>1, <1>5 DEF n
  <2> QED
    BY <1>7, <2>1, ParseDone
<1> QED
  BY <1>10, <1>11

NumberIs(c, i) == R(Keys(c.op)[i], "primitive", <<c.nums[i]>>)
BodyMembers(c) ==
    IF c.op = "rename"
      THEN <<R("old_path", "string", Flattened(c.path)), R("new_path", "string", Flattened(c.to))>>
      ELSE <<R("path", "string", Flattened(c.path))>> \o [i \in DOMAIN c.nums |-> NumberIs(c, i)]

LEMMA FlattenedClean ==
  ASSUME NEW s, IsText(s), Len(s) # 0
  PROVE  Clean(Flattened(s))
<1> DEFINE parts == EscapeParts(s)
<1>1. IsText(parts) /\ Len(parts) = Len(s) /\ \A i \in 1 .. Len(s) : parts[i] = EscapeChar(s[i])
  BY EscapePartsText
<1> HIDE DEF parts
<1>2. Len(parts) \in Nat /\ Len(parts) # 0 /\ \A i \in 1 .. Len(parts) : Clean(parts[i])
  BY <1>1, EscapeCharClean DEF IsText
<1>3. Clean(FlattenSeq(parts))
  BY <1>2, CleanFlatten
<1> QED
  BY <1>3 DEF Flattened, parts

LEMMA DigitWords ==
  /\ Digit = {"0", "1", "2", "5", "7"}
  /\ Plain("0") /\ Plain("1") /\ Plain("2") /\ Plain("5") /\ Plain("7")
<1>1. Digit = {"0", "1", "2", "5", "7"}
  BY DEF Digit
<1>2. Plain("0") /\ Plain("1") /\ Plain("2") /\ Plain("5") /\ Plain("7")
  BY DEF Plain, Blank, Printable
<1> QED
  BY <1>1, <1>2

LEMMA PathBodyMembers ==
  ASSUME NEW c, GoodCall(c), c.op # "rename"
  PROVE  /\ IsText(BodyMembers(c)) /\ Len(BodyMembers(c)) = 1 + Len(c.nums)
         /\ BodyMembers(c)[1] = R("path", "string", Flattened(c.path))
         /\ \A i \in 1 .. Len(c.nums) : BodyMembers(c)[1 + i] = NumberIs(c, i)
         /\ GoodAll(BodyMembers(c)) /\ PostedBody(c) = Object(Pieces(BodyMembers(c)))
         /\ \A j \in 1 .. Len(BodyMembers(c)) : FirstKey(BodyMembers(c), j)
<1> DEFINE P == Flattened(c.path)
           a == <<R("path", "string", P)>>
           b == [i \in DOMAIN c.nums |-> NumberIs(c, i)]
           n == Len(c.nums)
           ms == BodyMembers(c)
           pm == PathMembers(c, P)
<1>1. DOMAIN c.nums = 1 .. n /\ n \in Nat /\ n = Len(Keys(c.op)) /\ \A i \in 1 .. n : c.nums[i] \in Digit
  BY DEF GoodCall, IsText
<1>2. b \in Seq({NumberIs(c, i) : i \in 1 .. n}) /\ Len(b) = n /\ \A i \in 1 .. n : b[i] = NumberIs(c, i)
  BY <1>1
<1>3. IsText(a) /\ Len(a) = 1 /\ a[1] = R("path", "string", P)
  BY WordText
<1>4. ms = a \o b
  BY DEF BodyMembers
<1>p. /\ IsText(pm) /\ Len(pm) = 1 + n /\ pm[1] = Member("path", Quoted(P))
      /\ \A i \in 1 .. n : pm[1 + i] = NumberMember(c, i)
  BY PathMembersAre
<1>b. PostedBody(c) = Object(pm)
  BY DEF PostedBody, Body, PathMembers, NumberMember
<1>v. Clean(P)
  BY FlattenedClean DEF GoodCall
<1> HIDE DEF a, b, ms, pm, P, n
<1>5. IsText(b)
  BY <1>2, SeqIsText
<1>6. Joined(a \o b, a, b)
  BY <1>3, <1>5, ConcatJoined, Zenon
<1>7. Joined(ms, a, b)
  BY <1>4, <1>6
<1>8. /\ IsText(ms) /\ Len(ms) = 1 + n /\ ms[1] = R("path", "string", P)
      /\ \A i \in 1 .. n : ms[1 + i] = NumberIs(c, i)
  BY <1>2, <1>3, <1>7 DEF Joined
<1>9. \A j \in 1 .. Len(ms) : j = 1 \/ \E i \in 1 .. n : j = 1 + i
  <2> TAKE j \in 1 .. Len(ms)
  <2> DEFINE i == j - 1
  <2>1. j # 1 => i \in 1 .. n /\ j = 1 + i
    BY <1>1, <1>8
  <2> HIDE DEF i
  <2> QED
    BY <2>1
<1>k. /\ \A i \in 1 .. n : Keys(c.op)[i] \notin {"quote", "bslash", "colon", "path"}
      /\ \A i, j \in 1 .. n : Keys(c.op)[i] = Keys(c.op)[j] => i = j
  BY <1>1, KeysPlain
<1>10. GoodAll(ms)
  <2>1. Good("path", "string", P)
    BY <1>v DEF Good
  <2>2. \A i \in 1 .. n : Good(Keys(c.op)[i], "primitive", <<c.nums[i]>>)
    <3> TAKE i \in 1 .. n
    <3>1. Plain(c.nums[i])
      <4> DEFINE w == c.nums[i]
      <4>1. w \in {"0", "1", "2", "5", "7"}
        BY <1>1, DigitWords
      <4> HIDE DEF w
      <4>2. w = "0" \/ w = "1" \/ w = "2" \/ w = "5" \/ w = "7"
        BY <4>1
      <4>3. Plain(w)
        BY <4>2, DigitWords, Zenon
      <4> QED
        BY <4>3 DEF w
    <3>2. Keys(c.op)[i] \notin {"quote", "bslash"}
      BY <1>k
    <3> QED
      BY <3>1, <3>2 DEF Good
  <2>3. \A j \in 1 .. Len(ms) : Good(ms[j].key, ms[j].kind, ms[j].v)
    <3> TAKE j \in 1 .. Len(ms)
    <3>1. CASE j = 1
      BY <1>8, <2>1, <3>1 DEF R
    <3>2. ASSUME NEW i \in 1 .. n, j = 1 + i PROVE Good(ms[j].key, ms[j].kind, ms[j].v)
      <4>1. ms[j] = NumberIs(c, i)
        BY <1>8, <3>2
      <4> QED
        BY <2>2, <4>1 DEF NumberIs, R
    <3> QED
      BY <1>9, <3>1, <3>2
  <2>4. Len(ms) # 0
    BY <1>1, <1>8
  <2> QED
    BY <1>8, <2>3, <2>4 DEF GoodAll
<1>11. Pieces(ms) = pm
  <2>1. DOMAIN ms = 1 .. Len(pm)
    BY <1>8, <1>p DEF IsText
  <2>2. \A j \in 1 .. Len(pm) : M(ms[j].key, ms[j].kind, ms[j].v) = pm[j]
    <3> TAKE j \in 1 .. Len(pm)
    <3>1. CASE j = 1
      BY <1>8, <1>p, <3>1 DEF R, M, ValueText
    <3>2. ASSUME NEW i \in 1 .. n, j = 1 + i PROVE M(ms[j].key, ms[j].kind, ms[j].v) = pm[j]
      <4>1. ms[j] = NumberIs(c, i) /\ pm[j] = NumberMember(c, i)
        BY <1>8, <1>p, <3>2
      <4> QED
        BY <4>1 DEF NumberIs, NumberMember, R, M, ValueText
    <3>3. j = 1 \/ \E i \in 1 .. n : j = 1 + i
      BY <1>8, <1>9, <1>p
    <3> QED
      BY <3>1, <3>2, <3>3
  <2>3. Pieces(ms) = [j \in 1 .. Len(pm) |-> pm[j]]
    BY <2>1, <2>2 DEF Pieces
  <2> DEFINE S == {pm[i] : i \in 1 .. Len(pm)}
  <2>4. pm \in Seq(S)
    BY <1>p DEF IsText
  <2> HIDE DEF S
  <2> QED
    BY <2>3, <2>4, SeqSame
<1>12. \A j \in 1 .. Len(ms) : FirstKey(ms, j)
  <2> SUFFICES ASSUME NEW j \in 1 .. Len(ms), NEW h \in 1 .. j - 1 PROVE ms[h].key # ms[j].key
    BY DEF FirstKey
  <2>1. h \in 1 .. Len(ms) /\ h # j /\ j # 1
    BY <1>1, <1>8
  <2>2. PICK i \in 1 .. n : j = 1 + i
    BY <1>9, <2>1
  <2>3. ms[j].key = Keys(c.op)[i]
    <3>1. ms[j] = NumberIs(c, i)
      BY <1>8, <2>2
    <3> QED
      BY <3>1 DEF NumberIs, R
  <2>4. CASE h = 1
    <3>1. ms[h].key = "path"
      BY <1>8, <2>4 DEF R
    <3> QED
      BY <1>k, <2>3, <3>1
  <2>5. ASSUME NEW l \in 1 .. n, h = 1 + l PROVE ms[h].key # ms[j].key
    <3>1. ms[h].key = Keys(c.op)[l]
      <4>1. ms[h] = NumberIs(c, l)
        BY <1>8, <2>5
      <4> QED
        BY <4>1 DEF NumberIs, R
    <3> QED
      BY <1>k, <2>1, <2>2, <2>3, <2>5, <3>1
  <2> QED
    BY <1>9, <2>1, <2>4, <2>5
<1> QED
  BY <1>8, <1>10, <1>11, <1>12, <1>b DEF ms, n, P

LEMMA RenameBodyMembers ==
  ASSUME NEW c, c.op = "rename", IsText(c.path), Len(c.path) # 0, IsText(c.to), Len(c.to) # 0
  PROVE  /\ Len(BodyMembers(c)) = 2
         /\ BodyMembers(c)[1] = R("old_path", "string", Flattened(c.path))
         /\ BodyMembers(c)[2] = R("new_path", "string", Flattened(c.to))
         /\ GoodAll(BodyMembers(c)) /\ PostedBody(c) = Object(Pieces(BodyMembers(c)))
         /\ \A j \in 1 .. Len(BodyMembers(c)) : FirstKey(BodyMembers(c), j)
<1> DEFINE P == Flattened(c.path)
           T == Flattened(c.to)
           a == R("old_path", "string", P)
           b == R("new_path", "string", T)
           ms == <<a, b>>
<1>1. BodyMembers(c) = ms
  BY DEF BodyMembers
<1>2. /\ a.key = "old_path" /\ a.kind = "string" /\ a.v = P
      /\ b.key = "new_path" /\ b.kind = "string" /\ b.v = T
  BY DEF R
<1>3. Clean(P) /\ Clean(T)
  BY FlattenedClean
<1> HIDE DEF a, b, P, T
<1>4. Good(a.key, a.kind, a.v) /\ Good(b.key, b.kind, b.v)
  BY <1>2, <1>3 DEF Good
<1>5. GoodAll(ms) /\ Len(ms) = 2 /\ Pieces(ms) = <<M(a.key, a.kind, a.v), M(b.key, b.kind, b.v)>>
  BY <1>4, PiecesTwo
<1>6. PostedBody(c) = Object(<<M(a.key, a.kind, a.v), M(b.key, b.kind, b.v)>>)
  BY <1>2 DEF PostedBody, Body, M, ValueText, P, T
<1>7. ms[1] = a /\ ms[2] = b
  OBVIOUS
<1> HIDE DEF ms
<1>8. \A j \in 1 .. Len(ms) : FirstKey(ms, j)
  <2> SUFFICES ASSUME NEW j \in 1 .. Len(ms), NEW h \in 1 .. j - 1 PROVE ms[h].key # ms[j].key
    BY DEF FirstKey
  <2>1. h = 1 /\ j = 2
    BY <1>5
  <2> QED
    BY <1>2, <1>7, <2>1
<1> QED
  BY <1>1, <1>5, <1>6, <1>7, <1>8 DEF a, b, P, T

=============================================================================
