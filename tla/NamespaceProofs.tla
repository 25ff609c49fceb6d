--------------------------- MODULE NamespaceProofs ---------------------------
(* Theorems about the directory tree for every tree, every set of clients   *)
(* and calls and each of the three service providers.                       *)
EXTENDS Namespace, SequenceTheorems, TLAPS

-----------------------------------------------------------------------------
(* Paths *)

(* Being above, name by name. *)
LEMMA AboveNames ==
    ASSUME NEW p \in Seq(Name), NEW q \in Seq(Name)
    PROVE  Above(p, q) <=> /\ Len(p) < Len(q)
                           /\ \A i \in 1 .. Len(p) : q[i] = p[i]
<1>1. Len(p) \in Nat /\ Len(q) \in Nat
  OBVIOUS
<1>2. ASSUME Len(p) < Len(q)
      PROVE  SubSeq(q, 1, Len(p)) = p <=> \A i \in 1 .. Len(p) : q[i] = p[i]
  <2>1. \A i \in 1 .. Len(p) : q[i] \in Name
    BY <1>1, <1>2
  <2>2. /\ SubSeq(q, 1, Len(p)) \in Seq(Name)
        /\ Len(SubSeq(q, 1, Len(p))) = Len(p)
        /\ \A i \in 1 .. Len(p) : SubSeq(q, 1, Len(p))[i] = q[i]
    BY <1>1, <2>1, SubSeqProperties
  <2>3. (\A i \in 1 .. Len(p) : q[i] = p[i]) => SubSeq(q, 1, Len(p)) = p
    BY <2>2, SeqEqual
  <2> QED
    BY <2>2, <2>3
<1> QED
  BY <1>2 DEF Above

(* A parent is a path above. *)
LEMMA ParentIsAbove ==
    ASSUME NEW p \in Seq(Name), NEW x
    PROVE  x \in Parents(p) <=> x \in Seq(Name) /\ Above(x, p)
<1>1. Len(p) \in Nat
  OBVIOUS
<1>2. ASSUME x \in Parents(p) PROVE x \in Seq(Name) /\ Above(x, p)
  <2>1. PICK k \in 0 .. Len(p) - 1 : x = SubSeq(p, 1, k)
    BY <1>2 DEF Parents
  <2>2. \A i \in 1 .. k : p[i] \in Name
    BY <1>1, <2>1
  <2>3. x \in Seq(Name) /\ Len(x) = k
    BY <1>1, <2>1, <2>2, SubSeqProperties
  <2> QED
    BY <1>1, <2>1, <2>3 DEF Above
<1>3. ASSUME x \in Seq(Name), Above(x, p) PROVE x \in Parents(p)
  <2>1. Len(x) \in 0 .. Len(p) - 1 /\ x = SubSeq(p, 1, Len(x))
    BY <1>1, <1>3 DEF Above
  <2> QED
    BY <2>1 DEF Parents
<1> QED
  BY <1>2, <1>3

(* Being above is transitive. *)
LEMMA AboveTransitive ==
    ASSUME NEW a \in Seq(Name), NEW b \in Seq(Name), NEW c \in Seq(Name),
           Above(a, b), Above(b, c)
    PROVE  Above(a, c)
<1>1. Len(a) \in Nat /\ Len(b) \in Nat /\ Len(c) \in Nat
  OBVIOUS
<1>2. /\ Len(a) < Len(b) /\ \A i \in 1 .. Len(a) : b[i] = a[i]
      /\ Len(b) < Len(c) /\ \A i \in 1 .. Len(b) : c[i] = b[i]
  BY AboveNames
<1>3. Len(a) < Len(c) /\ \A i \in 1 .. Len(a) : c[i] = a[i]
  BY <1>1, <1>2
<1> QED
  BY <1>3, AboveNames

(* Of two paths above a third, one is above the other. *)
LEMMA AboveLinear ==
    ASSUME NEW a \in Seq(Name), NEW b \in Seq(Name), NEW c \in Seq(Name),
           Above(a, c), Above(b, c)
    PROVE  a = b \/ Above(a, b) \/ Above(b, a)
<1>1. Len(a) \in Nat /\ Len(b) \in Nat
  OBVIOUS
<1>2. /\ \A i \in 1 .. Len(a) : c[i] = a[i]
      /\ \A i \in 1 .. Len(b) : c[i] = b[i]
  BY AboveNames
<1>3. CASE Len(a) = Len(b)
  BY <1>2, <1>3, SeqEqual
<1>4. CASE Len(a) < Len(b)
  <2>1. \A i \in 1 .. Len(a) : b[i] = a[i]
    BY <1>1, <1>2, <1>4
  <2> QED
    BY <1>4, <2>1, AboveNames
<1>5. CASE Len(b) < Len(a)
  <2>1. \A i \in 1 .. Len(b) : a[i] = b[i]
    BY <1>1, <1>2, <1>5
  <2> QED
    BY <1>5, <2>1, AboveNames
<1> QED
  BY <1>1, <1>3, <1>4, <1>5

(* Where rename(p, q) puts s, which is p or below it. *)
At(p, q, s) == q \o SubSeq(s, Len(p) + 1, Len(s))

(* Its names: those of q and then those s has below p. *)
LEMMA AtNames ==
    ASSUME NEW p \in Seq(Name), NEW q \in Seq(Name), NEW s \in Seq(Name),
           s = p \/ Above(p, s)
    PROVE  /\ At(p, q, s) \in Seq(Name)
           /\ Len(At(p, q, s)) = Len(q) + Len(s) - Len(p)
           /\ \A i \in 1 .. Len(q) : At(p, q, s)[i] = q[i]
           /\ \A i \in Len(q) + 1 .. Len(q) + Len(s) - Len(p) :
                 At(p, q, s)[i] = s[i - Len(q) + Len(p)]
<1>1. Len(p) \in Nat /\ Len(q) \in Nat /\ Len(s) \in Nat /\ Len(p) <= Len(s)
  BY AboveNames
<1> DEFINE t == SubSeq(s, Len(p) + 1, Len(s))
<1>2. \A i \in Len(p) + 1 .. Len(s) : s[i] \in Name
  BY <1>1
<1>3. /\ t \in Seq(Name) /\ Len(t) = Len(s) - Len(p)
      /\ \A i \in 1 .. Len(s) - Len(p) : t[i] = s[Len(p) + i]
  <2>1. Len(p) + 1 \in Int /\ Len(s) \in Int
    BY <1>1
  <2>2. /\ t \in Seq(Name)
        /\ Len(t) = IF Len(p) + 1 <= Len(s) THEN Len(s) - (Len(p) + 1) + 1 ELSE 0
        /\ \A i \in 1 .. Len(s) - (Len(p) + 1) + 1 : t[i] = s[Len(p) + 1 + i - 1]
    BY <1>2, <2>1, SubSeqProperties
  <2> HIDE DEF t
  <2> QED
    BY <1>1, <2>2
<1> HIDE DEF t
<1>4. /\ q \o t \in Seq(Name) /\ Len(q \o t) = Len(q) + Len(t)
      /\ \A i \in 1 .. Len(q) + Len(t) :
            (q \o t)[i] = IF i <= Len(q) THEN q[i] ELSE t[i - Len(q)]
  BY <1>3, ConcatProperties
<1>5. At(p, q, s) = q \o t
  BY DEF At, t
<1>6. \A i \in Len(q) + 1 .. Len(q) + Len(s) - Len(p) :
         (q \o t)[i] = s[i - Len(q) + Len(p)]
  <2> SUFFICES ASSUME NEW i \in Len(q) + 1 .. Len(q) + Len(s) - Len(p)
               PROVE  (q \o t)[i] = s[i - Len(q) + Len(p)]
    OBVIOUS
  <2>1. /\ i \in 1 .. Len(q) + Len(t) /\ ~(i <= Len(q))
        /\ i - Len(q) \in 1 .. Len(s) - Len(p)
        /\ Len(p) + (i - Len(q)) = i - Len(q) + Len(p)
    BY <1>1, <1>3
  <2>2. (q \o t)[i] = t[i - Len(q)]
    BY <1>4, <2>1
  <2>3. t[i - Len(q)] = s[Len(p) + (i - Len(q))]
    BY <1>3, <2>1
  <2> QED
    BY <2>1, <2>2, <2>3
<1> QED
  BY <1>1, <1>3, <1>4, <1>5, <1>6

(* Moving back undoes it, and p itself comes to q. *)
LEMMA AtBack ==
    ASSUME NEW p \in Seq(Name), NEW q \in Seq(Name), NEW s \in Seq(Name),
           s = p \/ Above(p, s)
    PROVE  /\ At(p, q, s) = q \/ Above(q, At(p, q, s))
           /\ At(q, p, At(p, q, s)) = s
           /\ s = p <=> At(p, q, s) = q
<1>1. /\ Len(p) \in Nat /\ Len(q) \in Nat /\ Len(s) \in Nat /\ Len(p) <= Len(s)
      /\ \A i \in 1 .. Len(p) : s[i] = p[i]
  BY AboveNames
<1> DEFINE a == At(p, q, s)
<1>2. /\ a \in Seq(Name) /\ Len(a) = Len(q) + Len(s) - Len(p)
      /\ \A i \in 1 .. Len(q) : a[i] = q[i]
      /\ \A i \in Len(q) + 1 .. Len(q) + Len(s) - Len(p) :
            a[i] = s[i - Len(q) + Len(p)]
  BY AtNames
<1> HIDE DEF a
<1>3. a = q \/ Above(q, a)
  <2>1. CASE Len(s) = Len(p)
    BY <1>1, <1>2, <2>1, SeqEqual
  <2>2. CASE Len(s) > Len(p)
    <3>1. Len(q) < Len(a)
      BY <1>1, <1>2, <2>2
    <3> QED
      BY <1>2, <3>1, AboveNames
  <2> QED
    BY <1>1, <2>1, <2>2
<1>4. At(q, p, a) = s
  <2> DEFINE b == At(q, p, a)
  <2>1. /\ b \in Seq(Name) /\ Len(b) = Len(p) + Len(a) - Len(q)
        /\ \A i \in 1 .. Len(p) : b[i] = p[i]
        /\ \A i \in Len(p) + 1 .. Len(p) + Len(a) - Len(q) :
              b[i] = a[i - Len(p) + Len(q)]
    <3>1. b \in Seq(Name) /\ Len(b) = Len(p) + Len(a) - Len(q)
      BY <1>2, <1>3, AtNames
    <3>2. \A i \in 1 .. Len(p) : b[i] = p[i]
      BY <1>2, <1>3, AtNames
    <3>3. \A i \in Len(p) + 1 .. Len(p) + Len(a) - Len(q) :
             b[i] = a[i - Len(p) + Len(q)]
      BY <1>2, <1>3, AtNames
    <3> QED
      BY <3>1, <3>2, <3>3
  <2> HIDE DEF b
  <2>2. Len(b) = Len(s)
    BY <1>1, <1>2, <2>1
  <2>3. \A i \in 1 .. Len(p) : b[i] = s[i]
    BY <1>1, <2>1
  <2>4. ASSUME NEW i \in Len(p) + 1 .. Len(s) PROVE b[i] = s[i]
    <3>1. /\ i \in Len(p) + 1 .. Len(p) + Len(a) - Len(q)
          /\ i - Len(p) + Len(q) \in Len(q) + 1 .. Len(q) + Len(s) - Len(p)
          /\ (i - Len(p) + Len(q)) - Len(q) + Len(p) = i
      BY <1>1, <1>2, <2>4
    <3> QED
      BY <1>2, <2>1, <3>1
  <2>5. \A i \in 1 .. Len(b) : b[i] = s[i]
    BY <1>1, <2>2, <2>3, <2>4
  <2>6. b = s
    BY <2>1, <2>2, <2>5, SeqEqual
  <2> QED
    BY <2>6 DEF b
<1>5. s = p <=> a = q
  <2>1. s = p => Len(a) = Len(q)
    BY <1>1, <1>2
  <2>2. a = q => Len(s) = Len(p)
    BY <1>1, <1>2
  <2>3. Above(q, a) => Len(a) # Len(q)
    BY <1>1, <1>2, AboveNames
  <2>4. Above(p, s) => Len(p) # Len(s)
    BY <1>1, AboveNames
  <2> QED
    BY <1>3, <2>1, <2>2, <2>3, <2>4
<1> QED
  BY <1>3, <1>4, <1>5 DEF a

(* What is above a moved path is above q, is q, or was moved with it. *)
LEMMA AboveMoved ==
    ASSUME NEW p \in Seq(Name), NEW q \in Seq(Name), NEW s \in Seq(Name),
           s = p \/ Above(p, s), NEW x \in Seq(Name), Above(x, At(p, q, s))
    PROVE  \/ Above(x, q)
           \/ x = q /\ Above(p, s)
           \/ \E t \in Seq(Name) : Above(p, t) /\ Above(t, s) /\ x = At(p, q, t)
<1>n. Len(p) \in Nat /\ Len(q) \in Nat /\ Len(s) \in Nat /\ Len(x) \in Nat
  OBVIOUS
<1>a. /\ At(p, q, s) \in Seq(Name)
      /\ At(p, q, s) = q \/ Above(q, At(p, q, s))
      /\ s = p <=> At(p, q, s) = q
  <2>1. At(p, q, s) \in Seq(Name)
    BY AtNames
  <2>2. /\ At(p, q, s) = q \/ Above(q, At(p, q, s))
        /\ s = p <=> At(p, q, s) = q
    BY AtBack
  <2> QED
    BY <2>1, <2>2
<1>b. \A i \in Len(q) + 1 .. Len(q) + Len(s) - Len(p) :
         At(p, q, s)[i] = s[i - Len(q) + Len(p)]
  BY AtNames
<1>1. CASE s = p
  BY <1>1, <1>a
<1>2. CASE s # p
  <2>1. Above(p, s) /\ Above(q, At(p, q, s))
    BY <1>2, <1>a
  <2>2. x = q \/ Above(x, q) \/ Above(q, x)
    BY <1>a, <2>1, AboveLinear
  <2>3. ASSUME Above(q, x)
        PROVE  \E t \in Seq(Name) : Above(p, t) /\ Above(t, s) /\ x = At(p, q, t)
    <3> DEFINE t == At(q, p, x)
    <3>1. /\ t \in Seq(Name) /\ Len(t) = Len(p) + Len(x) - Len(q)
          /\ \A i \in 1 .. Len(p) : t[i] = p[i]
          /\ \A i \in Len(p) + 1 .. Len(p) + Len(x) - Len(q) :
                t[i] = x[i - Len(p) + Len(q)]
      <4>1. \A i \in 1 .. Len(p) : At(q, p, x)[i] = p[i]
        BY <2>3, AtNames
      <4>2. At(q, p, x) \in Seq(Name) /\ Len(At(q, p, x)) = Len(p) + Len(x) - Len(q)
        BY <2>3, AtNames
      <4>3. \A i \in Len(p) + 1 .. Len(p) + Len(x) - Len(q) :
               At(q, p, x)[i] = x[i - Len(p) + Len(q)]
        BY <2>3, AtNames
      <4> QED
        BY <4>1, <4>2, <4>3
    <3>2. /\ t = p \/ Above(p, t)
          /\ x = At(p, q, t)
          /\ x = q <=> t = p
      BY <2>3, AtBack
    <3> HIDE DEF t
    <3>3. x # q
      BY <1>n, <2>3, AboveNames
    <3>4. /\ Len(x) < Len(q) + Len(s) - Len(p)
          /\ \A i \in 1 .. Len(x) : At(p, q, s)[i] = x[i]
      BY <1>a, AtNames, AboveNames
    <3>5. Len(t) < Len(s)
      BY <1>n, <3>1, <3>4
    <3>6. \A i \in 1 .. Len(p) : s[i] = p[i]
      BY <2>1, AboveNames
    <3>7. ASSUME NEW i \in Len(p) + 1 .. Len(t) PROVE s[i] = t[i]
      <4>1. /\ i - Len(p) + Len(q) \in 1 .. Len(x)
            /\ i - Len(p) + Len(q) \in Len(q) + 1 .. Len(q) + Len(s) - Len(p)
            /\ (i - Len(p) + Len(q)) - Len(q) + Len(p) = i
        BY <1>n, <3>1, <3>5, <3>7
      <4>2. At(p, q, s)[i - Len(p) + Len(q)] = s[i]
        BY <1>b, <4>1
      <4> QED
        BY <3>1, <3>4, <3>7, <4>1, <4>2
    <3>8. \A i \in 1 .. Len(t) : s[i] = t[i]
      BY <1>n, <3>1, <3>6, <3>7
    <3>9. Above(t, s)
      BY <3>1, <3>5, <3>8, AboveNames
    <3> QED
      BY <3>1, <3>2, <3>3, <3>9
  <2> QED
    BY <2>1, <2>2, <2>3
<1> QED
  BY <1>1, <1>2

-----------------------------------------------------------------------------
(* System calls *)

(* What TreeSound says of the tree of paths alone. *)
Sound(t) ==
    /\ DOMAIN t \subseteq Seq(Name)
    /\ t \in [DOMAIN t -> Nodes]
    /\ \A p \in DOMAIN t : \A q \in Parents(p) : q \in DOMAIN t /\ t[q].kind = "dir"
    /\ \A p, q \in DOMAIN t : t[p].id = t[q].id => p = q

(* What a system call other than one that makes a node may do: it leaves a  *)
(* sound tree, accounts for every node, and changes nothing if it fails.    *)
Good(r) ==
    /\ r.err \in Errno
    /\ Sound(r.tree)
    /\ Ids(r.tree) \cup r.gone = Ids(tree)
    /\ r.err # "ok" => r.tree = tree /\ r.gone = {}

LEMMA FailsGood ==
    ASSUME Sound(tree), NEW e \in Errno
    PROVE  Good(Fails(e))
BY DEF Good, Fails

(* What lstat answers, and what its "ok" means. *)
LEMMA LstatFacts ==
    ASSUME NEW p
    PROVE  /\ Walk(p) \in {"ok", "ENOENT", "ENOTDIR"}
           /\ Lstat(p) \in {"ok", "ENOENT", "ENOTDIR"}
           /\ Lstat(p) = "ok" => p \in DOMAIN tree /\ Walk(p) = "ok"
           /\ Walk(p) = "ok" => \A q \in Parents(p) : q \in DOMAIN tree /\ tree[q].kind = "dir"
<1>1. Walk(p) \in {"ok", "ENOENT", "ENOTDIR"}
  BY DEF Walk
<1>2. Walk(p) = "ok" => \A q \in Parents(p) : q \in DOMAIN tree /\ tree[q].kind = "dir"
  BY DEF Walk, IsDir, Exists
<1> QED
  BY <1>1, <1>2 DEF Lstat, Exists

(* A file holds nothing. *)
LEMMA NothingUnderFile ==
    ASSUME Sound(tree), NEW p \in DOMAIN tree, tree[p].kind # "dir"
    PROVE  Under(p) = {}
<1> SUFFICES ASSUME NEW q \in DOMAIN tree, Above(p, q) PROVE FALSE
  BY DEF Under
<1>1. p \in Seq(Name) /\ q \in Seq(Name)
  BY DEF Sound
<1>2. p \in Parents(q)
  BY <1>1, ParentIsAbove
<1> QED
  BY <1>2 DEF Sound

(* Changing times keeps the tree. *)
LEMMA SameShape ==
    ASSUME Sound(tree), NEW t, DOMAIN t = DOMAIN tree, t \in [DOMAIN t -> Nodes],
           \A p \in DOMAIN tree : t[p].id = tree[p].id /\ t[p].kind = tree[p].kind
    PROVE  Sound(t) /\ Ids(t) = Ids(tree)
<1>1. Ids(t) = Ids(tree)
  BY DEF Ids
<1>2. \A p \in DOMAIN t : \A q \in Parents(p) : q \in DOMAIN t /\ t[q].kind = "dir"
  BY DEF Sound
<1>3. \A p, q \in DOMAIN t : t[p].id = t[q].id => p = q
  BY DEF Sound
<1> QED
  BY <1>1, <1>2, <1>3 DEF Sound

LEMMA SetTimesGood ==
    ASSUME Sound(tree), NEW p \in Seq(Name), NEW a \in Int, NEW m \in Int
    PROVE  Good(SetTimes(p, a, m))
<1>1. CASE Lstat(p) # "ok"
  <2>1. Lstat(p) \in Errno
    BY LstatFacts DEF Errno
  <2> QED
    BY <1>1, <2>1, FailsGood DEF SetTimes
<1>2. CASE Lstat(p) = "ok"
  <2> DEFINE t == [tree EXCEPT ![p].atime = a, ![p].mtime = m]
  <2>1. p \in DOMAIN tree
    BY <1>2, LstatFacts
  <2>2. tree \in [DOMAIN tree -> Nodes]
    BY DEF Sound
  <2>3. DOMAIN t = DOMAIN tree
    BY <2>2
  <2>4. \A q \in DOMAIN tree : q # p => t[q] = tree[q]
    BY <2>1, <2>2
  <2>5. t[p] = [tree[p] EXCEPT !.atime = a, !.mtime = m]
    BY <2>1, <2>2
  <2>6. tree[p] \in Nodes
    BY <2>1, <2>2
  <2>7. t[p] \in Nodes /\ t[p].id = tree[p].id /\ t[p].kind = tree[p].kind
    <3> DEFINE v == tree[p]
               u == [v EXCEPT !.atime = a, !.mtime = m]
    <3>1. v \in Nodes /\ t[p] = u
      BY <2>5, <2>6
    <3> HIDE DEF v, t
    <3>2. u \in Nodes /\ u.id = v.id /\ u.kind = v.kind
      BY <3>1 DEF Nodes
    <3> QED
      BY <3>1, <3>2 DEF v
  <2>8. t \in [DOMAIN t -> Nodes]
    <3>1. \A q \in DOMAIN tree : t[q] \in Nodes
      BY <2>2, <2>4, <2>7
    <3>2. t = [q \in DOMAIN tree |-> t[q]]
      BY <2>2
    <3> QED
      BY <2>3, <3>1, <3>2
  <2>9. \A q \in DOMAIN tree : t[q].id = tree[q].id /\ t[q].kind = tree[q].kind
    BY <2>4, <2>7
  <2> HIDE DEF t
  <2>10. Sound(t) /\ Ids(t) = Ids(tree)
    BY <2>3, <2>8, <2>9, SameShape
  <2>11. SetTimes(p, a, m) = Leaves(t, {})
    BY <1>2 DEF SetTimes, t
  <2> QED
    BY <2>10, <2>11 DEF Good, Leaves, Errno
<1> QED
  BY <1>1, <1>2

(* Removing a node with nothing under it. *)
LEMMA WithoutGood ==
    ASSUME Sound(tree), NEW p \in DOMAIN tree, Under(p) = {}
    PROVE  Good(Leaves(Without(p), {tree[p].id}))
<1> DEFINE t == Without(p)
<1>1. DOMAIN t = DOMAIN tree \ {p} /\ \A q \in DOMAIN t : t[q] = tree[q]
  BY DEF Without
<1>2. t \in [DOMAIN t -> Nodes]
  BY DEF Without, Sound
<1> HIDE DEF t
<1>3. ASSUME NEW r \in DOMAIN t, NEW q \in Parents(r) PROVE q \in DOMAIN t /\ t[q].kind = "dir"
  <2>1. q \in DOMAIN tree /\ tree[q].kind = "dir"
    BY <1>1, <1>3 DEF Sound
  <2>2. Above(q, r)
    BY <1>1, <1>3, ParentIsAbove DEF Sound
  <2>3. q # p
    BY <1>1, <1>3, <2>2 DEF Under
  <2> QED
    BY <1>1, <2>1, <2>3
<1>4. Sound(t)
  BY <1>1, <1>2, <1>3 DEF Sound
<1>5. Ids(t) \cup {tree[p].id} = Ids(tree)
  BY <1>1 DEF Ids
<1> QED
  BY <1>4, <1>5 DEF Good, Leaves, Errno, t

LEMMA UnlinkGood ==
    ASSUME Sound(tree), NEW p \in Seq(Name)
    PROVE  Good(Unlink(p))
<1>1. Lstat(p) \in Errno /\ "EISDIR" \in Errno
  BY LstatFacts DEF Errno
<1>2. CASE Lstat(p) # "ok"
  BY <1>1, <1>2, FailsGood DEF Unlink
<1>3. CASE Lstat(p) = "ok" /\ IsDir(p)
  BY <1>1, <1>3, FailsGood DEF Unlink
<1>4. CASE Lstat(p) = "ok" /\ ~IsDir(p)
  <2>1. p \in DOMAIN tree /\ tree[p].kind # "dir"
    BY <1>4, LstatFacts DEF IsDir, Exists
  <2>2. Good(Leaves(Without(p), {tree[p].id}))
    BY <2>1, NothingUnderFile, WithoutGood
  <2> QED
    BY <1>4, <2>2 DEF Unlink
<1> QED
  BY <1>2, <1>3, <1>4

LEMMA RmdirGood ==
    ASSUME Sound(tree), NEW p \in Seq(Name)
    PROVE  Good(Rmdir(p))
<1>1. Lstat(p) \in Errno /\ "ENOTDIR" \in Errno /\ "ENOTEMPTY" \in Errno
  BY LstatFacts DEF Errno
<1>2. CASE Lstat(p) # "ok"
  BY <1>1, <1>2, FailsGood DEF Rmdir
<1>3. CASE Lstat(p) = "ok" /\ (~IsDir(p) \/ Under(p) # {})
  BY <1>1, <1>3, FailsGood DEF Rmdir
<1>4. CASE Lstat(p) = "ok" /\ IsDir(p) /\ Under(p) = {}
  <2>1. Good(Leaves(Without(p), {tree[p].id}))
    BY <1>4, LstatFacts, WithoutGood
  <2> QED
    BY <1>4, <2>1 DEF Rmdir
<1> QED
  BY <1>2, <1>3, <1>4

(* rename(p, q), where neither is above the other and nothing is under q:   *)
(* what is at or under p comes to At(p, q, _), all else but q stays.        *)
LEMMA MovedFacts ==
    ASSUME Sound(tree), NEW p \in DOMAIN tree, NEW q \in Seq(Name),
           p # q, ~Above(p, q), ~Above(q, p), Under(q) = {}
    PROVE  LET from == {p} \cup Under(p) IN
           /\ from \subseteq DOMAIN tree /\ q \notin from
           /\ DOMAIN Moved(p, q) = (DOMAIN tree \ from) \cup {At(p, q, s) : s \in from}
           /\ \A s \in from : Moved(p, q)[At(p, q, s)] = tree[s]
           /\ \A r \in DOMAIN tree \ from : r # q => Moved(p, q)[r] = tree[r]
<1> DEFINE from == {p} \cup Under(p)
           to == {At(p, q, s) : s \in from}
<1>1. p \in Seq(Name) /\ DOMAIN tree \subseteq Seq(Name)
  BY DEF Sound
<1>2. from \subseteq DOMAIN tree /\ q \notin from
  BY DEF Under
<1>3. DOMAIN Moved(p, q) = (DOMAIN tree \ from) \cup to
  BY DEF Moved, At
<1>4. \A r \in (DOMAIN tree \ from) \cup to :
         Moved(p, q)[r] = IF r = q \/ Above(q, r) THEN tree[At(q, p, r)] ELSE tree[r]
  BY DEF Moved, At
<1>5. ASSUME NEW s \in from PROVE Moved(p, q)[At(p, q, s)] = tree[s]
  <2>1. s \in Seq(Name) /\ (s = p \/ Above(p, s))
    BY <1>1, <1>2, <1>5 DEF Under
  <2>2. /\ At(p, q, s) = q \/ Above(q, At(p, q, s))
        /\ At(q, p, At(p, q, s)) = s
    BY <1>1, <2>1, AtBack
  <2>3. At(p, q, s) \in to
    BY <1>5
  <2> QED
    BY <1>4, <2>2, <2>3
<1>6. ASSUME NEW r \in DOMAIN tree \ from, r # q PROVE Moved(p, q)[r] = tree[r]
  <2>1. ~Above(q, r)
    BY <1>6 DEF Under
  <2> QED
    BY <1>4, <1>6, <2>1
<1> QED
  BY <1>2, <1>3, <1>5, <1>6

(* Such a rename keeps the tree, and only what was at q vanishes. *)
LEMMA MovedGood ==
    ASSUME Sound(tree), NEW p \in DOMAIN tree, NEW q \in Seq(Name),
           p # q, ~Above(p, q), ~Above(q, p), Under(q) = {}, Walk(q) = "ok"
    PROVE  Good(Leaves(Moved(p, q), IF Exists(q) THEN {tree[q].id} ELSE {}))
<1> DEFINE from == {p} \cup Under(p)
           t == Moved(p, q)
           stays == DOMAIN tree \ (from \cup {q})
<1>1. p \in Seq(Name) /\ DOMAIN tree \subseteq Seq(Name)
  BY DEF Sound
<1>2. /\ from \subseteq DOMAIN tree /\ q \notin from
      /\ DOMAIN t = (DOMAIN tree \ from) \cup {At(p, q, s) : s \in from}
      /\ \A s \in from : t[At(p, q, s)] = tree[s]
      /\ \A r \in DOMAIN tree \ from : r # q => t[r] = tree[r]
  BY MovedFacts
<1>3. \A s \in from : s \in Seq(Name) /\ (s = p \/ Above(p, s))
  BY <1>1, <1>2 DEF Under
<1>4. p \in from /\ At(p, q, p) = q
  BY <1>1, AtBack
<1>5. DOMAIN t = stays \cup {At(p, q, s) : s \in from}
  BY <1>2, <1>4
<1>6. \A r \in stays : t[r] = tree[r]
  BY <1>2
<1>7. \A s \in DOMAIN tree : s = p \/ Above(p, s) => s \in from
  BY DEF Under
<1>8. \A x \in DOMAIN tree : Above(q, x) => FALSE
  BY DEF Under
<1>w. \A x \in Parents(q) : x \in DOMAIN tree /\ tree[x].kind = "dir"
  BY LstatFacts
<1>f. t = [r \in DOMAIN t |-> t[r]]
  BY DEF Moved
<1> HIDE DEF from, t
<1>9. t \in [DOMAIN t -> Nodes] /\ DOMAIN t \subseteq Seq(Name)
  <2>1. \A s \in from : At(p, q, s) \in Seq(Name)
    BY <1>1, <1>3, AtNames
  <2>2. \A s \in DOMAIN tree : tree[s] \in Nodes
    BY DEF Sound
  <2>3. \A r \in DOMAIN t : t[r] \in Nodes
    BY <1>2, <1>5, <1>6, <2>2
  <2> QED
    BY <1>1, <1>5, <1>f, <2>1, <2>3
<1>10. ASSUME NEW r \in DOMAIN t, NEW x \in Parents(r) PROVE x \in DOMAIN t /\ t[x].kind = "dir"
  <2>1. x \in Seq(Name) /\ Above(x, r) /\ r \in Seq(Name)
    BY <1>9, <1>10, ParentIsAbove
  <2>2. CASE r \in stays
    <3>1. x \in DOMAIN tree /\ tree[x].kind = "dir"
      BY <1>10, <2>2 DEF Sound
    <3>2. x \notin from
      <4>1. x \in from => r = p \/ Above(p, r)
        BY <1>1, <1>3, <2>1, AboveTransitive
      <4> QED
        BY <1>7, <2>2, <4>1
    <3>3. x # q
      BY <1>8, <2>1, <2>2
    <3> QED
      BY <1>5, <1>6, <3>1, <3>2, <3>3
  <2>3. ASSUME NEW s \in from, r = At(p, q, s) PROVE x \in DOMAIN t /\ t[x].kind = "dir"
    <3>1. s \in Seq(Name) /\ (s = p \/ Above(p, s)) /\ s \in DOMAIN tree
      BY <1>2, <1>3, <2>3
    <3>2. \/ Above(x, q)
          \/ x = q /\ Above(p, s)
          \/ \E y \in Seq(Name) : Above(p, y) /\ Above(y, s) /\ x = At(p, q, y)
      BY <1>1, <2>1, <2>3, <3>1, AboveMoved
    <3>3. CASE Above(x, q)
      <4>1. x \in DOMAIN tree /\ tree[x].kind = "dir"
        BY <1>w, <2>1, <3>3, ParentIsAbove
      <4>2. x \notin from
        <5>1. x \in from => Above(p, q)
          BY <1>1, <1>3, <2>1, <3>3, AboveTransitive
        <5> QED
          BY <5>1
      <4>3. x # q
        BY <3>3 DEF Above
      <4> QED
        BY <1>5, <1>6, <4>1, <4>2, <4>3
    <3>4. CASE x = q /\ Above(p, s)
      <4>1. tree[p].kind = "dir"
        <5>1. p \in Parents(s)
          BY <1>1, <3>1, <3>4, ParentIsAbove
        <5> QED
          BY <3>1, <5>1 DEF Sound
      <4>2. x = At(p, q, p)
        BY <1>4, <3>4
      <4> QED
        BY <1>2, <1>4, <1>5, <4>1, <4>2
    <3>5. ASSUME NEW y \in Seq(Name), Above(p, y), Above(y, s), x = At(p, q, y)
          PROVE  x \in DOMAIN t /\ t[x].kind = "dir"
      <4>1. y \in Parents(s)
        BY <3>1, <3>5, ParentIsAbove
      <4>2. y \in DOMAIN tree /\ tree[y].kind = "dir"
        BY <3>1, <4>1 DEF Sound
      <4>3. y \in from
        BY <1>7, <3>5, <4>2
      <4> QED
        BY <1>2, <1>5, <3>5, <4>2, <4>3
    <3> QED
      BY <3>2, <3>3, <3>4, <3>5
  <2> QED
    BY <1>5, <1>10, <2>2, <2>3
<1>11. ASSUME NEW r1 \in DOMAIN t, NEW r2 \in DOMAIN t, t[r1].id = t[r2].id PROVE r1 = r2
  <2>1. \A s1, s2 \in DOMAIN tree : tree[s1].id = tree[s2].id => s1 = s2
    BY DEF Sound
  <2>2. \A r \in DOMAIN t : \E s \in DOMAIN tree :
           /\ t[r] = tree[s]
           /\ (s \in stays /\ r = s) \/ (s \in from /\ r = At(p, q, s))
    BY <1>2, <1>5, <1>6
  <2>3. PICK s1 \in DOMAIN tree :
           /\ t[r1] = tree[s1]
           /\ (s1 \in stays /\ r1 = s1) \/ (s1 \in from /\ r1 = At(p, q, s1))
    BY <2>2
  <2>4. PICK s2 \in DOMAIN tree :
           /\ t[r2] = tree[s2]
           /\ (s2 \in stays /\ r2 = s2) \/ (s2 \in from /\ r2 = At(p, q, s2))
    BY <2>2
  <2>5. s1 = s2
    BY <1>11, <2>1, <2>3, <2>4
  <2> QED
    BY <2>3, <2>4, <2>5
<1>12. Sound(t)
  BY <1>9, <1>10, <1>11 DEF Sound
<1>13. Ids(t) \cup (IF Exists(q) THEN {tree[q].id} ELSE {}) = Ids(tree)
  <2>1. Ids(t) = {tree[r].id : r \in stays \cup from}
    <3>1. \A r \in DOMAIN t : \E s \in stays \cup from : t[r] = tree[s]
      BY <1>2, <1>5, <1>6
    <3>2. \A s \in stays \cup from : \E r \in DOMAIN t : t[r] = tree[s]
      BY <1>2, <1>5, <1>6
    <3> QED
      BY <3>1, <3>2 DEF Ids
  <2>2. CASE Exists(q)
    <3>1. DOMAIN tree = stays \cup from \cup {q}
      BY <1>2, <2>2 DEF Exists
    <3> QED
      BY <2>1, <2>2, <3>1 DEF Ids
  <2>3. CASE ~Exists(q)
    <3>1. DOMAIN tree = stays \cup from
      BY <1>2, <2>3 DEF Exists
    <3> QED
      BY <2>1, <2>3, <3>1 DEF Ids
  <2> QED
    BY <2>2, <2>3
<1> QED
  BY <1>12, <1>13 DEF Good, Leaves, Errno, t

LEMMA RenameGood ==
    ASSUME Sound(tree), NEW p \in Seq(Name), NEW q \in Seq(Name)
    PROVE  Good(Rename(p, q))
<1>1. /\ Lstat(p) \in Errno /\ Walk(q) \in Errno
      /\ {"EINVAL", "ENOTEMPTY", "EISDIR", "ENOTDIR"} \subseteq Errno
  BY LstatFacts DEF Errno
<1>2. CASE Lstat(p) # "ok"
  BY <1>1, <1>2, FailsGood DEF Rename
<1>3. CASE Lstat(p) = "ok" /\ Walk(q) # "ok"
  BY <1>1, <1>3, FailsGood DEF Rename
<1>4. CASE Lstat(p) = "ok" /\ Walk(q) = "ok"
  <2> DEFINE busy  == Above(q, p) \/ Under(q) # {}
             isdir == Exists(q) /\ IsDir(q) /\ ~IsDir(p)
             nodir == Exists(q) /\ IsDir(p) /\ ~IsDir(q)
             moved == Leaves(Moved(p, q), IF Exists(q) THEN {tree[q].id} ELSE {})
  <2>1. Rename(p, q) = IF p = q THEN Leaves(tree, {})
                       ELSE IF Above(p, q) THEN Fails("EINVAL")
                       ELSE IF busy THEN Fails("ENOTEMPTY")
                       ELSE IF isdir THEN Fails("EISDIR")
                       ELSE IF nodir THEN Fails("ENOTDIR")
                       ELSE moved
    BY <1>4 DEF Rename
  <2>2. Good(Leaves(tree, {}))
    BY DEF Good, Leaves, Errno
  <2>3. /\ Good(Fails("EINVAL")) /\ Good(Fails("ENOTEMPTY"))
        /\ Good(Fails("EISDIR")) /\ Good(Fails("ENOTDIR"))
    BY <1>1, FailsGood
  <2>4. p # q /\ ~Above(p, q) /\ ~busy => Good(moved)
    <3>1. p \in DOMAIN tree
      BY <1>4, LstatFacts
    <3> QED
      BY <1>4, <3>1, MovedGood
  <2> HIDE DEF busy, isdir, nodir, moved
  <2> QED
    BY <2>1, <2>2, <2>3, <2>4
<1> QED
  BY <1>2, <1>3, <1>4

(* Making a node: it is new, and all else stays. *)
LEMMA MakeGood ==
    ASSUME Sound(tree), NEW p \in Seq(Name), NEW i \in Id, i \notin Ids(tree),
           NEW k \in {"file", "dir"}
    PROVE  LET r == Make(p, i, k) IN
           /\ r.err \in Errno /\ Sound(r.tree) /\ r.gone = {}
           /\ Ids(r.tree) = Ids(tree) \cup (IF r.err = "ok" THEN {i} ELSE {})
<1> DEFINE r == Make(p, i, k)
<1>1. Walk(p) \in Errno /\ "EEXIST" \in Errno /\ "EEXIST" # "ok"
  BY LstatFacts DEF Errno
<1>2. CASE Walk(p) # "ok" \/ Exists(p)
  <2>1. PICK e \in Errno : e # "ok" /\ r = Fails(e)
    BY <1>1, <1>2 DEF Make
  <2> HIDE DEF r
  <2>2. r.err = e /\ r.tree = tree /\ r.gone = {}
    BY <2>1 DEF Fails
  <2>3. QED
    BY <2>1, <2>2 DEF r
<1>3. CASE Walk(p) = "ok" /\ ~Exists(p)
  <2> DEFINE n == Node(i, k)
             t == With(p, n)
  <2>1. r.err = "ok" /\ r.tree = t /\ r.gone = {}
    BY <1>3 DEF Make, Leaves
  <2>2. n \in Nodes /\ n.id = i
    BY DEF Node, Nodes
  <2>3. /\ DOMAIN t = DOMAIN tree \cup {p} /\ p \notin DOMAIN tree
        /\ t[p] = n /\ \A q \in DOMAIN tree : t[q] = tree[q]
    BY <1>3 DEF With, Exists
  <2> HIDE DEF n
  <2>4. t \in [DOMAIN t -> Nodes]
    BY <2>2 DEF With, Sound
  <2> HIDE DEF t, r
  <2>5. ASSUME NEW s \in DOMAIN t, NEW x \in Parents(s) PROVE x \in DOMAIN t /\ t[x].kind = "dir"
    <3>1. x \in DOMAIN tree /\ tree[x].kind = "dir"
      BY <1>3, <2>3, <2>5, LstatFacts DEF Sound
    <3> QED
      BY <2>3, <3>1
  <2>6. ASSUME NEW s1 \in DOMAIN t, NEW s2 \in DOMAIN t, t[s1].id = t[s2].id PROVE s1 = s2
    <3>1. \A s \in DOMAIN tree : tree[s].id # i
      BY DEF Ids
    <3> QED
      BY <2>2, <2>3, <2>6, <3>1 DEF Sound
  <2>7. Sound(t)
    BY <2>3, <2>4, <2>5, <2>6 DEF Sound
  <2>8. Ids(t) = Ids(tree) \cup {i}
    BY <2>2, <2>3 DEF Ids
  <2>9. QED
    BY <2>1, <2>7, <2>8 DEF r, Errno
<1> QED
  BY <1>2, <1>3

-----------------------------------------------------------------------------
(* The inductive invariant *)

Entry == Name \X {"file", "dir"}

Req == [pc : {"none", "sent", "list", "times", "rename", "reply"}, err : Errno,
        entries : SUBSET Entry, old : Nodes]

Listing == [dir : Id, open : BOOLEAN, failed : BOOLEAN, always : SUBSET Name,
            ever : SUBSET Name, todo : SUBSET Name, seen : SUBSET Name]

TypeInv ==
    /\ provider \in Providers
    /\ call \in [Client -> Program \cup {NoCall}]
    /\ st \in [Client -> {"idle", "wait", "done"}]
    /\ res \in [Client -> Errno]
    /\ got \in [Client -> SUBSET Entry]
    /\ rq \in [Client -> Req]
    /\ lst \in [Client -> Listing]
    /\ effects \in [Client -> Nat]

Changes(op) == op \notin {"meta", "list"}

(* the names whose entries the handler of c has put into its answer *)
Listed(c) == {e[1] : e \in rq[c].entries}

(* the replies that follow a change of the tree *)
Done(op, err) == err = "ok" \/ (op = "create" /\ err \in CloseErrors)

(* How far the call of c and its handler are, and what that has changed. *)
CallInv(c) ==
    /\ st[c] = "idle" => call[c] = NoCall /\ rq[c].pc = "none"
    /\ st[c] # "idle" => call[c] \in Program
    /\ st[c] = "wait" => rq[c].pc # "none"
    /\ rq[c].pc = "times" => call[c].op = "utimens" /\ provider # "c"
    /\ rq[c].pc = "rename" => call[c].op = "rename"
    /\ effects[c] \in {0, 1}
    /\ effects[c] = 1 =>
          rq[c].pc = "reply" /\ Changes(call[c].op) /\ Done(call[c].op, rq[c].err)
    /\ rq[c].pc = "reply" /\ rq[c].err = "ok" /\ Changes(call[c].op) => effects[c] = 1

(* What a call has returned: it was refused, it was given up, or this is    *)
(* its handler's errno.                                                     *)
ResultInv(c) ==
    st[c] = "done" =>
        \/ rq[c].pc = "none" /\ res[c] \in {"EINVAL", "ENAMETOOLONG"}
        \/ res[c] = "EIO"
        \/ /\ rq[c].pc = "reply" /\ res[c] = rq[c].err
           /\ res[c] = "ok" /\ call[c].op = "list" => got[c] = rq[c].entries

(* A listing: what was read and is no longer to do is in the answer. *)
ListInv(c) ==
    /\ lst[c].todo \subseteq lst[c].seen
    /\ rq[c].pc \in {"none", "sent", "times", "rename"} => lst[c].open = FALSE
    /\ rq[c].pc = "list" => /\ call[c].op = "list"
                            /\ lst[c].seen \ lst[c].todo \subseteq Listed(c)
    /\ rq[c].pc = "reply" /\ call[c].op = "list" =>
          /\ rq[c].err = "ok" /\ ~lst[c].failed => lst[c].always \subseteq Listed(c)
          /\ provider # "go" /\ lst[c].open = TRUE => rq[c].err \notin {"ENOENT", "ENOTDIR"}

(* Every node there was, or that a call has made, is in the tree or gone. *)
Accounted ==
    Ids(tree) \cup gone = Ids(InitTree) \cup
        {c \in Client : effects[c] > 0 /\ call[c].op \in {"create", "mkdir"}}

ClientInv(c) == CallInv(c) /\ ResultInv(c) /\ ListInv(c)

Inv ==
    /\ TypeInv
    /\ \A c \in Client : ClientInv(c)
    /\ Sound(tree)
    /\ Accounted

(* A client whose call, request and listing a step leaves alone, or of      *)
(* whose open directory it only changes what readdir owes.                  *)
LEMMA ClientKept ==
    ASSUME NEW d \in Client, ClientInv(d), provider' = provider,
           call'[d] = call[d], st'[d] = st[d], res'[d] = res[d], got'[d] = got[d],
           rq'[d] = rq[d], effects'[d] = effects[d],
           lst'[d].todo = lst[d].todo, lst'[d].seen = lst[d].seen,
           lst'[d].open = lst[d].open, lst'[d].failed = lst[d].failed,
           rq[d].pc # "list" => lst'[d].always = lst[d].always
    PROVE  ClientInv(d)'
<1>1. CallInv(d)'
  BY DEF ClientInv, CallInv, Changes, Done, CloseErrors
<1>2. ResultInv(d)'
  BY DEF ClientInv, ResultInv
<1>3. Listed(d)' = Listed(d)
  BY DEF Listed
<1>4. ListInv(d)'
  BY <1>3 DEF ClientInv, ListInv
<1> QED
  BY <1>1, <1>2, <1>4 DEF ClientInv

(* The reply changes the request of c only. *)
LEMMA RespondFacts ==
    ASSUME rq \in [Client -> Req], NEW c \in Client, NEW e \in Errno, Respond(c, e)
    PROVE  /\ rq' \in [Client -> Req]
           /\ rq'[c].pc = "reply" /\ rq'[c].err = e /\ Listed(c)' = Listed(c)
           /\ \A d \in Client : d # c => rq'[d] = rq[d]
<1>1. rq' = [rq EXCEPT ![c] = [rq[c] EXCEPT !.pc = "reply", !.err = e]]
  BY DEF Respond
<1>2. rq[c] \in Req
  OBVIOUS
<1> DEFINE n == [rq[c] EXCEPT !.pc = "reply", !.err = e]
<1>3. n \in Req /\ n.pc = "reply" /\ n.err = e /\ n.entries = rq[c].entries
  BY <1>2 DEF Req
<1>4. rq' = [rq EXCEPT ![c] = n]
  BY <1>1
<1> HIDE DEF n
<1>5. rq'[c] = n /\ (\A d \in Client : d # c => rq'[d] = rq[d]) /\ rq' \in [Client -> Req]
  BY <1>3, <1>4
<1>6. Listed(c)' = Listed(c)
  BY <1>3, <1>5 DEF Listed
<1> QED
  BY <1>3, <1>5, <1>6

(* What a new tree does to the open directories. *)
LEMMA SetTreeFacts ==
    ASSUME lst \in [Client -> Listing], NEW t, Sound(t), SetTree(t)
    PROVE  /\ tree' = t /\ lst' \in [Client -> Listing]
           /\ \A d \in Client :
                 /\ lst'[d].todo = lst[d].todo /\ lst'[d].seen = lst[d].seen
                 /\ lst'[d].open = lst[d].open /\ lst'[d].failed = lst[d].failed
                 /\ rq[d].pc # "list" => lst'[d] = lst[d]
<1>1. \A i : ChildNames(t, i) \subseteq Name
  <2> SUFFICES ASSUME NEW i, NEW q \in DOMAIN t, Len(q) > 0 PROVE q[Len(q)] \in Name
    BY DEF ChildNames
  <2>1. q \in Seq(Name)
    BY DEF Sound
  <2>2. Len(q) \in 1 .. Len(q)
    BY <2>1
  <2> QED
    BY <2>1, <2>2
<1>2. ASSUME NEW d \in Client
      PROVE  /\ lst'[d] \in Listing
             /\ lst'[d].todo = lst[d].todo /\ lst'[d].seen = lst[d].seen
             /\ lst'[d].open = lst[d].open /\ lst'[d].failed = lst[d].failed
             /\ rq[d].pc # "list" => lst'[d] = lst[d]
  <2>1. CASE rq[d].pc # "list"
    <3>1. lst'[d] = lst[d]
      BY <2>1 DEF SetTree
    <3> QED
      BY <3>1
  <2>2. CASE rq[d].pc = "list"
    <3> DEFINE l == lst[d]
               names == ChildNames(t, l.dir)
    <3>1. lst'[d] = [l EXCEPT !.always = @ \cap names, !.ever = @ \cup names]
      BY <2>2 DEF SetTree
    <3>2. l \in Listing /\ names \subseteq Name
      BY <1>1
    <3> HIDE DEF l, names
    <3> DEFINE k == [l EXCEPT !.always = @ \cap names, !.ever = @ \cup names]
    <3>a. /\ k.todo = l.todo /\ k.seen = l.seen /\ k.open = l.open /\ k.failed = l.failed
      BY <3>2 DEF Listing
    <3>b. k \in Listing
      BY <3>2 DEF Listing
    <3>3. /\ lst'[d] \in Listing /\ lst'[d].todo = l.todo /\ lst'[d].seen = l.seen
          /\ lst'[d].open = l.open /\ lst'[d].failed = l.failed
      BY <3>1, <3>a, <3>b
    <3> QED
      BY <2>2, <3>3 DEF l
  <2> QED
    BY <2>1, <2>2
<1>3. tree' = t /\ lst' = [d \in Client |-> lst'[d]]
  BY DEF SetTree
<1> QED
  BY <1>2, <1>3

(* A handler's system call, with the reply that follows it. *)
LEMMA ChangeStep ==
    ASSUME Inv, NEW c \in Client, NEW r, NEW e \in Errno,
           rq[c].pc \in {"sent", "times", "rename"}, Changes(call[c].op), Sound(r.tree),
           r.err = "ok" => Done(call[c].op, e), e = "ok" => r.err = "ok",
           Ids(r.tree) \cup r.gone = Ids(tree) \cup
              (IF r.err = "ok" /\ call[c].op \in {"create", "mkdir"} THEN {c} ELSE {}),
           Change(c, r, e)
    PROVE  Inv'
<1>1. TypeInv /\ ClientInv(c)
  BY DEF Inv
<1>2. /\ provider' = provider /\ call' = call /\ st' = st /\ res' = res /\ got' = got
      /\ SetTree(r.tree) /\ Respond(c, e) /\ gone' = gone \cup r.gone
      /\ effects' = [effects EXCEPT ![c] = IF r.err = "ok" THEN @ + 1 ELSE @]
  BY DEF Change
<1>3. /\ rq' \in [Client -> Req]
      /\ rq'[c].pc = "reply" /\ rq'[c].err = e /\ Listed(c)' = Listed(c)
      /\ \A d \in Client : d # c => rq'[d] = rq[d]
  BY <1>1, <1>2, RespondFacts DEF TypeInv
<1>4. /\ tree' = r.tree /\ lst' \in [Client -> Listing]
      /\ \A d \in Client :
            /\ lst'[d].todo = lst[d].todo /\ lst'[d].seen = lst[d].seen
            /\ lst'[d].open = lst[d].open /\ lst'[d].failed = lst[d].failed
            /\ rq[d].pc # "list" => lst'[d] = lst[d]
  BY <1>1, <1>2, SetTreeFacts DEF TypeInv
<1>5. effects[c] = 0
  BY <1>1 DEF ClientInv, CallInv
<1>6. /\ effects' \in [Client -> Nat] /\ effects'[c] = (IF r.err = "ok" THEN 1 ELSE 0)
      /\ \A d \in Client : d # c => effects'[d] = effects[d]
  BY <1>1, <1>2, <1>5 DEF TypeInv
<1>7. TypeInv'
  BY <1>1, <1>2, <1>3, <1>4, <1>6 DEF TypeInv
<1>8. ClientInv(c)'
  <2>1. CallInv(c)'
    <3>1. Changes(call[c].op)' /\ (Done(call[c].op, e)' <=> Done(call[c].op, e))
      BY <1>2 DEF Changes, Done, CloseErrors
    <3>2. /\ effects'[c] \in {0, 1}
          /\ effects'[c] = 1 => Done(call[c].op, rq[c].err)'
          /\ (rq[c].pc = "reply" /\ rq[c].err = "ok" /\ Changes(call[c].op))' => effects'[c] = 1
      BY <1>2, <1>3, <1>6, <3>1 DEF Done, CloseErrors
    <3> QED
      BY <1>1, <1>2, <1>3, <3>1, <3>2 DEF ClientInv, CallInv
  <2>2. ResultInv(c)'
    BY <1>1, <1>2, <1>3 DEF ClientInv, ResultInv
  <2>3. ListInv(c)'
    <3>1. call'[c].op # "list"
      BY <1>2 DEF Changes
    <3> QED
      BY <1>1, <1>2, <1>3, <1>4, <3>1 DEF ClientInv, ListInv
  <2> QED
    BY <2>1, <2>2, <2>3 DEF ClientInv
<1>9. ASSUME NEW d \in Client, d # c PROVE ClientInv(d)'
  <2>1. ClientInv(d)
    BY DEF Inv
  <2> QED
    BY <1>2, <1>3, <1>4, <1>6, <1>9, <2>1, ClientKept
<1>10. Accounted'
  <2> DEFINE made == {d \in Client : effects[d] > 0 /\ call[d].op \in {"create", "mkdir"}}
             new == IF r.err = "ok" /\ call[c].op \in {"create", "mkdir"} THEN {c} ELSE {}
  <2>1. Ids(tree)' = Ids(r.tree)
    BY <1>4 DEF Ids
  <2>2. {d \in Client : effects'[d] > 0 /\ call'[d].op \in {"create", "mkdir"}} = made \cup new
    BY <1>2, <1>5, <1>6
  <2>3. Ids(tree) \cup gone = Ids(InitTree) \cup made
    BY DEF Inv, Accounted
  <2>4. Ids(r.tree) \cup r.gone = Ids(tree) \cup new
    OBVIOUS
  <2>5. Ids(InitTree)' = Ids(InitTree)
    BY DEF Ids
  <2> HIDE DEF made, new
  <2>6. Ids(r.tree) \cup gone' = Ids(InitTree) \cup (made \cup new)
    BY <1>2, <2>3, <2>4
  <2> QED
    BY <2>1, <2>2, <2>5, <2>6 DEF Accounted
<1>11. Sound(tree)'
  BY <1>4
<1> QED
  BY <1>7, <1>8, <1>9, <1>10, <1>11 DEF Inv

(* A system call, and the reply that carries its errno. *)
LEMMA ApplyStep ==
    ASSUME Inv, NEW c \in Client, NEW r, rq[c].pc \in {"sent", "times", "rename"},
           Changes(call[c].op), r.err \in Errno, Sound(r.tree),
           Ids(r.tree) \cup r.gone = Ids(tree) \cup
              (IF r.err = "ok" /\ call[c].op \in {"create", "mkdir"} THEN {c} ELSE {}),
           Apply(c, r)
    PROVE  Inv'
BY ChangeStep DEF Apply, Done

(* A reply without a change of the tree. *)
LEMMA AnswerStep ==
    ASSUME Inv, NEW c \in Client, NEW e \in Errno, Answer(c, e),
           rq[c].pc \in {"sent", "times", "rename", "list"},
           Changes(call[c].op) => e # "ok",
           call[c].op = "list" =>
              /\ e = "ok" /\ ~lst[c].failed => lst[c].always \subseteq Listed(c)
              /\ provider # "go" /\ lst[c].open = TRUE => e \notin {"ENOENT", "ENOTDIR"}
    PROVE  Inv'
<1>1. TypeInv /\ ClientInv(c)
  BY DEF Inv
<1>2. /\ provider' = provider /\ call' = call /\ st' = st /\ res' = res /\ got' = got
      /\ tree' = tree /\ lst' = lst /\ gone' = gone /\ effects' = effects /\ Respond(c, e)
  BY DEF Answer
<1>3. /\ rq' \in [Client -> Req]
      /\ rq'[c].pc = "reply" /\ rq'[c].err = e /\ Listed(c)' = Listed(c)
      /\ \A d \in Client : d # c => rq'[d] = rq[d]
  BY <1>1, <1>2, RespondFacts DEF TypeInv
<1>4. TypeInv'
  BY <1>1, <1>2, <1>3 DEF TypeInv
<1>5. ClientInv(c)'
  <2>1. CallInv(c)'
    BY <1>1, <1>2, <1>3 DEF ClientInv, CallInv, Changes, Done, CloseErrors
  <2>2. ResultInv(c)'
    BY <1>1, <1>2, <1>3 DEF ClientInv, ResultInv
  <2>3. ListInv(c)'
    BY <1>1, <1>2, <1>3 DEF ClientInv, ListInv
  <2> QED
    BY <2>1, <2>2, <2>3 DEF ClientInv
<1>6. ASSUME NEW d \in Client, d # c PROVE ClientInv(d)'
  <2>1. ClientInv(d)
    BY DEF Inv
  <2> QED
    BY <1>2, <1>3, <1>6, <2>1, ClientKept
<1>7. Accounted' /\ Sound(tree)'
  BY <1>2 DEF Inv, Accounted, Ids, Sound
<1> QED
  BY <1>4, <1>5, <1>6, <1>7 DEF Inv

(* A step that leaves the tree and every client but c alone. *)
LEMMA ClientStep ==
    ASSUME Inv, NEW c \in Client, TypeInv', ClientInv(c)',
           provider' = provider, tree' = tree, gone' = gone, effects' = effects,
           call'[c] = call[c] \/ effects[c] = 0,
           \A d \in Client : d # c =>
              /\ call'[d] = call[d] /\ st'[d] = st[d] /\ res'[d] = res[d]
              /\ got'[d] = got[d] /\ rq'[d] = rq[d] /\ lst'[d] = lst[d]
    PROVE  Inv'
<1>1. ASSUME NEW d \in Client, d # c PROVE ClientInv(d)'
  <2>1. ClientInv(d)
    BY DEF Inv
  <2> QED
    BY <1>1, <2>1, ClientKept
<1>2. Sound(tree)'
  BY DEF Inv, Sound
<1>3. Accounted'
  <2>1. {d \in Client : effects[d] > 0 /\ call[d].op \in {"create", "mkdir"}}'
          = {d \in Client : effects[d] > 0 /\ call[d].op \in {"create", "mkdir"}}
    OBVIOUS
  <2>2. Ids(tree)' = Ids(tree) /\ Ids(InitTree)' = Ids(InitTree)
    BY DEF Ids
  <2> QED
    BY <2>1, <2>2 DEF Inv, Accounted
<1> QED
  BY <1>1, <1>2, <1>3 DEF Inv

(* What the assumptions say of a call under way. *)
LEMMA CallFacts ==
    ASSUME Inv, NEW c \in Client, rq[c].pc # "none"
    PROVE  /\ st[c] # "idle" /\ call[c] \in Program
           /\ call[c].path \in Seq(Name) /\ call[c].to \in Seq(Name)
           /\ call[c].atime \in Int /\ call[c].mtime \in Int
<1>1. ClientInv(c)
  BY DEF Inv
<1>2. st[c] # "idle" /\ call[c] \in Program
  BY <1>1 DEF ClientInv, CallInv
<1> QED
  BY <1>2, CallAssumption

LEMMA StartStep ==
    ASSUME Inv, NEW c \in Client, Start(c)
    PROVE  Inv'
<1>1. TypeInv /\ ClientInv(c)
  BY DEF Inv
<1>2. PICK k \in Program : call' = [call EXCEPT ![c] = k]
  BY DEF Start
<1>3. /\ st[c] = "idle" /\ st' = [st EXCEPT ![c] = "wait"]
      /\ rq' = [rq EXCEPT ![c] = [rq[c] EXCEPT !.pc = "sent"]]
      /\ UNCHANGED <<provider, tree, res, got, lst, effects, gone>>
  BY DEF Start
<1>4. effects[c] = 0 /\ rq[c].pc = "none"
  BY <1>1, <1>3 DEF ClientInv, CallInv
<1>5. rq[c] \in Req
  BY <1>1 DEF TypeInv
<1> DEFINE n == [rq[c] EXCEPT !.pc = "sent"]
<1>6. n \in Req /\ n.pc = "sent"
  BY <1>5 DEF Req
<1> HIDE DEF n
<1>7. /\ rq' \in [Client -> Req] /\ rq'[c] = n
      /\ \A d \in Client : d # c => rq'[d] = rq[d]
  BY <1>1, <1>3, <1>6 DEF TypeInv, n
<1>8. /\ call' \in [Client -> Program \cup {NoCall}] /\ call'[c] = k
      /\ st' \in [Client -> {"idle", "wait", "done"}] /\ st'[c] = "wait"
      /\ \A d \in Client : d # c => call'[d] = call[d] /\ st'[d] = st[d]
  BY <1>1, <1>2, <1>3 DEF TypeInv
<1>9. TypeInv'
  BY <1>1, <1>3, <1>7, <1>8 DEF TypeInv
<1>10. ClientInv(c)'
  <2>1. CallInv(c)'
    BY <1>3, <1>4, <1>6, <1>7, <1>8 DEF CallInv
  <2>2. ResultInv(c)'
    BY <1>8 DEF ResultInv
  <2>3. ListInv(c)'
    BY <1>1, <1>3, <1>4, <1>6, <1>7 DEF ClientInv, ListInv
  <2> QED
    BY <2>1, <2>2, <2>3 DEF ClientInv
<1> QED
  BY <1>3, <1>4, <1>7, <1>8, <1>9, <1>10, ClientStep

LEMMA RefusedStep ==
    ASSUME Inv, NEW c \in Client, Refused(c)
    PROVE  Inv'
<1>1. TypeInv /\ ClientInv(c)
  BY DEF Inv
<1>2. PICK k \in Program : /\ call' = [call EXCEPT ![c] = k]
                           /\ Return(c, IF k.op = "rename" THEN "EINVAL" ELSE "ENAMETOOLONG")
  BY DEF Refused
<1>3. /\ st[c] = "idle" /\ UNCHANGED <<provider, tree, got, rq, lst, effects, gone>>
  BY DEF Refused
<1>4. effects[c] = 0 /\ rq[c].pc = "none"
  BY <1>1, <1>3 DEF ClientInv, CallInv
<1>5. /\ call' \in [Client -> Program \cup {NoCall}] /\ call'[c] = k
      /\ st' \in [Client -> {"idle", "wait", "done"}] /\ st'[c] = "done"
      /\ res' \in [Client -> Errno] /\ res'[c] \in {"EINVAL", "ENAMETOOLONG"}
      /\ \A d \in Client : d # c => call'[d] = call[d] /\ st'[d] = st[d] /\ res'[d] = res[d]
  BY <1>1, <1>2 DEF TypeInv, Return, Errno
<1>6. TypeInv'
  BY <1>1, <1>3, <1>5 DEF TypeInv
<1>7. ClientInv(c)'
  <2>1. CallInv(c)'
    BY <1>3, <1>4, <1>5 DEF CallInv
  <2>2. ResultInv(c)'
    BY <1>3, <1>4, <1>5 DEF ResultInv
  <2>3. ListInv(c)'
    BY <1>1, <1>3, <1>4 DEF ClientInv, ListInv, Listed
  <2> QED
    BY <2>1, <2>2, <2>3 DEF ClientInv
<1> QED
  BY <1>3, <1>4, <1>5, <1>6, <1>7, ClientStep

(* A call returns: the result is EIO, or its handler's errno and, for a     *)
(* listing that succeeds, its handler's entries.                            *)
LEMMA ReturnStep ==
    ASSUME Inv, NEW c \in Client, NEW e \in Errno, st[c] = "wait", Return(c, e),
           UNCHANGED <<provider, tree, call, rq, lst, effects, gone>>,
           got' \in [Client -> SUBSET Entry],
           \A d \in Client : d # c => got'[d] = got[d],
           \/ e = "EIO"
           \/ /\ rq[c].pc = "reply" /\ e = rq[c].err
              /\ e = "ok" /\ call[c].op = "list" => got'[c] = rq[c].entries
    PROVE  Inv'
<1>1. TypeInv /\ ClientInv(c)
  BY DEF Inv
<1>2. /\ st' \in [Client -> {"idle", "wait", "done"}] /\ st'[c] = "done"
      /\ res' \in [Client -> Errno] /\ res'[c] = e
      /\ \A d \in Client : d # c => st'[d] = st[d] /\ res'[d] = res[d]
  BY <1>1 DEF TypeInv, Return
<1>3. TypeInv'
  BY <1>1, <1>2 DEF TypeInv
<1>4. ClientInv(c)'
  <2>1. CallInv(c)'
    BY <1>1, <1>2 DEF ClientInv, CallInv, Changes, Done, CloseErrors
  <2>2. ResultInv(c)'
    BY <1>2 DEF ResultInv
  <2>3. ListInv(c)'
    BY <1>1 DEF ClientInv, ListInv, Listed
  <2> QED
    BY <2>1, <2>2, <2>3 DEF ClientInv
<1> QED
  BY <1>2, <1>3, <1>4, ClientStep

LEMMA ReplySteps ==
    ASSUME Inv, NEW c \in Client,
           RequestFails(c) \/ ReplyPost(c) \/ ReplyMeta(c) \/ ReplyList(c)
    PROVE  Inv'
<1>1. TypeInv
  BY DEF Inv
<1>2. rq[c].err \in Errno /\ rq[c].entries \in SUBSET Entry /\ "EIO" \in Errno
  BY <1>1 DEF TypeInv, Req, Errno
<1>3. CASE RequestFails(c)
  BY <1>1, <1>2, <1>3, ReturnStep DEF RequestFails, TypeInv
<1>4. CASE ReplyPost(c)
  BY <1>1, <1>2, <1>4, ReturnStep DEF ReplyPost, TypeInv
<1>5. CASE ReplyMeta(c)
  BY <1>1, <1>2, <1>5, ReturnStep DEF ReplyMeta, TypeInv
<1>6. CASE ReplyList(c)
  <2> DEFINE long == rq[c].err = "ok" /\ Cardinality(rq[c].entries) > MaxListed
  <2>1. /\ st[c] = "wait" /\ rq[c].pc = "reply"
        /\ UNCHANGED <<provider, tree, call, rq, lst, effects, gone>>
        /\ IF long
             THEN Return(c, "EIO") /\ got' = got
             ELSE /\ Return(c, rq[c].err)
                  /\ got' = [got EXCEPT ![c] = IF rq[c].err = "ok" THEN rq[c].entries ELSE {}]
    BY <1>6 DEF ReplyList
  <2> HIDE DEF long
  <2>2. CASE long
    BY <1>1, <1>2, <2>1, <2>2, ReturnStep DEF TypeInv
  <2>3. CASE ~long
    <3>1. /\ got' \in [Client -> SUBSET Entry]
          /\ \A d \in Client : d # c => got'[d] = got[d]
          /\ rq[c].err = "ok" => got'[c] = rq[c].entries
      BY <1>1, <1>2, <2>1, <2>3 DEF TypeInv
    <3> QED
      BY <1>2, <2>1, <2>3, <3>1, ReturnStep
  <2> QED
    BY <2>2, <2>3
<1> QED
  BY <1>3, <1>4, <1>5, <1>6

(* The node a handler makes is new: its client has made none. *)
LEMMA MadeIsNew ==
    ASSUME Inv, NEW c \in Client, rq[c].pc = "sent"
    PROVE  c \notin Ids(tree)
<1>1. ClientInv(c) /\ Accounted
  BY DEF Inv
<1>2. effects[c] = 0
  BY <1>1 DEF ClientInv, CallInv
<1> QED
  BY <1>1, <1>2, TreeAssumption DEF Accounted

(* A node is made; the reply is the errno of that, or of closing it. *)
LEMMA CreateStep ==
    ASSUME Inv, NEW c \in Client, NEW k \in {"file", "dir"}, NEW e,
           rq[c].pc = "sent", call[c].op \in {"create", "mkdir"},
           Change(c, Make(call[c].path, c, k), e),
           \/ e = Make(call[c].path, c, k).err
           \/ /\ call[c].op = "create" /\ e \in CloseErrors
              /\ Make(call[c].path, c, k).err = "ok"
    PROVE  Inv'
<1>1. Sound(tree)
  BY DEF Inv
<1>2. c \notin Ids(tree)
  BY MadeIsNew
<1>3. call[c].path \in Seq(Name) /\ c \in Id
  BY CallFacts DEF Id
<1> DEFINE r == Make(call[c].path, c, k)
<1>4. /\ r.err \in Errno /\ Sound(r.tree) /\ r.gone = {}
      /\ Ids(r.tree) = Ids(tree) \cup (IF r.err = "ok" THEN {c} ELSE {})
  BY <1>1, <1>2, <1>3, MakeGood
<1>5. Changes(call[c].op)
  BY DEF Changes
<1>6. /\ Change(c, r, e)
      /\ \/ e = r.err
         \/ call[c].op = "create" /\ e \in CloseErrors /\ r.err = "ok"
  OBVIOUS
<1> HIDE DEF r
<1>7. Ids(r.tree) \cup r.gone = Ids(tree) \cup
         (IF r.err = "ok" /\ call[c].op \in {"create", "mkdir"} THEN {c} ELSE {})
  BY <1>4
<1>8. e \in CloseErrors => e \in Errno /\ e # "ok"
  BY DEF CloseErrors, Errno
<1>9. e \in Errno /\ (r.err = "ok" => Done(call[c].op, e)) /\ (e = "ok" => r.err = "ok")
  BY <1>4, <1>6, <1>8 DEF Done
<1> QED
  BY <1>4, <1>5, <1>6, <1>7, <1>9, ChangeStep

(* A handler that makes no node. *)
LEMMA GoodStep ==
    ASSUME Inv, NEW c \in Client, NEW r, Good(r), rq[c].pc \in {"sent", "times", "rename"},
           call[c].op \in {"unlink", "rmdir", "rename", "utimens"}, Apply(c, r)
    PROVE  Inv'
<1>1. Changes(call[c].op) /\ call[c].op \notin {"create", "mkdir"}
  BY DEF Changes
<1>2. r.err \in Errno /\ Sound(r.tree) /\ Ids(r.tree) \cup r.gone = Ids(tree)
  BY DEF Good
<1> QED
  BY <1>1, <1>2, ApplyStep

LEMMA GoRemoveGood ==
    ASSUME Sound(tree), NEW p \in Seq(Name)
    PROVE  Good(GoRemove(p))
BY UnlinkGood, RmdirGood DEF GoRemove

LEMMA RemoveSteps ==
    ASSUME Inv, NEW c \in Client,
           HandleRemoveFile(c) \/ HandleRemoveDir(c) \/ HandleRename(c)
    PROVE  Inv'
<1>1. Sound(tree) /\ ClientInv(c)
  BY DEF Inv
<1>2. rq[c].pc \in {"sent", "rename"}
  BY DEF HandleRemoveFile, HandleRemoveDir, HandleRename, RenameDue, Serve
<1>3. call[c].path \in Seq(Name) /\ call[c].to \in Seq(Name)
  BY <1>2, CallFacts
<1>4. /\ Good(GoRemove(call[c].path)) /\ Good(Unlink(call[c].path))
      /\ Good(Rmdir(call[c].path)) /\ Good(Rename(call[c].path, call[c].to))
  BY <1>1, <1>3, GoRemoveGood, UnlinkGood, RmdirGood, RenameGood
<1>5. CASE HandleRemoveFile(c)
  <2>1. PICK r : Good(r) /\ Apply(c, r) /\ call[c].op = "unlink"
    BY <1>4, <1>5 DEF HandleRemoveFile, Serve
  <2> QED
    BY <1>2, <2>1, GoodStep
<1>6. CASE HandleRemoveDir(c)
  <2>1. PICK r : Good(r) /\ Apply(c, r) /\ call[c].op = "rmdir"
    BY <1>4, <1>6 DEF HandleRemoveDir, Serve
  <2> QED
    BY <1>2, <2>1, GoodStep
<1>7. CASE HandleRename(c)
  <2>1. PICK r : Good(r) /\ Apply(c, r) /\ call[c].op = "rename"
    BY <1>1, <1>4, <1>7 DEF HandleRename, RenameDue, Serve, ClientInv, CallInv
  <2> QED
    BY <1>2, <2>1, GoodStep
<1> QED
  BY <1>5, <1>6, <1>7

LEMMA NewTimeInt ==
    ASSUME NEW old \in Int, NEW t \in Int
    PROVE  NewTime(old, t) \in Int
BY DEF NewTime, Now, UTIME_OMIT, UTIME_NOW

LEMMA UtimensSteps ==
    ASSUME Inv, NEW c \in Client,
           HandleUtimens(c) \/ StatForUtimens(c) \/ SetForUtimens(c)
    PROVE  Inv'
<1>1. TypeInv /\ Sound(tree) /\ ClientInv(c)
  BY DEF Inv
<1>2. rq[c].pc \in {"sent", "times"} /\ call[c].op = "utimens"
  BY <1>1 DEF HandleUtimens, StatForUtimens, SetForUtimens, Serve, ClientInv, CallInv
<1>3. call[c].path \in Seq(Name) /\ call[c].atime \in Int /\ call[c].mtime \in Int
  BY <1>2, CallFacts
<1> DEFINE k == call[c]
<1>4. Lstat(k.path) \in Errno /\ (Lstat(k.path) = "ok" => tree[k.path] \in Nodes)
  BY <1>1, LstatFacts DEF Errno, Sound
<1>5. CASE HandleUtimens(c)
  <2> DEFINE n == tree[k.path]
             r == IF Lstat(k.path) # "ok" THEN Fails(Lstat(k.path))
                  ELSE SetTimes(k.path, NewTime(n.atime, k.atime), NewTime(n.mtime, k.mtime))
  <2>1. Apply(c, r)
    BY <1>5 DEF HandleUtimens
  <2>2. CASE Lstat(k.path) # "ok"
    <3>1. Good(r)
      BY <1>1, <1>4, <2>2, FailsGood
    <3> QED
      BY <1>2, <2>1, <3>1, GoodStep
  <2>3. CASE Lstat(k.path) = "ok"
    <3>1. NewTime(n.atime, k.atime) \in Int /\ NewTime(n.mtime, k.mtime) \in Int
      BY <1>3, <1>4, <2>3, NewTimeInt DEF Nodes
    <3>2. Good(r)
      BY <1>1, <1>3, <2>3, <3>1, SetTimesGood
    <3> QED
      BY <1>2, <2>1, <3>2, GoodStep
  <2> QED
    BY <2>2, <2>3
<1>6. CASE SetForUtimens(c)
  <2> DEFINE n == rq[c].old
             r == SetTimes(k.path, NewTime(n.atime, k.atime), NewTime(n.mtime, k.mtime))
  <2>1. Apply(c, r)
    BY <1>6 DEF SetForUtimens
  <2>2. n \in Nodes
    BY <1>1 DEF TypeInv, Req
  <2>3. NewTime(n.atime, k.atime) \in Int /\ NewTime(n.mtime, k.mtime) \in Int
    BY <1>3, <2>2, NewTimeInt DEF Nodes
  <2>4. Good(r)
    BY <1>1, <1>3, <2>3, SetTimesGood
  <2> QED
    BY <1>2, <2>1, <2>4, GoodStep
<1>7. CASE StatForUtimens(c)
  <2>1. /\ rq[c].pc = "sent" /\ provider # "c"
        /\ UNCHANGED <<provider, tree, call, st, res, got, lst, effects, gone>>
    BY <1>7 DEF StatForUtimens, Serve
  <2>2. CASE Lstat(k.path) # "ok"
    <3>1. Answer(c, Lstat(k.path))
      BY <1>7, <2>2 DEF StatForUtimens, Answer
    <3> QED
      BY <1>2, <1>4, <2>1, <2>2, <3>1, AnswerStep
  <2>3. CASE Lstat(k.path) = "ok"
    <3> DEFINE n == [rq[c] EXCEPT !.pc = "times", !.old = tree[k.path]]
    <3>1. rq' = [rq EXCEPT ![c] = n]
      BY <1>7, <2>3 DEF StatForUtimens
    <3>2. rq[c] \in Req
      BY <1>1 DEF TypeInv
    <3>3. n \in Req /\ n.pc = "times"
      BY <1>4, <2>3, <3>2 DEF Req
    <3> HIDE DEF n
    <3>4. /\ rq' \in [Client -> Req] /\ rq'[c].pc = "times"
          /\ \A d \in Client : d # c => rq'[d] = rq[d]
      BY <1>1, <3>1, <3>3 DEF TypeInv
    <3>5. TypeInv'
      BY <1>1, <2>1, <3>4 DEF TypeInv
    <3>6. CallInv(c)'
      BY <1>1, <1>2, <2>1, <3>4 DEF ClientInv, CallInv
    <3>7. ResultInv(c)'
      BY <1>1, <2>1 DEF ClientInv, ResultInv
    <3>8. ListInv(c)'
      BY <1>1, <2>1, <3>4 DEF ClientInv, ListInv
    <3> QED
      BY <2>1, <3>4, <3>5, <3>6, <3>7, <3>8, ClientStep DEF ClientInv
  <2> QED
    BY <2>2, <2>3
<1> QED
  BY <1>5, <1>6, <1>7

(* The new name is no directory: the system call is next. *)
LEMMA LookStep ==
    ASSUME Inv, NEW c \in Client, GoLookAtNewName(c)
    PROVE  Inv'
<1>1. TypeInv /\ ClientInv(c)
  BY DEF Inv
<1>2. /\ rq[c].pc = "sent" /\ call[c].op = "rename"
      /\ UNCHANGED <<provider, tree, call, st, res, got, lst, effects, gone>>
  BY DEF GoLookAtNewName, Serve
<1> DEFINE e == IF Lstat(call[c].path) = "ok" THEN "EEXIST" ELSE Lstat(call[c].path)
<1>3. CASE IsDir(call[c].to)
  <2>1. Answer(c, e)
    BY <1>2, <1>3 DEF GoLookAtNewName, Answer
  <2>2. e \in Errno /\ e # "ok"
    BY LstatFacts DEF Errno
  <2> HIDE DEF e
  <2> QED
    BY <1>2, <2>1, <2>2, AnswerStep
<1>4. CASE ~IsDir(call[c].to)
  <2> DEFINE n == [rq[c] EXCEPT !.pc = "rename"]
  <2>1. rq' = [rq EXCEPT ![c] = n]
    BY <1>4 DEF GoLookAtNewName
  <2>2. rq[c] \in Req
    BY <1>1 DEF TypeInv
  <2>3. n \in Req /\ n.pc = "rename"
    BY <2>2 DEF Req
  <2> HIDE DEF n
  <2>4. /\ rq' \in [Client -> Req] /\ rq'[c].pc = "rename"
        /\ \A d \in Client : d # c => rq'[d] = rq[d]
    BY <1>1, <2>1, <2>3 DEF TypeInv
  <2>5. TypeInv'
    BY <1>1, <1>2, <2>4 DEF TypeInv
  <2>6. CallInv(c)'
    BY <1>1, <1>2, <2>4 DEF ClientInv, CallInv
  <2>7. ResultInv(c)'
    BY <1>1, <1>2 DEF ClientInv, ResultInv
  <2>8. ListInv(c)'
    BY <1>1, <1>2, <2>4 DEF ClientInv, ListInv
  <2> QED
    BY <1>2, <2>4, <2>5, <2>6, <2>7, <2>8, ClientStep DEF ClientInv
<1> QED
  BY <1>3, <1>4

(* The directory is opened: readdir owes what is there now. *)
LEMMA OpenDirStep ==
    ASSUME Inv, NEW c \in Client, OpenDir(c)
    PROVE  Inv'
<1>1. TypeInv /\ Sound(tree) /\ ClientInv(c)
  BY DEF Inv
<1>2. /\ rq[c].pc = "sent" /\ call[c].op = "list"
      /\ UNCHANGED <<provider, tree, call, st, res, got, effects, gone>>
  BY DEF OpenDir, Serve
<1> DEFINE p == call[c].path
           names == ChildNames(tree, tree[p].id)
           missing == Lstat(p) # "ok" \/ ~IsDir(p)
           e == IF Lstat(p) = "ok" THEN "ENOTDIR" ELSE Lstat(p)
<1>3. CASE missing
  <2>1. Answer(c, e)
    BY <1>2, <1>3 DEF OpenDir, Answer
  <2>2. e \in Errno /\ e # "ok"
    BY <1>3, LstatFacts DEF Errno
  <2>3. lst[c].open = FALSE
    BY <1>1, <1>2 DEF ClientInv, ListInv
  <2> HIDE DEF e
  <2> QED
    BY <1>2, <2>1, <2>2, <2>3, AnswerStep
<1>4. CASE ~missing
  <2> DEFINE n == [rq[c] EXCEPT !.pc = "list"]
             l == [dir |-> tree[p].id, open |-> TRUE, failed |-> FALSE,
                   always |-> names, ever |-> names, todo |-> {}, seen |-> {}]
  <2>1. rq' = [rq EXCEPT ![c] = n] /\ lst' = [lst EXCEPT ![c] = l]
    BY <1>4 DEF OpenDir
  <2>2. n \in Req /\ n.pc = "list" /\ n.entries = rq[c].entries
    <3>1. rq[c] \in Req
      BY <1>1 DEF TypeInv
    <3> QED
      BY <3>1 DEF Req
  <2>3. l \in Listing
    <3>1. names \subseteq Name
      <4> SUFFICES ASSUME NEW q \in DOMAIN tree, Len(q) > 0 PROVE q[Len(q)] \in Name
        BY DEF ChildNames
      <4>1. q \in Seq(Name)
        BY <1>1 DEF Sound
      <4>2. Len(q) \in 1 .. Len(q)
        BY <4>1
      <4> QED
        BY <4>1, <4>2
    <3>2. tree[p].id \in Id
      BY <1>1, <1>4, LstatFacts DEF Sound, Nodes
    <3> HIDE DEF names
    <3> QED
      BY <3>1, <3>2 DEF Listing
  <2>4. l.todo = {} /\ l.seen = {}
    OBVIOUS
  <2> HIDE DEF n, l
  <2>5. /\ rq' \in [Client -> Req] /\ rq'[c] = n /\ lst' \in [Client -> Listing] /\ lst'[c] = l
        /\ \A d \in Client : d # c => rq'[d] = rq[d] /\ lst'[d] = lst[d]
    BY <1>1, <2>1, <2>2, <2>3 DEF TypeInv
  <2>6. TypeInv'
    BY <1>1, <1>2, <2>5 DEF TypeInv
  <2>7. CallInv(c)'
    BY <1>1, <1>2, <2>2, <2>5 DEF ClientInv, CallInv
  <2>8. ResultInv(c)'
    BY <1>1, <1>2 DEF ClientInv, ResultInv
  <2>9. ListInv(c)'
    BY <1>2, <2>2, <2>4, <2>5 DEF ListInv
  <2> QED
    BY <1>2, <2>5, <2>6, <2>7, <2>8, <2>9, ClientStep DEF ClientInv
<1> QED
  BY <1>3, <1>4

(* Names are read: they are seen, and still to do. *)
LEMMA ReadStep ==
    ASSUME Inv, NEW c \in Client, ReadEntry(c) \/ ReadNames(c)
    PROVE  Inv'
<1>1. TypeInv /\ ClientInv(c)
  BY DEF Inv
<1>2. lst[c] \in Listing
  BY <1>1 DEF TypeInv
<1>3. /\ rq[c].pc = "list" /\ lst[c].todo = {}
      /\ UNCHANGED <<provider, tree, call, st, res, got, rq, effects, gone>>
  BY DEF ReadEntry, ReadNames
<1>4. PICK s \in SUBSET lst[c].ever :
         lst' = [lst EXCEPT ![c] = [lst[c] EXCEPT !.todo = s, !.seen = lst[c].seen \cup s]]
  <2>1. CASE ReadEntry(c)
    <3>1. PICK n \in lst[c].ever \ lst[c].seen :
             lst' = [lst EXCEPT ![c].todo = {n}, ![c].seen = @ \cup {n}]
      BY <2>1 DEF ReadEntry
    <3>2. {n} \in SUBSET lst[c].ever
      OBVIOUS
    <3>3. lst' = [lst EXCEPT ![c] = [lst[c] EXCEPT !.todo = {n}, !.seen = lst[c].seen \cup {n}]]
      BY <1>1, <1>2, <3>1 DEF TypeInv, Listing
    <3> QED
      BY <3>2, <3>3
  <2>2. CASE ReadNames(c)
    <3>1. PICK names \in SUBSET lst[c].ever :
             lst' = [lst EXCEPT ![c].todo = names, ![c].seen = names]
      BY <2>2 DEF ReadNames
    <3>2. names = lst[c].seen \cup names
      BY <2>2 DEF ReadNames
    <3>3. lst' = [lst EXCEPT ![c] = [lst[c] EXCEPT !.todo = names, !.seen = names]]
      BY <1>1, <1>2, <3>1 DEF TypeInv, Listing
    <3> QED
      BY <3>2, <3>3
  <2> QED
    BY <2>1, <2>2
<1> DEFINE l == [lst[c] EXCEPT !.todo = s, !.seen = lst[c].seen \cup s]
<1>5. l \in Listing /\ l.todo = s /\ l.seen = lst[c].seen \cup s
  BY <1>2, <1>4 DEF Listing
<1> HIDE DEF l
<1>6. /\ lst' \in [Client -> Listing] /\ lst'[c] = l
      /\ \A d \in Client : d # c => lst'[d] = lst[d]
  BY <1>1, <1>4, <1>5 DEF TypeInv, l
<1>7. TypeInv'
  BY <1>1, <1>3, <1>6 DEF TypeInv
<1>8. CallInv(c)' /\ ResultInv(c)'
  BY <1>1, <1>3 DEF ClientInv, CallInv, ResultInv, Changes
<1>9. ListInv(c)'
  <2>1. Listed(c)' = Listed(c)
    BY <1>3 DEF Listed
  <2> QED
    BY <1>1, <1>3, <1>5, <1>6, <2>1 DEF ClientInv, ListInv
<1> QED
  BY <1>3, <1>6, <1>7, <1>8, <1>9, ClientStep DEF ClientInv

(* An entry is put into the answer: its name is no longer to do. *)
LEMMA AddEntryStep ==
    ASSUME Inv, NEW c \in Client, rq[c].pc = "list", NEW n \in lst[c].todo, AddEntry(c, n)
    PROVE  Inv'
<1>1. TypeInv /\ ClientInv(c)
  BY DEF Inv
<1>2. lst[c] \in Listing /\ rq[c] \in Req /\ n \in Name
  BY <1>1 DEF TypeInv, Listing
<1>3. UNCHANGED <<provider, tree, call, st, res, got, effects, gone>>
  BY DEF AddEntry
<1> DEFINE e == <<n, EntryType(Append(call[c].path, n))>>
           q == [rq[c] EXCEPT !.entries = @ \cup {e}]
           l == [lst[c] EXCEPT !.todo = @ \ {n}]
<1>4. rq' = [rq EXCEPT ![c] = q] /\ lst' = [lst EXCEPT ![c] = l]
  BY DEF AddEntry
<1>5. e \in Entry /\ e[1] = n
  BY <1>2 DEF Entry, EntryType
<1> HIDE DEF e
<1>6. q \in Req /\ q.pc = "list" /\ q.err = rq[c].err /\ q.entries = rq[c].entries \cup {e}
  BY <1>2, <1>5 DEF Req
<1>7. l \in Listing /\ l.todo = lst[c].todo \ {n} /\ l.seen = lst[c].seen
  BY <1>2 DEF Listing
<1> HIDE DEF q, l
<1>8. /\ rq' \in [Client -> Req] /\ rq'[c] = q /\ lst' \in [Client -> Listing] /\ lst'[c] = l
      /\ \A d \in Client : d # c => rq'[d] = rq[d] /\ lst'[d] = lst[d]
  BY <1>1, <1>4, <1>6, <1>7 DEF TypeInv
<1>9. TypeInv'
  BY <1>1, <1>3, <1>8 DEF TypeInv
<1>10. CallInv(c)'
  BY <1>1, <1>3, <1>6, <1>8 DEF ClientInv, CallInv
<1>11. ResultInv(c)'
  BY <1>1, <1>3 DEF ClientInv, ResultInv
<1>12. ListInv(c)'
  <2>1. Listed(c)' = Listed(c) \cup {n}
    BY <1>5, <1>6, <1>8 DEF Listed
  <2> QED
    BY <1>1, <1>3, <1>6, <1>7, <1>8, <2>1 DEF ClientInv, ListInv
<1> QED
  BY <1>3, <1>8, <1>9, <1>10, <1>11, <1>12, ClientStep DEF ClientInv

(* readdir fails, and what was read is the answer. *)
LEMMA ReaddirFailsStep ==
    ASSUME Inv, NEW c \in Client, ReaddirFails(c)
    PROVE  Inv'
<1>1. TypeInv /\ ClientInv(c)
  BY DEF Inv
<1>2. /\ rq[c].pc = "list" /\ Respond(c, "ok")
      /\ lst' = [lst EXCEPT ![c].failed = TRUE]
      /\ UNCHANGED <<provider, tree, call, st, res, got, effects, gone>>
  BY DEF ReaddirFails
<1>3. call[c].op = "list" /\ "ok" \in Errno
  BY <1>1, <1>2 DEF ClientInv, ListInv, Errno
<1>4. /\ rq' \in [Client -> Req]
      /\ rq'[c].pc = "reply" /\ rq'[c].err = "ok" /\ Listed(c)' = Listed(c)
      /\ \A d \in Client : d # c => rq'[d] = rq[d]
  BY <1>1, <1>2, <1>3, RespondFacts DEF TypeInv
<1> DEFINE l == [lst[c] EXCEPT !.failed = TRUE]
<1>5. lst[c] \in Listing
  BY <1>1 DEF TypeInv
<1>6. l \in Listing /\ l.failed = TRUE /\ l.todo = lst[c].todo /\ l.seen = lst[c].seen
  BY <1>5 DEF Listing
<1>7. lst' = [lst EXCEPT ![c] = l]
  BY <1>2
<1> HIDE DEF l
<1>8. /\ lst' \in [Client -> Listing] /\ lst'[c] = l
      /\ \A d \in Client : d # c => lst'[d] = lst[d]
  BY <1>1, <1>6, <1>7 DEF TypeInv
<1>9. TypeInv'
  BY <1>1, <1>2, <1>4, <1>8 DEF TypeInv
<1>10. CallInv(c)'
  BY <1>1, <1>2, <1>3, <1>4 DEF ClientInv, CallInv, Changes
<1>11. ResultInv(c)'
  BY <1>1, <1>2, <1>4 DEF ClientInv, ResultInv
<1>12. ListInv(c)'
  BY <1>1, <1>4, <1>6, <1>8 DEF ClientInv, ListInv
<1> QED
  BY <1>2, <1>4, <1>8, <1>9, <1>10, <1>11, <1>12, ClientStep DEF ClientInv

LEMMA ListSteps ==
    ASSUME Inv, NEW c \in Client,
           HandleMeta(c) \/ StatEntry(c) \/ GoStatEntry(c) \/ EndList(c) \/ HandlerFails(c)
    PROVE  Inv'
<1>1. ClientInv(c)
  BY DEF Inv
<1>2. CASE HandleMeta(c)
  <2>1. Lstat(call[c].path) \in Errno
    BY LstatFacts DEF Errno
  <2> QED
    BY <1>2, <2>1, AnswerStep DEF HandleMeta, Serve, Changes
<1>3. CASE StatEntry(c)
  BY <1>3, AddEntryStep DEF StatEntry
<1>4. CASE GoStatEntry(c)
  <2>1. PICK n \in lst[c].todo :
           LET e == Lstat(Append(call[c].path, n)) IN
           IF e = "ok" THEN AddEntry(c, n) ELSE Answer(c, e)
    BY <1>4 DEF GoStatEntry
  <2>2. provider = "go" /\ rq[c].pc = "list"
    BY <1>4 DEF GoStatEntry
  <2> DEFINE e == Lstat(Append(call[c].path, n))
  <2>3. e \in Errno
    BY LstatFacts DEF Errno
  <2>4. CASE e = "ok"
    BY <2>1, <2>2, <2>4, AddEntryStep
  <2>5. CASE e # "ok"
    <3>1. Answer(c, e)
      BY <2>1, <2>5
    <3> HIDE DEF e
    <3> QED
      BY <2>2, <2>3, <2>5, <3>1, AnswerStep
  <2> QED
    BY <2>4, <2>5
<1>5. CASE EndList(c)
  <2>1. /\ rq[c].pc = "list" /\ lst[c].todo = {} /\ lst[c].always \subseteq lst[c].seen
        /\ Answer(c, "ok")
    BY <1>5 DEF EndList
  <2>2. call[c].op = "list" /\ lst[c].always \subseteq Listed(c)
    BY <1>1, <2>1 DEF ClientInv, ListInv
  <2>3. "ok" \in Errno /\ ~Changes(call[c].op)
    BY <2>2 DEF Errno, Changes
  <2> QED
    BY <2>1, <2>2, <2>3, AnswerStep
<1>6. CASE HandlerFails(c)
  <2>1. "EACCES" \in Errno
    BY DEF Errno
  <2> QED
    BY <1>6, <2>1, AnswerStep DEF HandlerFails
<1> QED
  BY <1>2, <1>3, <1>4, <1>5, <1>6

(* The invariant holds to begin with... *)
LEMMA InvInit ==
    Init => Inv
<1> SUFFICES ASSUME Init PROVE Inv
  OBVIOUS
<1>1. NoReq \in Req /\ NoReq.pc = "none"
  BY DEF NoReq, Req, Errno, Node, Nodes, Id
<1>2. NoList \in Listing /\ NoList.todo = {} /\ NoList.seen = {} /\ NoList.open = FALSE
  BY DEF NoList, Listing, Id
<1>3. TypeInv
  BY <1>1, <1>2 DEF Init, TypeInv, Errno
<1>4. ASSUME NEW c \in Client PROVE ClientInv(c)
  <2>1. /\ call[c] = NoCall /\ st[c] = "idle" /\ rq[c] = NoReq /\ lst[c] = NoList
        /\ effects[c] = 0
    BY <1>4 DEF Init
  <2>2. CallInv(c)
    BY <1>1, <2>1 DEF CallInv
  <2>3. ResultInv(c)
    BY <2>1 DEF ResultInv
  <2>4. ListInv(c)
    BY <1>1, <1>2, <2>1 DEF ListInv
  <2> QED
    BY <2>2, <2>3, <2>4 DEF ClientInv
<1>5. Sound(tree)
  BY TreeAssumption DEF Init, Sound
<1>6. Accounted
  BY DEF Init, Accounted
<1> QED
  BY <1>3, <1>4, <1>5, <1>6 DEF Inv

(* ...and every step keeps it. *)
LEMMA InvNext ==
    Inv /\ [Next]_vars => Inv'
<1> SUFFICES ASSUME Inv, [Next]_vars PROVE Inv'
  OBVIOUS
<1>1. CASE UNCHANGED vars
  <2>1. UNCHANGED <<provider, tree, call, st, res, got, rq, lst, effects, gone>>
    BY <1>1 DEF vars
  <2>2. TypeInv'
    BY <2>1 DEF Inv, TypeInv
  <2>3. ASSUME NEW c \in Client PROVE ClientInv(c)'
    BY <2>1, ClientKept DEF Inv
  <2>4. Sound(tree)' /\ Accounted'
    BY <2>1 DEF Inv, Sound, Accounted, Ids
  <2> QED
    BY <2>2, <2>3, <2>4 DEF Inv
<1>2. ASSUME NEW c \in Client, Handler(c) PROVE Inv'
  <2>1. CASE HandleCreateFile(c)
    BY <2>1, CreateStep DEF HandleCreateFile, Apply, Serve
  <2>2. CASE HandleCreateDir(c)
    BY <2>2, CreateStep DEF HandleCreateDir, Apply, Serve
  <2> QED
    BY <1>2, <2>1, <2>2, RemoveSteps, UtimensSteps, LookStep, OpenDirStep, ReadStep, ListSteps,
       ReaddirFailsStep DEF Handler
<1>3. ASSUME NEW c \in Client,
             Start(c) \/ Refused(c) \/ RequestFails(c) \/ ReplyPost(c) \/ ReplyMeta(c) \/ ReplyList(c)
      PROVE  Inv'
  BY <1>3, StartStep, RefusedStep, ReplySteps
<1>4. CASE Finished
  BY <1>1, <1>4 DEF Finished
<1> QED
  BY <1>1, <1>2, <1>3, <1>4 DEF Next

LEMMA InvAlways ==
    Spec => []Inv
BY InvInit, InvNext, PTL DEF Spec

-----------------------------------------------------------------------------
(* The theorems *)

(* A call of the FUSE layer only ever returns a POSIX errno, whatever the   *)
(* handlers, the network and the other clients do, and no handler looks at  *)
(* a directory entry it has not read.                                       *)
THEOREM TypeCorrect ==
    Spec => []TypeOK
<1>1. Inv => TypeOK
  <2> SUFFICES ASSUME Inv PROVE TypeOK
    OBVIOUS
  <2>1. TypeInv /\ Sound(tree) /\ \A c \in Client : ClientInv(c)
    BY DEF Inv
  <2>2. ASSUME NEW c \in Client PROVE call[c] \in IF st[c] = "idle" THEN {NoCall} ELSE Program
    BY <2>1 DEF ClientInv, CallInv
  <2>3. ASSUME NEW c \in Client
        PROVE  /\ rq[c].pc \in {"none", "sent", "list", "times", "rename", "reply"}
               /\ rq[c].err \in Errno
               /\ lst[c].todo \subseteq lst[c].seen
    <3>1. rq[c] \in Req
      BY <2>1 DEF TypeInv
    <3>2. lst[c].todo \subseteq lst[c].seen
      BY <2>1 DEF ClientInv, ListInv
    <3> QED
      BY <3>1, <3>2 DEF Req
  <2>4. \A p \in DOMAIN tree : tree[p].kind \in {"file", "dir"}
    BY <2>1 DEF Sound, Nodes
  <2> QED
    BY <2>1, <2>2, <2>3, <2>4 DEF TypeOK, TypeInv
<1> QED
  BY <1>1, InvAlways, PTL

(* Whatever order the handlers of concurrent clients run in, the tree stays *)
(* one: no orphan, no node with two names, none lost but by a removal or a  *)
(* replacing rename.                                                        *)
THEOREM TreeCorrect ==
    Spec => []TreeSound
<1>1. Inv => TreeSound
  BY DEF Inv, Sound, Accounted, TreeSound, IsDir, Exists
<1> QED
  BY <1>1, InvAlways, PTL

(* An operation takes effect at most once, a call that returns ok has taken *)
(* effect, and one that returns an errno other than EIO has not - but for   *)
(* what the Go and Python providers report of closing a created file.       *)
THEOREM ResultCorrect ==
    Spec => []ResultHonest
<1>1. Inv => ResultHonest
  <2> SUFFICES ASSUME Inv, NEW c \in Client
               PROVE  /\ effects[c] <= 1
                      /\ st[c] = "done" /\ call[c].op \notin {"meta", "list"} =>
                            /\ res[c] = "ok" => effects[c] = 1
                            /\ res[c] \notin {"ok", "EIO"} =>
                                  \/ effects[c] = 0
                                  \/ call[c].op = "create" /\ res[c] \in CloseErrors
    BY DEF ResultHonest
  <2>1. CallInv(c) /\ ResultInv(c)
    BY DEF Inv, ClientInv
  <2>2. effects[c] \in {0, 1}
    BY <2>1 DEF CallInv
  <2>3. ASSUME st[c] = "done", call[c].op \notin {"meta", "list"}
        PROVE  res[c] = "ok" => effects[c] = 1
    BY <2>1, <2>3 DEF CallInv, ResultInv, Changes
  <2>4. ASSUME st[c] = "done", res[c] \notin {"ok", "EIO"}, effects[c] # 0
        PROVE  call[c].op = "create" /\ res[c] \in CloseErrors
    <3>1. rq[c].pc = "reply" /\ Done(call[c].op, rq[c].err)
      BY <2>1, <2>2, <2>4 DEF CallInv
    <3>2. res[c] = rq[c].err
      BY <2>1, <2>4, <3>1 DEF ResultInv
    <3> QED
      BY <2>4, <3>1, <3>2 DEF Done
  <2> QED
    BY <2>2, <2>3, <2>4
<1> QED
  BY <1>1, InvAlways, PTL

(* Two clients that create the same path are not both told they did: each   *)
(* acknowledged creation made a node of its own.                            *)
THEOREM CreateCorrect ==
    Spec => []CreateExclusive
<1>1. TreeSound /\ ResultHonest => CreateExclusive
  <2> SUFFICES ASSUME TreeSound, ResultHonest, NEW c \in Client, st[c] = "done", res[c] = "ok",
                      call[c].op \in {"create", "mkdir"}
               PROVE  c \in Ids(tree) \cup gone
    BY DEF CreateExclusive
  <2>1. effects[c] = 1
    BY DEF ResultHonest
  <2> QED
    BY <2>1 DEF TreeSound
<1> QED
  BY <1>1, TreeCorrect, ResultCorrect, PTL

(* A listing that succeeds shows every entry that was there all the time,   *)
(* also when the directory is renamed or replaced while it is read, unless  *)
(* the C provider has taken an error of readdir for the end of it.          *)
THEOREM ListingCorrect ==
    Spec => []ListComplete
<1>1. Inv => ListComplete
  <2> SUFFICES ASSUME Inv, NEW c \in Client, st[c] = "done", res[c] = "ok",
                      call[c].op = "list", ~lst[c].failed, NEW n \in lst[c].always
               PROVE  \E e \in got[c] : e[1] = n
    BY DEF ListComplete
  <2>1. ResultInv(c) /\ ListInv(c)
    BY DEF Inv, ClientInv
  <2>2. rq[c].pc = "reply" /\ rq[c].err = "ok" /\ got[c] = rq[c].entries
    BY <2>1 DEF ResultInv
  <2>3. n \in Listed(c)
    BY <2>1, <2>2 DEF ListInv
  <2> QED
    BY <2>2, <2>3 DEF Listed
<1> QED
  BY <1>1, InvAlways, PTL

(* The C and Python providers do not fail the listing of a directory they   *)
(* have opened because of what happens to its entries.                      *)
THEOREM ListingErrnoCorrect ==
    Spec => []ListFailsOnlyIfMissing
<1>1. Inv => ListFailsOnlyIfMissing
  <2> SUFFICES ASSUME Inv, NEW c \in Client, provider # "go", st[c] = "done",
                      call[c].op = "list", lst[c].open
               PROVE  res[c] \notin {"ENOENT", "ENOTDIR"}
    BY DEF ListFailsOnlyIfMissing
  <2>1. ResultInv(c) /\ ListInv(c)
    BY DEF Inv, ClientInv
  <2>2. lst[c].open = TRUE
    <3>1. lst[c] \in Listing
      BY DEF Inv, TypeInv
    <3>2. lst[c].open \in BOOLEAN
      BY <3>1 DEF Listing
    <3> QED
      BY <3>2
  <2>3. CASE rq[c].pc = "reply" /\ res[c] = rq[c].err
    BY <2>1, <2>2, <2>3 DEF ListInv
  <2>4. CASE res[c] = "EIO"
    BY <2>4
  <2>5. CASE rq[c].pc = "none" /\ res[c] \in {"EINVAL", "ENAMETOOLONG"}
    BY <2>5
  <2> QED
    BY <2>1, <2>3, <2>4, <2>5 DEF ResultInv
<1> QED
  BY <1>1, InvAlways, PTL

(* Replies, reads and what the client does leave the tree alone. *)
LEMMA OthersChangeNothing ==
    ASSUME NEW d \in Client,
           Start(d) \/ Refused(d) \/ RequestFails(d) \/ ReplyPost(d) \/ ReplyMeta(d)
              \/ ReplyList(d) \/ HandleMeta(d) \/ StatForUtimens(d) \/ GoLookAtNewName(d)
              \/ OpenDir(d) \/ ReadEntry(d) \/ ReadNames(d) \/ StatEntry(d)
              \/ GoStatEntry(d) \/ EndList(d) \/ ReaddirFails(d) \/ HandlerFails(d)
    PROVE  tree' = tree
BY DEF Start, Refused, RequestFails, ReplyPost, ReplyMeta, ReplyList, HandleMeta,
       StatForUtimens, GoLookAtNewName, OpenDir, ReadEntry, ReadNames, StatEntry,
       GoStatEntry, EndList, ReaddirFails, HandlerFails, Answer, AddEntry

(* A step that changes the tree is the system call of one client's handler, *)
(* which then replies.                                                      *)
LEMMA TreeChanges ==
    ASSUME Inv, [Next]_vars, tree' # tree
    PROVE  \E d \in Client :
              /\ \/ HandleCreateFile(d) \/ HandleCreateDir(d) \/ HandleRemoveFile(d)
                 \/ HandleRemoveDir(d) \/ HandleRename(d) \/ HandleUtimens(d) \/ SetForUtimens(d)
              /\ rq[d].pc # "reply" /\ rq'[d].pc = "reply"
              /\ \A c \in Client : c # d => rq'[c] = rq[c]
<1>1. ~(UNCHANGED vars) /\ ~Finished
  BY DEF vars, Finished
<1>2. PICK d \in Client :
         Start(d) \/ Refused(d) \/ RequestFails(d) \/ Handler(d)
         \/ ReplyPost(d) \/ ReplyMeta(d) \/ ReplyList(d)
  BY <1>1 DEF Next
<1>3. \/ HandleCreateFile(d) \/ HandleCreateDir(d) \/ HandleRemoveFile(d)
      \/ HandleRemoveDir(d) \/ HandleRename(d) \/ HandleUtimens(d) \/ SetForUtimens(d)
  BY <1>2, OthersChangeNothing DEF Handler
<1>4. PICK r, e : Change(d, r, e)
  BY <1>3 DEF HandleCreateFile, HandleCreateDir, HandleRemoveFile, HandleRemoveDir,
              HandleRename, HandleUtimens, SetForUtimens, Apply
<1>5. rq[d].pc # "reply"
  BY <1>3 DEF HandleCreateFile, HandleCreateDir, HandleRemoveFile, HandleRemoveDir,
              HandleRename, RenameDue, HandleUtimens, SetForUtimens, Serve
<1>6. rq' = [rq EXCEPT ![d].pc = "reply", ![d].err = e] /\ rq \in [Client -> Req]
  BY <1>4 DEF Change, Respond, Inv, TypeInv
<1>7. rq'[d].pc = "reply" /\ \A c \in Client : c # d => rq'[c] = rq[c]
  BY <1>6 DEF Req
<1> QED
  BY <1>3, <1>5, <1>7

(* The step that completes a remove-file removes no directory, and the one  *)
(* that completes a remove-dir no file, unless the provider is the Go one.  *)
LEMMA KindStep ==
    ASSUME Inv, [Next]_vars
    PROVE  RemovesItsKind
<1> SUFFICES ASSUME NEW c \in Client, NEW p \in DOMAIN tree \ DOMAIN tree',
                    provider # "go", call[c].op \in {"unlink", "rmdir"},
                    rq[c].pc # "reply", rq'[c].pc = "reply"
             PROVE  tree[p].kind = IF call[c].op = "unlink" THEN "file" ELSE "dir"
  BY DEF RemovesItsKind, RequestDone
<1>1. tree' # tree
  OBVIOUS
<1>2. PICK d \in Client :
         /\ \/ HandleCreateFile(d) \/ HandleCreateDir(d) \/ HandleRemoveFile(d)
            \/ HandleRemoveDir(d) \/ HandleRename(d) \/ HandleUtimens(d) \/ SetForUtimens(d)
         /\ \A b \in Client : b # d => rq'[b] = rq[b]
  BY <1>1, TreeChanges
<1>3. d = c
  BY <1>2
<1>4. CallInv(c) /\ Sound(tree)
  BY DEF Inv, ClientInv
<1>5. \/ HandleRemoveFile(c) /\ call[c].op = "unlink"
      \/ HandleRemoveDir(c) /\ call[c].op = "rmdir"
  BY <1>2, <1>3, <1>4 DEF HandleCreateFile, HandleCreateDir, HandleRemoveFile,
        HandleRemoveDir, HandleRename, RenameDue, HandleUtimens, SetForUtimens, Serve, CallInv
<1> DEFINE x == call[c].path
<1>6. CASE HandleRemoveFile(c) /\ call[c].op = "unlink"
  <2>1. tree' = Unlink(x).tree
    BY <1>6 DEF HandleRemoveFile, Apply, Change, SetTree
  <2>2. Lstat(x) = "ok" /\ ~IsDir(x)
    BY <1>1, <2>1 DEF Unlink, Fails
  <2>3. tree' = Without(x)
    BY <2>1, <2>2 DEF Unlink, Leaves
  <2>4. p = x
    BY <2>3 DEF Without
  <2>5. tree[p].kind = "file"
    BY <1>4, <2>2, <2>4 DEF IsDir, Exists, Sound, Nodes
  <2> QED
    BY <1>6, <2>5
<1>7. CASE HandleRemoveDir(c) /\ call[c].op = "rmdir"
  <2>1. tree' = Rmdir(x).tree
    BY <1>7 DEF HandleRemoveDir, Apply, Change, SetTree
  <2>2. Lstat(x) = "ok" /\ IsDir(x) /\ Under(x) = {}
    BY <1>1, <2>1 DEF Rmdir, Fails
  <2>3. tree' = Without(x)
    BY <2>1, <2>2 DEF Rmdir, Leaves
  <2>4. p = x
    BY <2>3 DEF Without
  <2>5. tree[p].kind = "dir"
    BY <2>2, <2>4 DEF IsDir
  <2> QED
    BY <1>7, <2>5
<1> QED
  BY <1>5, <1>6, <1>7

(* What is at a path of t and was in the tree before is the same node, with *)
(* the same times.                                                          *)
KeepsNodes(t) ==
    \A q \in DOMAIN t : t[q].id \in Ids(tree) => \E s \in DOMAIN tree : t[q] = tree[s]

LEMMA MakeKeepsNodes ==
    ASSUME NEW p, NEW i, i \notin Ids(tree), NEW k
    PROVE  KeepsNodes(Make(p, i, k).tree)
<1>1. KeepsNodes(tree)
  BY DEF KeepsNodes
<1>2. KeepsNodes(With(p, Node(i, k)))
  BY DEF KeepsNodes, With, Node
<1> QED
  BY <1>1, <1>2 DEF Make, Fails, Leaves

LEMMA RemoveKeepsNodes ==
    ASSUME NEW p
    PROVE  KeepsNodes(Unlink(p).tree) /\ KeepsNodes(Rmdir(p).tree)
<1>1. KeepsNodes(tree) /\ KeepsNodes(Without(p))
  BY DEF KeepsNodes, Without
<1> QED
  BY <1>1 DEF Unlink, Rmdir, Fails, Leaves

LEMMA RenameKeepsNodes ==
    ASSUME Sound(tree), NEW p \in Seq(Name), NEW q \in Seq(Name)
    PROVE  KeepsNodes(Rename(p, q).tree)
<1>1. KeepsNodes(tree)
  BY DEF KeepsNodes
<1>2. ASSUME Lstat(p) = "ok", p # q, ~Above(p, q), ~Above(q, p), Under(q) = {}
      PROVE  KeepsNodes(Moved(p, q))
  <2> DEFINE from == {p} \cup Under(p)
  <2>1. p \in DOMAIN tree
    BY <1>2, LstatFacts
  <2>2. /\ from \subseteq DOMAIN tree /\ q \notin from
        /\ DOMAIN Moved(p, q) = (DOMAIN tree \ from) \cup {At(p, q, s) : s \in from}
        /\ \A s \in from : Moved(p, q)[At(p, q, s)] = tree[s]
        /\ \A r \in DOMAIN tree \ from : r # q => Moved(p, q)[r] = tree[r]
    BY <1>2, <2>1, MovedFacts
  <2>3. q = At(p, q, p)
    <3>1. p \in Seq(Name)
      OBVIOUS
    <3> QED
      BY <3>1, AtBack
  <2>4. Moved(p, q)[q] = tree[p]
    BY <2>2, <2>3
  <2> HIDE DEF from
  <2> QED
    BY <2>1, <2>2, <2>4 DEF KeepsNodes
<1>3. CASE Lstat(p) = "ok" /\ Walk(q) = "ok"
  <2> DEFINE busy == Above(q, p) \/ Under(q) # {}
  <2>1. \/ Rename(p, q).tree = tree
        \/ /\ p # q /\ ~Above(p, q) /\ ~busy
           /\ Rename(p, q).tree = Moved(p, q)
    BY <1>3 DEF Rename, Fails, Leaves
  <2> QED
    BY <1>1, <1>2, <1>3, <2>1
<1>4. CASE ~(Lstat(p) = "ok" /\ Walk(q) = "ok")
  <2>1. Rename(p, q).tree = tree
    BY <1>4 DEF Rename, Fails
  <2> QED
    BY <1>1, <2>1
<1> QED
  BY <1>3, <1>4

(* Only an update-times that sets it changes a file's time.  The C provider *)
(* has one system call for that, which leaves an omitted time as it is.     *)
LEMMA TimesStep ==
    ASSUME Inv, [Next]_vars
    PROVE  KeepsOmittedTimes
<1> SUFFICES ASSUME provider = "c", NEW p \in DOMAIN tree, NEW q \in DOMAIN tree',
                    tree'[q].id = tree[p].id, tree' # tree
             PROVE  /\ tree'[q].atime = tree[p].atime \/
                         \E c \in Client : RequestDone(c, "utimens") /\ call[c].atime # UTIME_OMIT
                    /\ tree'[q].mtime = tree[p].mtime \/
                         \E c \in Client : RequestDone(c, "utimens") /\ call[c].mtime # UTIME_OMIT
  BY DEF KeepsOmittedTimes, Inv, Sound
<1>1. Sound(tree) /\ tree[p].id \in Ids(tree)
  BY DEF Inv, Ids
<1>2. PICK d \in Client :
         /\ \/ HandleCreateFile(d) \/ HandleCreateDir(d) \/ HandleRemoveFile(d)
            \/ HandleRemoveDir(d) \/ HandleRename(d) \/ HandleUtimens(d) \/ SetForUtimens(d)
         /\ rq[d].pc # "reply" /\ rq'[d].pc = "reply"
  BY TreeChanges
<1>3. CallInv(d)
  BY DEF Inv, ClientInv
<1>4. KeepsNodes(tree') => tree'[q] = tree[p]
  BY <1>1 DEF KeepsNodes, Sound
<1>5. rq[d].pc # "none" /\ (rq[d].pc = "times" => FALSE)
  BY <1>2, <1>3 DEF HandleCreateFile, HandleCreateDir, HandleRemoveFile, HandleRemoveDir,
        HandleRename, RenameDue, HandleUtimens, SetForUtimens, Serve, CallInv
<1>6. call[d].path \in Seq(Name) /\ call[d].to \in Seq(Name)
  BY <1>5, CallFacts
<1>7. CASE HandleCreateFile(d) \/ HandleCreateDir(d)
  <2>1. d \notin Ids(tree)
    BY <1>7, MadeIsNew DEF HandleCreateFile, HandleCreateDir, Serve
  <2>2. PICK k : tree' = Make(call[d].path, d, k).tree
    BY <1>7 DEF HandleCreateFile, HandleCreateDir, Apply, Change, SetTree
  <2> QED
    BY <1>4, <2>1, <2>2, MakeKeepsNodes
<1>8. CASE HandleRemoveFile(d) \/ HandleRemoveDir(d)
  <2>1. \/ tree' = Unlink(call[d].path).tree
        \/ tree' = Rmdir(call[d].path).tree
    BY <1>8 DEF HandleRemoveFile, HandleRemoveDir, Apply, Change, SetTree
  <2> QED
    BY <1>4, <2>1, RemoveKeepsNodes
<1>9. CASE HandleRename(d)
  <2>1. tree' = Rename(call[d].path, call[d].to).tree
    BY <1>9 DEF HandleRename, Apply, Change, SetTree
  <2> QED
    BY <1>1, <1>4, <1>6, <2>1, RenameKeepsNodes
<1>10. CASE HandleUtimens(d)
  <2> DEFINE k == call[d]
             x == k.path
             n == tree[x]
             a == NewTime(n.atime, k.atime)
             m == NewTime(n.mtime, k.mtime)
  <2>1. RequestDone(d, "utimens")
    BY <1>2, <1>10 DEF HandleUtimens, Serve, RequestDone
  <2>2. tree' = (IF Lstat(x) # "ok" THEN Fails(Lstat(x)) ELSE SetTimes(x, a, m)).tree
    BY <1>10 DEF HandleUtimens, Apply, Change, SetTree
  <2>3. Lstat(x) = "ok"
    BY <2>2 DEF Fails
  <2>4. x \in DOMAIN tree
    BY <2>3, LstatFacts
  <2>5. tree' = [tree EXCEPT ![x].atime = a, ![x].mtime = m]
    BY <2>2, <2>3 DEF SetTimes, Leaves
  <2>6. tree \in [DOMAIN tree -> Nodes] /\ n \in Nodes
    BY <1>1, <2>4 DEF Sound
  <2>7. /\ DOMAIN tree' = DOMAIN tree
        /\ \A y \in DOMAIN tree : y # x => tree'[y] = tree[y]
        /\ tree'[x] = [n EXCEPT !.atime = a, !.mtime = m]
    BY <2>4, <2>5, <2>6
  <2>8. /\ k.atime = UTIME_OMIT => a = n.atime
        /\ k.mtime = UTIME_OMIT => m = n.mtime
    BY DEF NewTime
  <2> HIDE DEF a, m
  <2>9. tree'[x].id = n.id /\ tree'[x].atime = a /\ tree'[x].mtime = m
    BY <2>6, <2>7 DEF Nodes
  <2>10. tree'[q].id = tree[q].id /\ q \in DOMAIN tree
    BY <2>7, <2>9
  <2>11. q = p
    BY <1>1, <2>10 DEF Sound
  <2> QED
    BY <2>1, <2>7, <2>8, <2>9, <2>11
<1>11. CASE SetForUtimens(d)
  BY <1>5, <1>11 DEF SetForUtimens
<1> QED
  BY <1>2, <1>7, <1>8, <1>9, <1>10, <1>11

(* No step changes what it was not asked to: a removal removes its kind,    *)
(* and a file keeps its time until a request sets it, through every rename. *)
THEOREM OnlyWhatIsAskedCorrect ==
    Spec => OnlyWhatIsAsked
<1>1. Inv /\ [Next]_vars => RemovesItsKind /\ KeepsOmittedTimes
  BY KindStep, TimesStep
<1> QED
  BY <1>1, InvAlways, PTL DEF Spec, OnlyWhatIsAsked

=============================================================================
