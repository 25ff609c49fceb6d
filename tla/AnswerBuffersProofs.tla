------------------------ MODULE AnswerBuffersProofs ------------------------
(* No answer of the C provider is cut off, whatever the directory, path and *)
(* message, and whatever the sizes of the arrays as long as they keep the   *)
(* margins of BufferAssumption.                                             *)
EXTENDS AnswerBuffers, TLAPS

(* While entries are added nothing has been cut off, and the tail fits: the *)
(* head leaves room for it, and each entry is accepted only if ListSlack    *)
(* bytes are left behind it.                                                *)
ListInv ==
    pc = "list" => pos = whole /\ text = whole /\ pos + ListTail < ListSize

Inv == TypeOK /\ ListInv /\ AnswerWhole

(* A text that fits is written as a whole. *)
LEMMA WrittenAll ==
    ASSUME NEW n \in Nat, NEW room \in Int, n < room
    PROVE  Written(n, room) = n
BY DEF Written

(* So an answer in an array of its own that is large enough is whole. *)
LEMMA BuildWhole ==
    ASSUME NEW n \in Nat, NEW size \in Nat, n < size, Build(n, size), Inv
    PROVE  Inv'
<1>1. text' = n /\ whole' = n /\ pc' = "send"
  BY WrittenAll DEF Build
<1>2. UNCHANGED <<first, pos, header>>
  BY DEF Build
<1> QED
  BY <1>1, <1>2 DEF Inv, TypeOK, ListInv, AnswerWhole

LEMMA InitInv == Init => Inv
BY DEF Init, Inv, TypeOK, ListInv, AnswerWhole

LEMMA EntryStep == Inv /\ AddEntry => Inv'
<1> SUFFICES ASSUME Inv, AddEntry PROVE Inv'
  OBVIOUS
<1>1. PICK name \in NameLengths, type \in TypeLengths :
        IF pos + EntryLength(name, type) + ListSlack >= ListSize THEN TooMany
        ELSE Append(EntryLength(name, type))
  BY DEF AddEntry
<1> DEFINE n == EntryLength(name, type)
<1>2. n \in Nat
  <2>1. name \in Nat /\ type \in Nat
    BY BufferAssumption DEF TypeLengths
  <2> QED
    BY <2>1 DEF EntryLength, EntryText
<1>3. pos \in Nat /\ whole = pos /\ text = pos /\ header \in Nat /\ header' = header /\ pc = "list"
  BY DEF Inv, TypeOK, ListInv, AddEntry
<1>4. CASE pos + n + ListSlack >= ListSize
  <2>1. pc' = "error" /\ first' = TRUE /\ pos' = 0 /\ whole' = 0 /\ text' = 0
    BY <1>1, <1>4 DEF TooMany, Leave
  <2> QED
    BY <2>1, <1>3 DEF Inv, TypeOK, ListInv, AnswerWhole
<1>5. CASE ~(pos + n + ListSlack >= ListSize)
  <2>1. /\ pc' = "list" /\ first' = FALSE
        /\ pos' = pos + n /\ whole' = whole + n
        /\ text' = text + Written(n, ListSize - pos)
    BY <1>1, <1>5 DEF Append
  <2> HIDE DEF n
  <2>2. pos + n + ListTail < ListSize /\ n < ListSize - pos /\ ListSize - pos \in Int
    BY <1>2, <1>3, <1>5, BufferAssumption DEF ListTail
  <2>3. Written(n, ListSize - pos) = n
    BY <1>2, <2>2, WrittenAll
  <2>4. pos' \in Nat /\ whole' = pos' /\ text' = pos' /\ pos' + ListTail < ListSize
    BY <1>2, <1>3, <2>1, <2>2, <2>3
  <2>5. first' \in BOOLEAN
    BY <2>1, Zenon
  <2>6. ListInv' /\ AnswerWhole'
    BY <1>3, <2>1, <2>4 DEF ListInv, AnswerWhole
  <2> QED
    BY <1>3, <2>1, <2>4, <2>5, <2>6 DEF Inv, TypeOK
<1> QED
  BY <1>4, <1>5

LEMMA NextInv == Inv /\ [Next]_vars => Inv'
<1> SUFFICES ASSUME Inv, [Next]_vars PROVE Inv'
  OBVIOUS
<1>1. CASE Fail
  BY <1>1 DEF Fail, Leave, Inv, TypeOK, ListInv, AnswerWhole
<1>2. CASE SendErrorJson
  <2>1. PICK message \in MessageLengths, errno \in Long :
          Build(ErrorText + errno + message, ErrorSize)
    BY <1>2 DEF SendErrorJson
  <2>2. /\ ErrorText + errno + message \in Nat
        /\ ErrorText + errno + message < ErrorSize /\ ErrorSize \in Nat
    BY BufferAssumption DEF ErrorText, Long
  <2> QED
    BY <2>1, <2>2, BuildWhole
<1>3. CASE HandleMeta
  <2>1. PICK path \in PathLengths, type \in TypeLengths, stat \in Stat :
          Build(MetaText + path + type + stat, path + MetaExtra)
    BY <1>3 DEF HandleMeta
  <2>2. /\ MetaText + path + type + stat \in Nat
        /\ MetaText + path + type + stat < path + MetaExtra
        /\ path + MetaExtra \in Nat
    BY BufferAssumption DEF MetaText, TypeLengths, Stat
  <2> QED
    BY <2>1, <2>2, BuildWhole
<1>4. CASE HandleWrite
  <2>1. PICK written \in Long : Build(WriteText + written, WriteSize)
    BY <1>4 DEF HandleWrite
  <2>2. /\ WriteText + written \in Nat /\ WriteText + written < WriteSize
        /\ WriteSize \in Nat
    BY BufferAssumption DEF WriteText, Long
  <2> QED
    BY <2>1, <2>2, BuildWhole
<1>5. CASE OpenDir
  <2>1. Written(ListHead, ListSize) = ListHead
    BY BufferAssumption, WrittenAll DEF ListHead, ListTail
  <2> QED
    BY <1>5, <2>1, BufferAssumption
    DEF OpenDir, ListHead, ListTail, Inv, TypeOK, ListInv, AnswerWhole
<1>6. CASE AddEntry
  BY <1>6, EntryStep
<1>7. CASE EndList
  <2>1. /\ pos \in Nat /\ whole = pos /\ text = pos /\ header \in Nat
        /\ pos + ListTail < ListSize
    BY <1>7 DEF EndList, Inv, TypeOK, ListInv
  <2>2. Written(ListTail, ListSize - pos) = ListTail
    BY <2>1, BufferAssumption, WrittenAll DEF ListTail
  <2> QED
    BY <1>7, <2>1, <2>2
    DEF EndList, Leave, ListTail, Inv, TypeOK, ListInv, AnswerWhole
<1>8. CASE SendJson
  <2>1. PICK length \in Long : header' = JsonHeader + length
    BY <1>8 DEF SendJson
  <2>2. header' \in Nat /\ header' < HeaderSize
    BY <2>1, BufferAssumption DEF JsonHeader, DataHeader, Long
  <2> QED
    BY <1>8, <2>2 DEF SendJson, Inv, TypeOK, ListInv, AnswerWhole
<1>9. CASE SendBinary
  <2>1. PICK length \in Long : header' = DataHeader + length
    BY <1>9 DEF SendBinary
  <2>2. header' \in Nat /\ header' < HeaderSize
    BY <2>1, BufferAssumption DEF DataHeader, Long
  <2> QED
    BY <1>9, <2>2 DEF SendBinary, Inv, TypeOK, ListInv, AnswerWhole
<1>10. CASE Sent \/ UNCHANGED vars
  BY <1>10 DEF Sent, vars, Inv, TypeOK, ListInv, AnswerWhole
<1> QED
  BY <1>1, <1>2, <1>3, <1>4, <1>5, <1>6, <1>7, <1>8, <1>9, <1>10 DEF Next

LEMMA Invariant == Spec => []Inv
BY InitInv, NextInv, PTL DEF Spec

(* handle_list never computes sizeof(payload) - pos with pos behind the     *)
(* array, however long the directory and its names are.                     *)
THEOREM RoomCorrect == Spec => []RoomLeft
<1>1. Inv => RoomLeft
  BY BufferAssumption DEF Inv, TypeOK, ListInv, RoomLeft, ListTail
<1> QED
  BY <1>1, Invariant, PTL

(* Every answer of the C provider leaves as a whole. *)
THEOREM WholeCorrect == Spec => []AnswerWhole
<1>1. Inv => AnswerWhole
  BY DEF Inv
<1> QED
  BY <1>1, Invariant, PTL

=============================================================================
