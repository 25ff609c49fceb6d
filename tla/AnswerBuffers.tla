---------------------------- MODULE AnswerBuffers ----------------------------
(***************************************************************************)
(* The arrays in which the C provider builds its answers, by length.       *)
(* snprintf cuts off what does not fit and returns the length that would   *)
(* have been needed; the code adds that up (pos of handle_list) or passes  *)
(* it to send (header_length) without comparing it with the array.         *)
(***************************************************************************)
EXTENDS Integers

CONSTANTS
    ListSize,       \* SERVER_LIST_PAYLOAD_SIZE, 262144
    ListSlack,      \* 64 in handle_list
    NameLengths,    \* lengths of escaped names, below 512
    MetaExtra,      \* 256 in handle_meta
    PathLengths,    \* lengths of paths, below 2048
    ErrorSize,      \* char payload[1400] of send_error_json
    MessageLengths, \* lengths of escaped messages, below 1024
    WriteSize,      \* char payload[256] of handle_write
    HeaderSize      \* char header[256] of send_json and send_binary

(* lengths of the format strings without their conversions *)
ListHead   == 26    \* {"status":"ok","entries":[
ListTail   == 2     \* ]}
EntryText  == 21    \* {"name":"","type":""}
MetaText   == 110
ErrorText  == 40
WriteText  == 81    \* with the digest
JsonHeader == 103
DataHeader == 152   \* with the digest

TypeLengths == {3, 4}   \* dir, file
Long   == 1 .. 20       \* lengths of a long, a long long or a size_t
Stat   == 8 .. 130      \* mode, size, uid, gid, nlink and three times together

ASSUME BufferAssumption ==
    /\ ListSize \in Nat /\ ListSlack \in Nat
    /\ NameLengths \subseteq Nat /\ PathLengths \subseteq Nat
    /\ MessageLengths \subseteq 0 .. 1023
    /\ ListSlack >= ListTail
    /\ ListHead + ListTail < ListSize
    /\ MetaExtra \in Nat /\ MetaText + 4 + 130 < MetaExtra
    /\ ErrorSize \in Nat /\ ErrorText + 20 + 1023 < ErrorSize
    /\ WriteSize \in Nat /\ WriteText + 20 < WriteSize
    /\ HeaderSize \in Nat /\ DataHeader + 20 < HeaderSize

VARIABLES
    pc,         \* "handle", "list", "error", "send", "sent"
    first,      \* no entry has been written yet
    pos,        \* handle_list's position, which snprintf's results add up to
    whole,      \* length of the text the answer should have
    text,       \* strlen(payload)
    header      \* header_length

vars == <<pc, first, pos, whole, text, header>>

Init ==
    /\ pc = "handle" /\ first = TRUE
    /\ pos = 0 /\ whole = 0 /\ text = 0 /\ header = 0

(* what snprintf leaves in room bytes of a text of n *)
Written(n, room) == IF n < room THEN n ELSE room - 1

(* handle_list's variables go out of scope *)
Leave == first' = TRUE /\ pos' = 0

(* a text of n in an array of its own *)
Build(n, size) ==
    /\ whole' = n /\ text' = Written(n, size)
    /\ pc' = "send"
    /\ UNCHANGED <<first, pos, header>>

-----------------------------------------------------------------------------
(* The handlers *)

(* any check of a handler that fails *)
Fail ==
    /\ pc \in {"handle", "list"}
    /\ pc' = "error"
    /\ Leave /\ whole' = 0 /\ text' = 0
    /\ UNCHANGED header

SendErrorJson ==
    /\ pc = "error"
    /\ \E message \in MessageLengths, errno \in Long :
          Build(ErrorText + errno + message, ErrorSize)

(* Slip: room for the path and 128 more *)
HandleMetaShort ==
    /\ pc = "handle"
    /\ \E path \in PathLengths, type \in TypeLengths, stat \in Stat :
          Build(MetaText + path + type + stat, path + MetaExtra \div 2)

HandleMeta ==
    /\ pc = "handle"
    /\ \E path \in PathLengths, type \in TypeLengths, stat \in Stat :
          Build(MetaText + path + type + stat, path + MetaExtra)

HandleWrite ==
    /\ pc = "handle"
    /\ \E written \in Long : Build(WriteText + written, WriteSize)

(* opendir, and the head of the list *)
OpenDir ==
    /\ pc = "handle" /\ pc' = "list"
    /\ pos' = ListHead /\ whole' = ListHead /\ text' = Written(ListHead, ListSize)
    /\ UNCHANGED <<first, header>>

EntryLength(name, type) == (IF first THEN 0 ELSE 1) + EntryText + name + type

(* an entry of n at pos *)
Append(n) ==
    /\ pc' = "list" /\ first' = FALSE
    /\ pos' = pos + n
    /\ whole' = whole + n
    /\ text' = text + Written(n, ListSize - pos)

(* "too many entries" *)
TooMany == pc' = "error" /\ Leave /\ whole' = 0 /\ text' = 0

(* Slip: the room is looked at before the entry is written *)
AddEntryLate ==
    /\ pc = "list"
    /\ \E name \in NameLengths, type \in TypeLengths :
          IF pos + ListSlack >= ListSize THEN TooMany
          ELSE Append(EntryLength(name, type))
    /\ UNCHANGED header

(* an entry is written, in part if need be, and then what is left is tested *)
AddEntry ==
    /\ pc = "list"
    /\ \E name \in NameLengths, type \in TypeLengths :
          IF pos + EntryLength(name, type) + ListSlack >= ListSize THEN TooMany
          ELSE Append(EntryLength(name, type))
    /\ UNCHANGED header

EndList ==
    /\ pc = "list" /\ pc' = "send"
    /\ whole' = whole + ListTail
    /\ text' = text + Written(ListTail, ListSize - pos)
    /\ Leave
    /\ UNCHANGED header

(* send_json: a header with the length of the payload, then the payload *)
SendJson ==
    /\ pc = "send" /\ pc' = "sent"
    /\ \E length \in Long : header' = JsonHeader + length
    /\ whole' = 0 /\ text' = 0
    /\ UNCHANGED <<first, pos>>

(* handle_read's answer: the header of send_binary *)
SendBinary ==
    /\ pc = "handle" /\ pc' = "sent"
    /\ \E length \in Long : header' = DataHeader + length
    /\ UNCHANGED <<first, pos, whole, text>>

Sent == pc = "sent" /\ UNCHANGED vars

Next ==
    \/ Fail \/ SendErrorJson \/ HandleMeta \/ HandleWrite
    \/ OpenDir \/ AddEntry \/ EndList
    \/ SendJson \/ SendBinary \/ Sent

Spec == Init /\ [][Next]_vars

-----------------------------------------------------------------------------
(* Properties *)

TypeOK ==
    /\ pc \in {"handle", "list", "error", "send", "sent"}
    /\ first \in BOOLEAN
    /\ pos \in Nat /\ whole \in Nat /\ text \in Int /\ header \in Nat

(* Whenever handle_list is about to write, pos is inside payload[]:         *)
(* sizeof(payload) - pos does not wrap to a huge size_t, although pos grows *)
(* by the length an entry would have had and may pass the end of payload[]. *)
RoomLeft == pc = "list" => pos < ListSize

(* An answer is never sent cut off: the text is as long as it should be,    *)
(* and send reads no byte behind header[].  (The client would take a listing *)
(* that ends early for a broken one, or miss entries.)                      *)
AnswerWhole ==
    /\ pc = "send" => text = whole
    /\ pc = "sent" => header < HeaderSize

=============================================================================
