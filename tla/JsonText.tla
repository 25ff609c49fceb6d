------------------------------ MODULE JsonText ------------------------------
(***************************************************************************)
(* The JSON code of the program, on texts that are sequences of symbols: a *)
(* symbol is a character that some code treats specially ("quote",         *)
(* "bslash", "lbrace", ...), or a plain word or number, of which only the  *)
(* identity matters.  Writing: json_escape_string of src/json_utils.c.     *)
(* Reading in the client: third_party/jsmn.h and the look-up functions of  *)
(* src/http_client.c.  Reading in the C provider: json_get_string and      *)
(* json_get_long of httpfs_server.c.                                       *)
(***************************************************************************)
EXTENDS Integers, Sequences

(* control characters with no escape letter of their own: \u00xx *)
Control == {"ctl"}

(* the letter that stands for a character after a backslash *)
Letter == [quote |-> "quote", bslash |-> "bslash", bsp |-> "b", ff |-> "f",
           nl |-> "n", cr |-> "r", tab |-> "t"]

Unicode(code) == <<"bslash", "u", "0", "0", code[1], code[2]>>
ControlCode == <<"0", "1">>

-----------------------------------------------------------------------------
(* json_escape_string *)

Failed == [ok |-> FALSE, text |-> <<>>]
Made(text) == [ok |-> TRUE, text |-> text]

EscapeChar(ch) ==
    IF ch \in DOMAIN Letter THEN <<"bslash", Letter[ch]>>
    ELSE IF ch \in Control THEN Unicode(ControlCode)
    ELSE <<ch>>

(* output[] must have room for two characters more, and the NUL, before    *)
(* each character - for six before a control character                     *)
json_escape_string(input, size) ==
    LET out[i \in 0 .. Len(input)] ==
          IF i = 0 THEN Made(<<>>)
          ELSE LET before == out[i - 1]
                   ch     == input[i]
                   need   == IF ch \in Control THEN 6 ELSE 2
               IN  IF ~before.ok \/ Len(before.text) + need >= size THEN Failed
                   ELSE Made(before.text \o EscapeChar(ch))
    IN  IF size = 0 THEN Failed ELSE out[Len(input)]

-----------------------------------------------------------------------------
(* jsmn_parse: the parser's state after each symbol.  mode is the place in  *)
(* the program: at the top of jsmn_parse, in jsmn_parse_string (after a     *)
(* backslash, or skipping the digits of \uXXXX) or jsmn_parse_primitive.    *)

Blank   == {"tab", "cr", "nl", "space"}
EndsPrimitive == Blank \cup {"comma", "rbracket", "rbrace"}
Printable(ch) == ch \notin {"bsp", "ff", "ctl", "eacute", "latin"}
EscapeLetters == {"quote", "slash", "bslash", "b", "f", "r", "n", "t"}

NoToken == 0

Parser0 == [mode |-> "top", start |-> 0, skip |-> 0, super |-> NoToken,
            tokens |-> <<>>, error |-> FALSE]

Stop(p) == [p EXCEPT !.error = TRUE]

(* jsmn_alloc_token and jsmn_fill_token; end = 0 while it is open *)
AddToken(p, type, start, end, max) ==
    IF Len(p.tokens) >= max THEN Stop(p)
    ELSE [p EXCEPT !.tokens = Append(@, [type |-> type, start |-> start, end |-> end,
                                         parent |-> p.super])]

OpenTokens(p) == {i \in DOMAIN p.tokens : p.tokens[i].end = 0}

Open(p, type, pos, max) ==
    LET q == AddToken(p, type, pos, 0, max)
    IN  IF q.error THEN q ELSE [q EXCEPT !.super = Len(q.tokens)]

(* a bracket closes the last token that is open *)
Close(p, type, pos) ==
    LET i == CHOOSE i \in OpenTokens(p) : \A j \in OpenTokens(p) : j <= i
    IN  IF OpenTokens(p) = {} THEN Stop(p)
        ELSE IF p.tokens[i].type # type THEN Stop(p)
        ELSE [p EXCEPT !.tokens[i].end = pos + 1, !.super = p.tokens[i].parent]

Top(p, ch, pos, max) ==
    CASE ch = "lbrace" -> Open(p, "object", pos, max)
      [] ch = "lbracket" -> Open(p, "array", pos, max)
      [] ch = "rbrace" -> Close(p, "object", pos)
      [] ch = "rbracket" -> Close(p, "array", pos)
      [] ch = "quote" -> [p EXCEPT !.mode = "string", !.start = pos]
      [] ch \in Blank \cup {"colon", "comma"} -> p
      [] OTHER -> IF Printable(ch) THEN [p EXCEPT !.mode = "primitive", !.start = pos]
                  ELSE Stop(p)

InString(p, ch, pos, max) ==
    IF p.skip > 0 THEN [p EXCEPT !.skip = @ - 1]
    ELSE CASE ch = "quote" ->
                [AddToken(p, "string", p.start + 1, pos, max) EXCEPT !.mode = "top"]
           [] ch = "bslash" -> [p EXCEPT !.mode = "escape"]
           [] OTHER -> p

AfterBackslash(p, ch) ==
    CASE ch \in EscapeLetters -> [p EXCEPT !.mode = "string"]
      [] ch = "u" -> [p EXCEPT !.mode = "string", !.skip = 4]
      [] OTHER -> Stop(p)

InPrimitive(p, ch, pos, max) ==
    CASE ch \in EndsPrimitive ->
           LET q == AddToken(p, "primitive", p.start, pos, max)
           IN  IF q.error THEN q ELSE Top([q EXCEPT !.mode = "top"], ch, pos, max)
      [] ch \notin EndsPrimitive /\ Printable(ch) -> p
      [] OTHER -> Stop(p)

Consume(p, ch, pos, max) ==
    CASE p.mode = "top"       -> Top(p, ch, pos, max)
      [] p.mode = "string"    -> InString(p, ch, pos, max)
      [] p.mode = "escape"    -> AfterBackslash(p, ch)
      [] p.mode = "primitive" -> InPrimitive(p, ch, pos, max)

(* the parser after each symbol of a text; it stops at an error *)
Parsed(text, max) ==
    LET after[n \in 0 .. Len(text)] ==
          IF n = 0 THEN Parser0
          ELSE LET p == after[n - 1]
               IN  IF p.error THEN p ELSE Consume(p, text[n], n, max)
    IN  after

(* the tokens of a text, or error: too many, malformed, or cut short *)
jsmn_parse(text, max) ==
    LET last == Parsed(text, max)[Len(text)]
        done == IF last.error \/ last.mode # "primitive" THEN last
                ELSE AddToken(last, "primitive", last.start, Len(text) + 1, max)
    IN  [done EXCEPT !.error = @ \/ done.mode \in {"string", "escape"}
                                 \/ OpenTokens(done) # {}]

-----------------------------------------------------------------------------
(* The client's look-ups in the tokens (token numbers start at 1) *)

TokenText(text, t) == SubSeq(text, t.start, t.end - 1)

(* Slip: the value of a key that does not match is looked at as a key too *)
next_token_index_same(tokens, i) == i

(* the first token after token i and everything inside it *)
next_token_index(tokens, i) ==
    IF i > Len(tokens) THEN i + 1
    ELSE LET later == {j \in i + 1 .. Len(tokens) : tokens[j].start >= tokens[i].end}
         IN  IF later = {} THEN Len(tokens) + 1
             ELSE CHOOSE j \in later : \A k \in later : j <= k

(* find_object_value from each token on *)
Scan(text, tokens, obj, key) ==
    LET n == Len(tokens)
        scan[i \in 1 .. n + 3] ==
          IF i > n \/ tokens[i].start >= tokens[obj].end THEN NoToken
          ELSE IF tokens[i].parent = obj /\ tokens[i].type = "string"
               THEN IF TokenText(text, tokens[i]) = <<key>>
                    THEN IF i + 1 <= n THEN i + 1 ELSE NoToken
                    ELSE scan[next_token_index(tokens, i + 1)]
               ELSE scan[i + 1]
    IN  scan

(* the token of the value of a key of object obj, or NoToken *)
find_object_value(text, tokens, obj, key) == Scan(text, tokens, obj, key)[obj + 1]

(* token_to_string into output[size]: the text as it stands *)
token_to_string(text, t, size) ==
    IF Len(TokenText(text, t)) + 1 > size THEN Failed ELSE Made(TokenText(text, t))

-----------------------------------------------------------------------------
(* The C provider's look-ups in a request body *)

(* strstr: where the first occurrence of a pattern ends, or 0 *)
EndOfFirst(text, pattern) ==
    LET ends == {i \in Len(pattern) .. Len(text) :
                    SubSeq(text, i - Len(pattern) + 1, i) = pattern}
    IN  IF ends = {} THEN 0 ELSE CHOOSE i \in ends : \A j \in ends : i <= j

KeyPattern(key) == <<"quote", key, "quote", "colon">>

(* the escapes json_get_string knows *)
Known == [quote |-> "quote", bslash |-> "bslash", slash |-> "slash",
          n |-> "nl", r |-> "cr", t |-> "tab"]

(* unescape until the closing quote, symbol by symbol; output[] must keep   *)
(* room for the NUL                                                         *)
Unquote(s, ch, size) ==
    LET put(c) == IF Len(s.text) + 2 >= size THEN [s EXCEPT !.mode = "failed"]
                  ELSE [mode |-> "string", text |-> Append(s.text, c)]
    IN  CASE s.mode = "string" /\ ch = "quote"  -> [s EXCEPT !.mode = "done"]
          [] s.mode = "string" /\ ch = "bslash" -> [s EXCEPT !.mode = "escape"]
          [] s.mode = "string" /\ ch \notin {"quote", "bslash"} -> put(ch)
          [] s.mode = "escape" -> IF ch \in DOMAIN Known THEN put(Known[ch])
                                  ELSE [s EXCEPT !.mode = "failed"]
          [] s.mode \in {"done", "failed"} -> s

json_get_string(text, key, size) ==
    LET from == EndOfFirst(text, KeyPattern(key) \o <<"quote">>)
        read[i \in 0 .. Len(text)] ==
          IF i <= from THEN [mode |-> "string", text |-> <<>>]
          ELSE Unquote(read[i - 1], text[i], size)
        last == read[Len(text)]
    IN  IF from = 0 \/ last.mode # "done" THEN Failed ELSE Made(last.text)

(* strtoll on what follows "key": *)
Digit == {"0", "1", "2", "5", "7"}

json_get_long(text, key) ==
    LET from == EndOfFirst(text, KeyPattern(key))
    IN  IF from = 0 \/ from = Len(text) THEN Failed
        ELSE IF text[from + 1] \in Digit THEN Made(<<text[from + 1]>>) ELSE Failed

=============================================================================
