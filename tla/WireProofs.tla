----------------------------- MODULE WireProofs -----------------------------
(* Theorems about a call on its way from the client to a provider and back. *)
EXTENDS WireTextProofs

-----------------------------------------------------------------------------
(* The invariant: who has what when *)

ErrorCodes == {"EINVAL", "ENOENT", "EIO", "400"}
Stages == {"start", "sent", "decoded", "answered", "returned"}

(* The handler of a query got the path and the numbers of the call. *)
SeenQuery ==
    seen = [path |-> IF provider = "python" THEN Replaced(call.path) ELSE call.path,
            to |-> <<>>, nums |-> call.nums]

(* What was answered: an error, or what the call asks for *)
Refused == answer.ok = FALSE /\ \E errno \in ErrorCodes : response = ErrorText(errno)
Granted == answer.ok = TRUE /\ response = OkText /\ (call.op \in Query => SeenQuery)

Fixed == provider \in Providers /\ call \in Calls /\ dir \in Dirs \cup {<<>>}

WireInv ==
    /\ Fixed /\ stage \in Stages
    /\ stage # "returned" => result = NoResult
    /\ stage = "sent" /\ call.op \in Query =>
          request.uri = Endpoint(call) /\ Len(Endpoint(call)) < EndpointSize
    /\ stage \in {"start", "sent"} => seen = Unseen
    /\ call.op \in Query => seen = Unseen \/ SeenQuery
    /\ stage = "decoded" /\ call.op \in Query => SeenQuery
    /\ stage = "answered" => Refused \/ Granted

LEMMA KeysText ==
  ASSUME NEW op
  PROVE  Len(Keys(op)) \in Nat /\ DOMAIN Keys(op) = 1 .. Len(Keys(op))
<1>1. CASE op = "read"
  BY <1>1 DEF Keys
<1>2. CASE op = "write"
  BY <1>2 DEF Keys
<1>3. CASE op \in {"create-file", "create-dir"}
  BY <1>3 DEF Keys
<1>4. CASE op = "truncate"
  BY <1>4 DEF Keys
<1>5. CASE op = "utimens"
  BY <1>5 DEF Keys
<1>6. CASE op \notin {"read", "write", "create-file", "create-dir", "truncate", "utimens"}
  BY <1>6 DEF Keys
<1> QED
  BY <1>1, <1>2, <1>3, <1>4, <1>5, <1>6

LEMMA CallIsGood ==
  ASSUME call \in Calls
  PROVE  /\ GoodCall(call) /\ call.op \in Query \cup Bodied /\ IsText(call.to) /\ call.nums \in Seq(Digit)
         /\ (call.to # <<>> <=> call.op = "rename")
<1>1. CallAssumption(call)
  BY WireAssumption
<1>2. call.path \in Seq(STRING) /\ call.to \in Seq(STRING) /\ call.nums \in Seq(Digit)
      /\ call.op \in Query \cup Bodied
  BY <1>1 DEF CallAssumption
<1>3. call.path # <<>> /\ Len(call.nums) = Len(Keys(call.op)) /\ (call.to # <<>> <=> call.op = "rename")
  BY <1>1 DEF CallAssumption
<1>4. IsText(call.path) /\ IsText(call.to) /\ IsText(call.nums)
  BY <1>2, SeqIsText
<1>5. Len(call.path) # 0
  BY <1>2, <1>3
<1>6. \A i \in 1 .. Len(call.nums) : call.nums[i] \in Digit
  BY <1>2
<1> QED
  BY <1>2, <1>3, <1>4, <1>5, <1>6 DEF GoodCall

LEMMA Sizes ==
  /\ EndpointSize \in Nat /\ RawUriSize \in Nat /\ PathSize \in Nat /\ MaxTokens \in Nat
  /\ EndpointSize <= RawUriSize /\ MaxTokens \div 4 >= 7
BY WireAssumption

(* What the three providers make of a query *)
LEMMA QuerySeen ==
  ASSUME Fixed, call.op \in Query, request.uri = Endpoint(call), Len(Endpoint(call)) < EndpointSize,
         stage = "sent", DecodeQueryC \/ DecodeQueryLibrary
  PROVE  \/ stage' = "decoded" /\ SeenQuery' /\ UNCHANGED <<response, answer>>
         \/ Reject("EINVAL")
<1> DEFINE u == Endpoint(call)
           keys == Keys(call.op)
           n == Len(call.nums)
           Q == QueryOf(u)
<1>1. GoodCall(call) /\ call.nums \in Seq(Digit)
  BY CallIsGood DEF Fixed
<1>2. RawUriSize \in Nat /\ Len(u) < RawUriSize /\ PathSize \in Nat /\ Len(u) \in Nat /\ IsText(u)
  <2>1. IsText(u)
    BY <1>1, EndpointQuery
  <2> QED
    BY <2>1, Sizes DEF IsText
<1>3. ASSUME NEW size \in Nat
      PROVE  /\ RawUri(u) = u /\ Len(call.path) < Len(u)
             /\ query_value(Q, "path", size) = IF Len(call.path) < size THEN Made(call.path) ELSE Failed
             /\ Len(keys) = n
             /\ \A i \in 1 .. n : query_value(Q, keys[i], size) =
                                    IF 1 < size THEN Made(<<call.nums[i]>>) ELSE Failed
  BY <1>1, <1>2, QueryRead
<1>4. DOMAIN keys = 1 .. n /\ n \in Nat
  BY <1>2, <1>3, KeysText
<1>5. /\ \A t : Made(t).ok = TRUE /\ Made(t).text = t
      /\ Failed.ok = FALSE
  BY DEF Made, Failed
<1>7. Len(call.path) \in Nat
  BY <1>1 DEF GoodCall, IsText
<1> HIDE DEF u, keys, n, Q
<1>6. ASSUME NEW size \in Nat, 1 < size, NEW i \in 1 .. n
      PROVE  query_value(Q, keys[i], size).text[1] = call.nums[i]
  <2>1. query_value(Q, keys[i], size) = Made(<<call.nums[i]>>)
    BY <1>3, <1>6
  <2>2. query_value(Q, keys[i], size).text = <<call.nums[i]>>
    BY <1>5, <2>1, Zenon
  <2> QED
    BY <2>2
<1>8. ASSUME NEW w, w = [i \in 1 .. n |-> call.nums[i]]
      PROVE  w = call.nums
  BY <1>1, <1>8, SeqSame DEF n
<1>c. ASSUME DecodeQueryC
      PROVE  \/ stage' = "decoded" /\ SeenQuery' /\ UNCHANGED <<response, answer>>
             \/ Reject("EINVAL")
  <2> DEFINE path == query_value(Q, "path", PathSize)
             v == [i \in 1 .. n |-> query_value(Q, keys[i], PathSize)]
             w == [i \in 1 .. n |-> v[i].text[1]]
  <2>1. QueryOf(RawUri(request.uri)) = Q
    BY <1>2, <1>3, Zenon DEF Q, u
  <2>2. /\ provider = "c" /\ UNCHANGED <<provider, call>> /\ DOMAIN v = 1 .. n
        /\ IF path.ok /\ All(v) /\ resolve_path(path.text) THEN Handle(path.text, <<>>, w) ELSE Reject("EINVAL")
    <3>1. DOMAIN v = 1 .. n
      OBVIOUS
    <3>2. [i \in DOMAIN keys |-> query_value(Q, keys[i], PathSize)] = v
      BY <1>4
    <3>3. [i \in DOMAIN v |-> v[i].text[1]] = w
      BY <3>1
    <3> HIDE DEF v, w, path
    <3>4. IF path.ok /\ All(v) /\ resolve_path(path.text) THEN Handle(path.text, <<>>, w) ELSE Reject("EINVAL")
      BY <1>c, <2>1, <3>2, <3>3, Zenon DEF DecodeQueryC, path, keys
    <3> QED
      BY <1>c, <3>1, <3>4 DEF DecodeQueryC
  <2>3. path = IF Len(call.path) < PathSize THEN Made(call.path) ELSE Failed
    BY <1>2, <1>3
  <2> HIDE DEF path
  <2>4. SUFFICES ASSUME path.ok, All(v), Handle(path.text, <<>>, w)
                 PROVE  stage' = "decoded" /\ SeenQuery' /\ UNCHANGED <<response, answer>>
    BY <2>2
  <2>5. path.text = call.path /\ Len(call.path) < PathSize
    BY <1>5, <2>3, <2>4, Zenon
  <2>6. w = call.nums
    <3>1. Len(call.path) # 0
      BY <1>1 DEF GoodCall
    <3>2. 1 < PathSize
      BY <1>2, <1>7, <2>5, <3>1
    <3>3. \A i \in 1 .. n : query_value(Q, keys[i], PathSize).text[1] = call.nums[i]
      BY <1>6, <1>2, <3>2
    <3>4. w = [i \in 1 .. n |-> call.nums[i]]
      BY <3>3
    <3> HIDE DEF w
    <3> QED
      BY <1>8, <3>4
  <2> HIDE DEF v, w
  <2>7. seen' = [path |-> call.path, to |-> <<>>, nums |-> call.nums]
    BY <2>4, <2>5, <2>6 DEF Handle
  <2>8. SeenQuery'
    BY <2>2, <2>7 DEF SeenQuery
  <2> QED
    BY <2>4, <2>8 DEF Handle
<1>l. ASSUME DecodeQueryLibrary
      PROVE  stage' = "decoded" /\ SeenQuery' /\ UNCHANGED <<response, answer>>
  <2> DEFINE size == Len(u) + 1
             path == query_value(Q, "path", size).text
             v == [i \in 1 .. n |-> query_value(Q, keys[i], size)]
             w == [i \in 1 .. n |-> v[i].text[1]]
             p == IF provider = "go" THEN path ELSE Replaced(path)
  <2>0. size \in Nat /\ Len(call.path) < size /\ 1 < size
    <3>1. Len(call.path) < Len(u)
      BY <1>2, <1>3
    <3>2. Len(call.path) # 0
      BY <1>1 DEF GoodCall
    <3> QED
      BY <1>2, <1>7, <3>1, <3>2
  <2>1. request.uri = u /\ Q = QueryOf(request.uri) /\ size = Len(request.uri) + 1
    BY DEF u, Q
  <2> HIDE DEF size
  <2>2. provider # "c" /\ UNCHANGED <<provider, call>> /\ Handle(p, <<>>, w)
    <3>1. \A i \in 1 .. n : v[i] = query_value(Q, keys[i], size)
      OBVIOUS
    <3>2. [i \in DOMAIN keys |-> query_value(Q, keys[i], size).text[1]] = w
      BY <1>4, <3>1
    <3> HIDE DEF v, w
    <3>3. Handle(p, <<>>, [i \in DOMAIN keys |-> query_value(Q, keys[i], size).text[1]])
      BY <1>l, <2>1, Zenon DEF DecodeQueryLibrary, keys
    <3>4. Handle(p, <<>>, w)
      BY <3>2, <3>3, Zenon
    <3> QED
      BY <1>l, <3>4 DEF DecodeQueryLibrary
  <2>3. path = call.path
    <3>1. query_value(Q, "path", size) = Made(call.path)
      BY <1>3, <2>0
    <3> QED
      BY <1>5, <3>1, Zenon
  <2> HIDE DEF path
  <2>4. w = call.nums
    <3>3. \A i \in 1 .. n : query_value(Q, keys[i], size).text[1] = call.nums[i]
      BY <1>6, <2>0
    <3>4. w = [i \in 1 .. n |-> call.nums[i]]
      BY <3>3
    <3> HIDE DEF w
    <3> QED
      BY <1>8, <3>4
  <2> HIDE DEF v, w
  <2>5. provider \in {"c", "go", "python"}
    BY WireAssumption DEF Fixed
  <2>6. seen' = [path |-> p, to |-> <<>>, nums |-> call.nums] /\ stage' = "decoded" /\ UNCHANGED <<response, answer>>
    BY <2>2, <2>4 DEF Handle
  <2>7. p = IF provider = "python" THEN Replaced(call.path) ELSE call.path
    BY <2>2, <2>3, <2>5
  <2> HIDE DEF p
  <2>8. SeenQuery'
    BY <2>2, <2>6, <2>7 DEF SeenQuery, Replaced
  <2> QED
    BY <2>6, <2>8
<1> QED
  BY <1>c, <1>l

LEMMA ErrorKept ==
  ASSUME provider' = provider, NEW errno
  PROVE  ErrorText(errno)' = ErrorText(errno)
BY DEF ErrorText, Line

LEMMA OkTextKept ==
  ASSUME UNCHANGED <<provider, dir, call, seen>>
  PROVE  OkText' = OkText
<1>1. ListText' = ListText
  BY DEF ListText, Answer, Line, EntryText, EscapedBy, StatusOk
<1>2. MetaText' = MetaText
  BY DEF MetaText, Answer, Line, EscapedBy, StatusOk, MetaType, MetaSize
<1>3. WriteText' = WriteText
  BY DEF WriteText, Line, StatusOk
<1>4. Line(<<StatusOk>>)' = Line(<<StatusOk>>)
  BY DEF Line, StatusOk
<1> QED
  BY <1>1, <1>2, <1>3, <1>4 DEF OkText

LEMMA RejectRefuses ==
  ASSUME NEW errno \in ErrorCodes, Reject(errno), provider' = provider
  PROVE  Refused' /\ stage' = "answered" /\ seen' = seen
<1>1. answer' = [ok |-> FALSE, errno |-> errno] /\ response' = ErrorText(errno) /\ stage' = "answered" /\ seen' = seen
  BY DEF Reject
<1>2. response' = ErrorText(errno)'
  BY <1>1, ErrorKept
<1>3. answer'.ok = FALSE
  BY <1>1
<1> QED
  BY <1>1, <1>2, <1>3 DEF Refused

LEMMA InitInv == Init => WireInv
<1> SUFFICES ASSUME Init PROVE WireInv
  OBVIOUS
<1>1. Fixed
  BY DEF Init, Fixed
<1> QED
  BY <1>1 DEF Init, WireInv, Stages

LEMMA StutterInv ==
  ASSUME WireInv, UNCHANGED vars
  PROVE  WireInv'
<1>1. OkText' = OkText
  BY OkTextKept DEF vars
<1>2. SeenQuery' <=> SeenQuery
  BY DEF SeenQuery, Replaced, vars
<1>3. Granted' <=> Granted
  BY <1>1, <1>2 DEF Granted, vars
<1>4. Refused' <=> Refused
  <2>1. \A errno \in ErrorCodes : ErrorText(errno)' = ErrorText(errno)
    BY ErrorKept DEF vars
  <2> QED
    BY <2>1 DEF Refused, vars
<1>5. Fixed'
  BY DEF Fixed, vars, WireInv
<1>6. Endpoint(call)' = Endpoint(call)
  BY DEF vars, Endpoint, QueryNumbers
<1> QED
  BY <1>2, <1>3, <1>4, <1>5, <1>6 DEF WireInv, vars

LEMMA SendInv ==
  ASSUME WireInv, SendQuery \/ SendBody
  PROVE  WireInv'
<1>0. UNCHANGED <<provider, dir, call, seen>> /\ stage = "start"
  BY DEF SendQuery, SendBody
<1>1. Fixed' /\ (Fixed => call \in Calls)
  BY <1>0 DEF Fixed, WireInv
<1>2. stage' \in {"sent", "returned"} /\ (stage' = "sent" => result' = result)
  BY DEF SendQuery, SendBody, Send, Fails, Return
<1>3. Endpoint(call)' = Endpoint(call)
  BY <1>0 DEF Endpoint, QueryNumbers
<1>4. stage' = "sent" /\ call.op \in Query => request'.uri = Endpoint(call) /\ Len(Endpoint(call)) < EndpointSize
  <2> SUFFICES ASSUME stage' = "sent", call.op \in Query
               PROVE  request'.uri = Endpoint(call) /\ Len(Endpoint(call)) < EndpointSize
    OBVIOUS
  <2> DEFINE e == Endpoint(call)
  <2>1. SendQuery
    BY DEF SendBody
  <2>2. ~(Len(e) >= EndpointSize)
    BY <2>1 DEF SendQuery, Fails, Return
  <2>3. request'.uri = e
    BY <2>1 DEF SendQuery, Fails, Return, Send
  <2>4. Len(e) \in Nat /\ EndpointSize \in Nat
    <3>1. IsText(e)
      BY CallIsGood, EndpointQuery DEF WireInv, Fixed
    <3> QED
      BY <3>1, Sizes DEF IsText
  <2> HIDE DEF e
  <2>5. Len(e) < EndpointSize
    BY <2>2, <2>4
  <2> QED
    BY <2>3, <2>5 DEF e
<1>5. seen' = Unseen
  BY <1>0 DEF WireInv
<1>6. result = NoResult
  BY <1>0 DEF WireInv
<1> QED
  BY <1>0, <1>1, <1>2, <1>3, <1>4, <1>5, <1>6 DEF WireInv, Stages

LEMMA DecodeQueryInv ==
  ASSUME WireInv, DecodeQueryC \/ DecodeQueryLibrary
  PROVE  WireInv'
<1>0. UNCHANGED <<provider, dir, call, request, result>> /\ stage = "sent" /\ call.op \in Query
  BY DEF DecodeQueryC, DecodeQueryLibrary
<1>1. Fixed' /\ Fixed /\ request.uri = Endpoint(call) /\ Len(Endpoint(call)) < EndpointSize
      /\ seen = Unseen /\ result' = NoResult
  BY <1>0 DEF Fixed, WireInv
<1>2. \/ stage' = "decoded" /\ SeenQuery' /\ UNCHANGED <<response, answer>>
      \/ Reject("EINVAL")
  BY <1>0, <1>1, QuerySeen
<1>3. CASE stage' = "decoded" /\ SeenQuery'
  BY <1>0, <1>1, <1>3 DEF WireInv, Stages
<1>4. CASE Reject("EINVAL")
  <2>1. Refused' /\ stage' = "answered" /\ seen' = Unseen
    BY <1>0, <1>1, <1>4, RejectRefuses DEF ErrorCodes
  <2> QED
    BY <1>0, <1>1, <2>1 DEF WireInv, Stages
<1> QED
  BY <1>2, <1>3, <1>4

LEMMA DecodeBodyInv ==
  ASSUME WireInv, DecodeBodyC \/ DecodeBodyLibrary
  PROVE  WireInv'
<1>0. UNCHANGED <<provider, dir, call, request, result>> /\ stage = "sent" /\ call.op \notin Query
  BY DEF DecodeBodyC, DecodeBodyLibrary
<1>1. Fixed' /\ seen = Unseen /\ result' = NoResult
  BY <1>0 DEF Fixed, WireInv
<1>2. stage' = "decoded" \/ Reject("EINVAL") \/ Reject("400")
  BY DEF DecodeBodyC, DecodeBodyLibrary, Handle
<1>3. CASE stage' = "decoded"
  BY <1>0, <1>1, <1>3 DEF WireInv, Stages
<1>4. CASE Reject("EINVAL") \/ Reject("400")
  <2>1. Refused' /\ stage' = "answered" /\ seen' = Unseen
    BY <1>0, <1>1, <1>4, RejectRefuses DEF ErrorCodes
  <2> QED
    BY <1>0, <1>1, <2>1 DEF WireInv, Stages
<1> QED
  BY <1>2, <1>3, <1>4

LEMMA AnswerInv ==
  ASSUME WireInv, Succeed \/ Refuse
  PROVE  WireInv'
<1>0. UNCHANGED <<provider, dir, call, request, result>> /\ stage = "decoded"
  BY DEF Succeed, Refuse
<1>1. Fixed' /\ result' = NoResult /\ (call.op \in Query => SeenQuery)
  BY <1>0 DEF Fixed, WireInv
<1>2. \/ stage' = "answered" /\ answer' = [ok |-> TRUE, errno |-> Unknown] /\ response' = OkText /\ seen' = seen
      \/ Reject("EIO") \/ Reject("ENOENT")
  BY DEF Succeed, Refuse
<1>3. seen' = seen /\ stage' = "answered" /\ (Refused' \/ Granted')
  <2>1. CASE stage' = "answered" /\ answer' = [ok |-> TRUE, errno |-> Unknown] /\ response' = OkText /\ seen' = seen
    <3>1. OkText' = OkText
      BY <1>0, <2>1, OkTextKept
    <3>2. call.op \in Query => SeenQuery'
      BY <1>0, <1>1, <2>1 DEF SeenQuery, Replaced
    <3>3. Granted'
      BY <1>0, <2>1, <3>1, <3>2 DEF Granted
    <3> QED
      BY <2>1, <3>3
  <2>2. CASE Reject("EIO") \/ Reject("ENOENT")
    BY <1>0, <2>2, RejectRefuses DEF ErrorCodes
  <2> QED
    BY <1>2, <2>1, <2>2
<1>4. call'.op \in Query => SeenQuery'
  BY <1>0, <1>1, <1>3 DEF SeenQuery, Replaced
<1> QED
  BY <1>0, <1>1, <1>3, <1>4 DEF WireInv, Stages

LEMMA ReadInv ==
  ASSUME WireInv, ReadAnswer
  PROVE  WireInv'
<1>0. UNCHANGED <<provider, dir, call, request, seen, answer, response>> /\ stage' = "returned"
  BY DEF ReadAnswer, Return
<1>1. Fixed'
  BY <1>0 DEF Fixed, WireInv
<1>2. call'.op \in Query => seen' = Unseen \/ SeenQuery'
  BY <1>0 DEF SeenQuery, Replaced, WireInv
<1> QED
  BY <1>0, <1>1, <1>2 DEF WireInv, Stages

(* Who has what when: a request holds its call, a query's handler has seen  *)
(* its path and numbers, an answer is an error or what was asked for.       *)
THEOREM WireInvariant == Spec => []WireInv
<1>1. ASSUME WireInv, [Next]_vars PROVE WireInv'
  <2>1. CASE SendQuery \/ SendBody
    BY <1>1, <2>1, SendInv
  <2>2. CASE DecodeQueryC \/ DecodeQueryLibrary
    BY <1>1, <2>2, DecodeQueryInv
  <2>3. CASE DecodeBodyC \/ DecodeBodyLibrary
    BY <1>1, <2>3, DecodeBodyInv
  <2>4. CASE Succeed \/ Refuse
    BY <1>1, <2>4, AnswerInv
  <2>5. CASE ReadAnswer
    BY <1>1, <2>5, ReadInv
  <2>6. CASE UNCHANGED vars
    BY <1>1, <2>6, StutterInv
  <2> QED
    BY <1>1, <2>1, <2>2, <2>3, <2>4, <2>5, <2>6 DEF Next, Returned
<1> QED
  BY <1>1, InitInv, PTL DEF Spec

-----------------------------------------------------------------------------
(* What the caller gets *)

Fields == {"ok", "errno", "entries", "type", "nums", "tokens"}

(* the result before the tokens are counted *)
Outcome(p) ==
    LET t == p.tokens
        status == Value(t, 1, "status")
        errno  == Value(t, 1, "errno")
    IN  IF p.error \/ t = <<>> THEN [NoResult EXCEPT !.errno = "EIO"]
        ELSE IF t[1].type # "object" \/ status = NoToken THEN [NoResult EXCEPT !.errno = "EIO"]
        ELSE IF TextOf(t, status) = <<"ok">>
          THEN CASE call.op = "list"  -> ListResult(t)
                 [] call.op = "meta"  -> MetaResult(t)
                 [] call.op = "write" -> WriteResult(t)
                 [] call.op = "read"  -> [NoResult EXCEPT !.errno = "EIO"]
                 [] OTHER             -> [NoResult EXCEPT !.ok = TRUE]
        ELSE IF TextOf(t, status) = <<"error">> /\ errno # NoToken
          THEN [NoResult EXCEPT !.errno = TextOf(t, errno)[1]]
        ELSE [NoResult EXCEPT !.errno = "EIO"]

LEMMA JsonResultIs ==
  LET p == jsmn_parse(response, Allowed(call.op)) IN
  JsonResult = [Outcome(p) EXCEPT !.tokens = Len(p.tokens)]
BY Zenon DEF JsonResult, Outcome

LEMMA FailedField ==
  ASSUME NEW e
  PROVE  LET r == [NoResult EXCEPT !.errno = e] IN
         DOMAIN r = Fields /\ r.ok = FALSE /\ r.errno = e /\ r.tokens = 0
BY DEF NoResult, Fields

LEMMA OkField ==
  LET r == [NoResult EXCEPT !.ok = TRUE] IN DOMAIN r = Fields /\ r.ok = TRUE /\ r.tokens = 0
BY DEF NoResult, Fields

LEMMA EntriesField ==
  ASSUME NEW e
  PROVE  LET r == [NoResult EXCEPT !.ok = TRUE, !.entries = e] IN
         DOMAIN r = Fields /\ r.ok = TRUE /\ r.entries = e
BY DEF NoResult, Fields

LEMMA MetaField ==
  ASSUME NEW a, NEW b
  PROVE  LET r == [NoResult EXCEPT !.ok = TRUE, !.type = a, !.nums = b] IN
         DOMAIN r = Fields /\ r.ok = TRUE /\ r.type = a /\ r.nums = b
BY DEF NoResult, Fields

LEMMA TokensField ==
  ASSUME NEW r, DOMAIN r = Fields, NEW n
  PROVE  LET q == [r EXCEPT !.tokens = n] IN
         /\ q.tokens = n /\ q.ok = r.ok /\ q.errno = r.errno /\ q.entries = r.entries
         /\ q.type = r.type /\ q.nums = r.nums
BY DEF Fields

LEMMA ListFields == ASSUME NEW t PROVE DOMAIN ListResult(t) = Fields
<1> DEFINE fail(e) == [NoResult EXCEPT !.errno = e]
           array == Value(t, 1, "entries")
           objects == EntryTokens(t, array)
           en == [i \in DOMAIN objects |-> Entry(t, objects[i])]
           got == [i \in DOMAIN en |-> [name |-> en[i].name, type |-> en[i].type]]
           made == [NoResult EXCEPT !.ok = TRUE, !.entries = got]
<1>1. DOMAIN fail("EIO") = Fields /\ DOMAIN fail("ENOBUFS") = Fields
  BY FailedField
<1>2. DOMAIN made = Fields
  BY EntriesField
<1>3. ListResult(t) = fail("EIO") \/ ListResult(t) = fail("ENOBUFS") \/ ListResult(t) = made
  BY Zenon DEF ListResult
<1> HIDE DEF fail, made
<1> QED
  BY <1>1, <1>2, <1>3, Zenon

LEMMA MetaFields == ASSUME NEW t PROVE DOMAIN MetaResult(t) = Fields
<1> DEFINE fail(e) == [NoResult EXCEPT !.errno = e]
           meta == Value(t, 1, "meta")
           at(key) == Value(t, meta, key)
           made == [NoResult EXCEPT !.ok = TRUE, !.type = TextOf(t, at("type")), !.nums = TextOf(t, at("size"))]
<1>1. DOMAIN fail("EIO") = Fields
  BY FailedField
<1>2. DOMAIN made = Fields
  BY MetaField
<1>3. MetaResult(t) = fail("EIO") \/ MetaResult(t) = made
  BY Zenon DEF MetaResult
<1> HIDE DEF fail, made
<1> QED
  BY <1>1, <1>2, <1>3, Zenon

LEMMA WriteFields == ASSUME NEW t PROVE DOMAIN WriteResult(t) = Fields
<1> DEFINE fail(e) == [NoResult EXCEPT !.errno = e]
           made == [NoResult EXCEPT !.ok = TRUE]
<1>1. DOMAIN fail("EIO") = Fields
  BY FailedField
<1>2. DOMAIN made = Fields
  BY OkField
<1>3. WriteResult(t) = fail("EIO") \/ WriteResult(t) = made
  BY Zenon DEF WriteResult
<1> HIDE DEF fail, made
<1> QED
  BY <1>1, <1>2, <1>3, Zenon

LEMMA OutcomeFields == ASSUME NEW p PROVE DOMAIN Outcome(p) = Fields
<1> DEFINE fail(e) == [NoResult EXCEPT !.errno = e]
           t == p.tokens
           made == [NoResult EXCEPT !.ok = TRUE]
           err == fail(TextOf(t, Value(t, 1, "errno"))[1])
<1>1. DOMAIN fail("EIO") = Fields /\ DOMAIN err = Fields /\ DOMAIN made = Fields
  BY FailedField, OkField
<1>2. DOMAIN ListResult(t) = Fields /\ DOMAIN MetaResult(t) = Fields /\ DOMAIN WriteResult(t) = Fields
  BY ListFields, MetaFields, WriteFields
<1>3. \/ Outcome(p) = fail("EIO") \/ Outcome(p) = err \/ Outcome(p) = made
      \/ Outcome(p) = ListResult(t) \/ Outcome(p) = MetaResult(t) \/ Outcome(p) = WriteResult(t)
  BY DEF Outcome
<1> HIDE DEF fail, err, made
<1> QED
  BY <1>1, <1>2, <1>3, Zenon

(* The fields of JsonResult *)
LEMMA JsonFields ==
  ASSUME NEW p, p = jsmn_parse(response, Allowed(call.op))
  PROVE  /\ JsonResult.tokens = Len(p.tokens) /\ JsonResult.ok = Outcome(p).ok
         /\ JsonResult.errno = Outcome(p).errno /\ JsonResult.entries = Outcome(p).entries
         /\ JsonResult.type = Outcome(p).type /\ JsonResult.nums = Outcome(p).nums
<1> DEFINE r == Outcome(p)
<1>1. JsonResult = [r EXCEPT !.tokens = Len(p.tokens)]
  BY JsonResultIs
<1>2. DOMAIN r = Fields
  BY OutcomeFields
<1> HIDE DEF r
<1> QED
  BY <1>1, <1>2, TokensField DEF r

LEMMA Rooms ==
  ASSUME NEW op
  PROVE  /\ TokenArray(op) \in Nat /\ TokenArray(op) >= 7 /\ Allowed(op) \in Nat /\ Allowed(op) >= 7
         /\ op \in {"list", "meta", "read"} => Allowed(op) <= TokenArray(op)
<1> DEFINE h == MaxTokens \div 2
           q == MaxTokens \div 4
<1>1. MaxTokens \in Nat /\ q >= 7 /\ h \in Nat /\ q \in Nat /\ h >= q /\ MaxTokens >= h
  BY Sizes
<1>2. TokenArray(op) = IF op = "list" THEN 2 * MaxTokens ELSE IF op = "meta" THEN MaxTokens
                       ELSE IF op \in {"read", "write"} THEN h ELSE q
  BY DEF TokenArray
<1>3. Allowed(op) = IF op = "read" THEN TokenArray(op) ELSE MaxTokens
  BY DEF Allowed
<1> HIDE DEF h, q
<1> QED
  BY <1>1, <1>2, <1>3

LEMMA FlatThree ==
  ASSUME NEW max \in Nat, max >= 7, NEW ms, GoodAll(ms), Len(ms) = 3
  PROVE  /\ jsmn_parse(Line(Pieces(ms)), max).error = FALSE
         /\ FlatAnswer(Line(Pieces(ms)), jsmn_parse(Line(Pieces(ms)), max).tokens, ms)
         /\ Len(jsmn_parse(Line(Pieces(ms)), max).tokens) = 7
<1> DEFINE text == Line(Pieces(ms))
<1>1. \E t : FlatAnswer(text, t, ms) /\ ParseIs(text, max, t)
  BY FlatLine
<1>2. PICK t : FlatAnswer(text, t, ms) /\ ParseIs(text, max, t)
  BY <1>1
<1> HIDE DEF text
<1>3. Len(t) = 7
  BY <1>2 DEF FlatAnswer
<1>4. jsmn_parse(text, max).error = FALSE /\ jsmn_parse(text, max).tokens = t
  BY <1>2, <1>3 DEF ParseIs
<1> QED
  BY <1>2, <1>3, <1>4 DEF text

LEMMA FlatOne ==
  ASSUME NEW max \in Nat, max >= 3, NEW ms, GoodAll(ms), Len(ms) = 1
  PROVE  /\ jsmn_parse(Line(Pieces(ms)), max).error = FALSE
         /\ FlatAnswer(Line(Pieces(ms)), jsmn_parse(Line(Pieces(ms)), max).tokens, ms)
         /\ Len(jsmn_parse(Line(Pieces(ms)), max).tokens) = 3
<1> DEFINE text == Line(Pieces(ms))
<1>1. \E t : FlatAnswer(text, t, ms) /\ ParseIs(text, max, t)
  BY FlatLine
<1>2. PICK t : FlatAnswer(text, t, ms) /\ ParseIs(text, max, t)
  BY <1>1
<1> HIDE DEF text
<1>3. Len(t) = 3
  BY <1>2 DEF FlatAnswer
<1>4. jsmn_parse(text, max).error = FALSE /\ jsmn_parse(text, max).tokens = t
  BY <1>2, <1>3 DEF ParseIs
<1> QED
  BY <1>2, <1>3, <1>4 DEF text

LEMMA DirText ==
  ASSUME Fixed
  PROVE  IsText(dir) /\ \A i \in 1 .. Len(dir) : IsText(dir[i].name) /\ dir[i].type \in {"dir", "file"}
<1>1. CASE dir = <<>>
  BY <1>1, EmptyText
<1>2. CASE dir \in Dirs
  <2>1. dir \in Seq([name : Seq(STRING), type : {"dir", "file"}])
    BY <1>2, WireAssumption
  <2>2. IsText(dir)
    BY <2>1, SeqIsText
  <2>3. ASSUME NEW i \in 1 .. Len(dir)
        PROVE  IsText(dir[i].name) /\ dir[i].type \in {"dir", "file"}
    <3>1. dir[i] \in [name : Seq(STRING), type : {"dir", "file"}]
      <4> DEFINE E == [name : Seq(STRING), type : {"dir", "file"}]
      <4> HIDE DEF E
      <4>1. dir \in Seq(E)
        BY <2>1 DEF E
      <4>2. dir[i] \in E
        BY <4>1
      <4> QED
        BY <4>2 DEF E
    <3>2. dir[i].name \in Seq(STRING) /\ dir[i].type \in {"dir", "file"}
      BY <3>1
    <3> QED
      BY <3>2, SeqIsText
  <2> QED
    BY <2>2, <2>3
<1> QED
  BY <1>1, <1>2 DEF Fixed

LEMMA SeenText ==
  ASSUME Fixed, SeenQuery
  PROVE  IsText(seen.path)
<1>1. IsText(call.path)
  BY CallIsGood DEF Fixed, GoodCall
<1>2. IsText(Replaced(call.path))
  <2> DEFINE s == call.path
             r == Replaced(s)
  <2>1. Len(s) \in Nat /\ DOMAIN s = 1 .. Len(s)
    BY <1>1 DEF IsText
  <2> HIDE DEF s
  <2>2. r \in Seq({r[i] : i \in 1 .. Len(s)})
    BY <2>1 DEF Replaced
  <2> QED
    BY <2>2, SeqIsText DEF s
<1>3. seen.path = IF provider = "python" THEN Replaced(call.path) ELSE call.path
  BY DEF SeenQuery
<1> QED
  BY <1>1, <1>2, <1>3

LEMMA AnswerTokens ==
  ASSUME Fixed, Refused \/ Granted, ~(call.op = "read" /\ answer.ok)
  PROVE  JsonResult.tokens <= TokenArray(call.op)
<1> DEFINE max == Allowed(call.op)
           p == jsmn_parse(response, max)
           n == Len(p.tokens)
<1>1. JsonResult.tokens = n
  BY JsonFields
<1>2. /\ max \in Nat /\ max >= 7 /\ TokenArray(call.op) \in Nat /\ TokenArray(call.op) >= 7
      /\ call.op \in {"list", "meta", "read"} => max <= TokenArray(call.op)
  BY Rooms
<1> HIDE DEF max
<1>3. ASSUME NEW ms, GoodAll(ms), Len(ms) = 3, response = Line(Pieces(ms))
      PROVE  n <= TokenArray(call.op)
  <2>2. n = 7
    BY <1>2, <1>3, FlatThree
  <2> HIDE DEF n
  <2> QED
    BY <1>2, <2>2
<1>4. CASE Refused
  <2>1. PICK errno \in ErrorCodes : response = ErrorText(errno)
    BY <1>4 DEF Refused
  <2>2. Plain(errno)
    BY PlainWords DEF ErrorCodes
  <2> QED
    BY <1>1, <1>3, <2>1, <2>2, ErrorTextIs
<1>5. CASE Granted
  <2>1. response = OkText /\ (call.op \in Query => SeenQuery) /\ call.op # "read"
    BY <1>5 DEF Granted
  <2>2. CASE call.op = "write"
    <3>1. response = WriteText
      BY <2>1, <2>2 DEF OkText
    <3> QED
      BY <1>1, <1>3, <3>1, WriteTextIs
  <2>3. CASE call.op \in {"list", "meta"}
    <3>1. IsText(response)
      <4>1. CASE call.op = "list"
        <5>1. response = ListText
          BY <2>1, <4>1 DEF OkText
        <5> QED
          BY <5>1, DirText, ListTextText
      <4>2. CASE call.op = "meta"
        <5>1. response = MetaText /\ SeenQuery
          BY <2>1, <4>2 DEF OkText, Query
        <5> QED
          BY <5>1, SeenText, MetaTextText
      <4> QED
        BY <2>3, <4>1, <4>2
    <3>2. Within(p, max)
      BY <1>2, <3>1, ParseWithin DEF IsText
    <3>3. n <= max /\ n \in Nat
      BY <3>2 DEF Within, Parsers
    <3> HIDE DEF n
    <3> QED
      BY <1>1, <1>2, <2>3, <3>3
  <2>4. CASE call.op \notin {"list", "meta", "read", "write"}
    <3>1. response = Line(<<StatusOk>>)
      BY <2>1, <2>4 DEF OkText
    <3> DEFINE ms == <<StatusIs("ok")>>
    <3>2. response = Line(Pieces(ms)) /\ GoodAll(ms) /\ Len(ms) = 1
      BY <3>1, OkTextIs
    <3> HIDE DEF ms
    <3>3. max >= 3
      BY <1>2
    <3>4. n = 3
      BY <1>2, <3>2, <3>3, FlatOne
    <3> HIDE DEF n
    <3> QED
      BY <1>1, <1>2, <3>4
  <2> QED
    BY <2>1, <2>2, <2>3, <2>4
<1> QED
  BY <1>4, <1>5

(* jsmn never gets to write past the jsmntok_t array of the call, for any   *)
(* call, directory and provider: the answers to calls with short arrays     *)
(* have at most 7 tokens, the others are limited by what jsmn is allowed.   *)
THEOREM TokensAlwaysFit == Spec => []TokensFit
<1>1. ASSUME Init PROVE TokensFit
  <2>1. result.tokens = 0
    BY <1>1 DEF Init, NoResult
  <2> QED
    BY <2>1, Rooms DEF TokensFit
<1>2. ASSUME WireInv, TokensFit, [Next]_vars PROVE TokensFit'
  <2>1. call' = call
    BY <1>2 DEF Next, vars, SendQuery, SendBody, DecodeQueryC, DecodeBodyC, DecodeQueryLibrary,
                DecodeBodyLibrary, Succeed, Refuse, ReadAnswer, Returned
  <2>2. TokenArray(call.op) \in Nat /\ TokenArray(call.op)' = TokenArray(call.op)
    BY <2>1, Rooms DEF TokenArray
  <2>3. ASSUME result' = result PROVE TokensFit'
    BY <1>2, <2>2, <2>3 DEF TokensFit
  <2>4. ASSUME result'.tokens = 0 PROVE TokensFit'
    BY <2>2, <2>4 DEF TokensFit
  <2>5. CASE SendQuery \/ SendBody
    <3>1. result' = result \/ result'.tokens = 0
      BY <2>5, FailedField DEF SendQuery, SendBody, Fails, Return
    <3> QED
      BY <2>3, <2>4, <3>1
  <2>6. CASE ReadAnswer
    <3>1. CASE call.op = "read" /\ answer.ok
      <4>1. result'.tokens = 0
        BY <2>6, <3>1, OkField DEF ReadAnswer, Return
      <4> QED
        BY <2>4, <4>1
    <3>2. CASE ~(call.op = "read" /\ answer.ok)
      <4>1. result' = JsonResult
        BY <2>6, <3>2 DEF ReadAnswer, Return
      <4>2. Fixed /\ (Refused \/ Granted)
        BY <1>2, <2>6 DEF WireInv, ReadAnswer
      <4>3. JsonResult.tokens <= TokenArray(call.op)
        BY <3>2, <4>2, AnswerTokens
      <4> QED
        BY <2>2, <4>1, <4>3 DEF TokensFit
    <3> QED
      BY <3>1, <3>2
  <2>7. CASE result' = result
    BY <2>3, <2>7
  <2> QED
    BY <1>2, <2>5, <2>6, <2>7 DEF Next, vars, DecodeQueryC, DecodeBodyC, DecodeQueryLibrary,
                DecodeBodyLibrary, Succeed, Refuse, Returned
<1> QED
  BY <1>1, <1>2, WireInvariant, PTL DEF Spec

-----------------------------------------------------------------------------
(* Answers with an object or an array inside *)

LEMMA TwoHas ==
  ASSUME NEW a, NEW b, IsText(a), IsText(b), NEW text, Len(text) \in Nat, NEW n \in Nat,
         Has(text, n, Object(<<a, b>>))
  PROVE  /\ Has(text, n, <<"lbrace">>) /\ Has(text, n + 1, a) /\ Has(text, (n + 1) + Len(a), <<"comma">>)
         /\ Has(text, ((n + 1) + Len(a)) + 1, b)
         /\ Has(text, (((n + 1) + Len(a)) + 1) + Len(b), <<"rbrace">>)
         /\ Len(Object(<<a, b>>)) = (((1 + Len(a)) + 1) + Len(b)) + 1
<1> DEFINE parts == <<a, b>>
           c == Commas(parts)
<1>1. IsText(parts) /\ Len(parts) = 2 /\ parts[1] = a /\ parts[2] = b
  BY TwoText, Zenon
<1>2. Object(parts) = <<"lbrace">> \o c \o <<"rbrace">>
  BY DEF Object
<1> HIDE DEF parts
<1>3. Len(parts) # 0 /\ \A i \in 1 .. Len(parts) : IsText(parts[i])
  BY <1>1
<1>4. IsText(c) /\ Len(c) \in Nat /\ Len(a) \in Nat /\ Len(b) \in Nat
  BY <1>1, <1>3, CommasText DEF IsText
<1> HIDE DEF c
<1>5. Has(text, n, Object(parts))
  BY DEF parts
<1>6. Has(text, n, <<"lbrace">>) /\ Has(text, n + 1, c) /\ Has(text, (n + 1) + Len(c), <<"rbrace">>)
      /\ Len(Object(parts)) = Len(c) + 2
  <2>1. Len(Object(parts)) = Len(c) + 2
    BY <1>2, <1>4, BracketsHas
  <2>2. Has(text, n, <<"lbrace">>) /\ Has(text, n + 1, c) /\ Has(text, (n + 1) + Len(c), <<"rbrace">>)
    BY <1>2, <1>4, <1>5, BracketsHas, Zenon
  <2> QED
    BY <2>1, <2>2
<1>7. n + 1 \in Nat /\ Has(text, n + 1, Commas(parts))
  BY <1>6 DEF c
<1>8. PICK at : Separated(text, parts, n + 1, at)
  BY <1>1, <1>3, <1>7, CommasHas, Zenon
<1>9. /\ at[1] = n + 1 /\ Has(text, at[1], parts[1]) /\ Has(text, at[2], parts[2])
      /\ at[2] + Len(parts[2]) = (n + 1) + Len(c)
      /\ Has(text, at[1] + Len(parts[1]), <<"comma">>) /\ at[2] = (at[1] + Len(parts[1])) + 1
  <2>1. 1 \in 1 .. Len(parts) /\ 2 \in 1 .. Len(parts) /\ 1 \in 1 .. Len(parts) - 1 /\ 1 + 1 = 2
    BY <1>1
  <2> QED
    BY <1>1, <1>8, <2>1 DEF Separated, c
<1>10. Len(c) = ((Len(a) + 1) + Len(b)) /\ (n + 1) + Len(c) = (((n + 1) + Len(a)) + 1) + Len(b)
  BY <1>1, <1>4, <1>9
<1>11. Len(c) + 2 = (((1 + Len(a)) + 1) + Len(b)) + 1
  BY <1>4, <1>10
<1> QED
  BY <1>1, <1>6, <1>9, <1>10, <1>11 DEF parts

(* a value was read as token Len(tk) + 1, c more are inside it *)
ValueAt(text, max, n, hi, su, tk, tk2, kind, c) ==
    /\ At(text, max, hi, su, tk2) /\ Grown(tk, tk2, 1 + c) /\ c \in Nat /\ hi \in Nat /\ n < hi
    /\ tk2[Len(tk) + 1] = Token(kind, n + 1, hi + 1, su) /\ Finished(tk2, Len(tk))
    /\ \A j \in Len(tk) + 2 .. Len(tk2) : tk2[j].start <= hi

(* The tokens up to a value in the outer object: the object itself and one  *)
(* or two keys                                                              *)
Top1 == Token("object", 1, 0, 0)
Outer(tk) == tk \in Seq(Tokens) /\ Len(tk) \in 1 .. 5 /\ tk[1] = Top1 /\ Finished(tk, 1)
             /\ \A j \in 1 .. Len(tk) : tk[j].parent <= 1

LEMMA OuterOpen ==
  ASSUME NEW max \in Nat, NEW text, IsText(text), Has(text, 0, <<"lbrace">>)
  PROVE  At(text, max, 1, 1, <<Top1>>) /\ Outer(<<Top1>>) /\ Len(<<Top1>>) = 1
<1>0. Len(text) \in Nat
  BY DEF IsText
<1>1. At(text, max, 0, 0, <<>>)
  BY <1>0, AtStart
<1>2. At(text, max, 0 + 1, Len(<<>>) + 1, Append(<<>>, Token("object", 0 + 1, 0, 0)))
  BY <1>0, <1>1, AtOpen
<1>3. 0 + 1 = 1 /\ Len(<<>>) + 1 = 1
  OBVIOUS
<1>4. At(text, max, 1, 1, Append(<<>>, Top1))
  BY <1>2, <1>3 DEF Top1
<1>5. Top1 \in Tokens /\ Top1.parent = 0
  BY DEF Top1, Token, Tokens, Kinds
<1> HIDE DEF Top1
<1>6. Append(<<>>, Top1) = <<Top1>> /\ <<Top1>> \in Seq(Tokens) /\ Len(<<Top1>>) = 1 /\ <<Top1>>[1] = Top1
  BY <1>5
<1>7. Outer(<<Top1>>)
  <2>1. \A j \in 1 .. Len(<<Top1>>) : j = 1
    BY <1>6
  <2>2. Finished(<<Top1>>, 1)
    BY <2>1 DEF Finished
  <2>3. \A j \in 1 .. Len(<<Top1>>) : <<Top1>>[j].parent <= 1
    BY <1>5, <1>6, <2>1
  <2> QED
    BY <1>6, <2>2, <2>3 DEF Outer
<1> QED
  BY <1>4, <1>6, <1>7

LEMMA StatusLen == Len(StatusOk) = 7
<1> DEFINE v == <<"ok">>
<1>1. IsText(v) /\ Len(v) = 1
  BY WordText
<1> DEFINE q == Quoted(v)
<1>0. StatusOk = Member("status", q)
  BY DEF StatusOk
<1> HIDE DEF v
<1>2. IsText(q) /\ Len(q) = Len(v) + 2
  BY <1>1, QuotedText, Zenon
<1> HIDE DEF q
<1>3. IsText(Member("status", q)) /\ Len(Member("status", q)) = 4 + Len(q)
  BY <1>2, AnyMemberText, Zenon
<1> QED
  BY <1>0, <1>1, <1>2, <1>3

LEMMA StatusRead ==
  ASSUME NEW max \in Nat, NEW text, IsText(text), NEW n \in Nat, NEW su, NEW tk,
         At(text, max, n, su, tk), Has(text, n, StatusOk)
  PROVE  /\ Len(StatusOk) = 7
         /\ \E tk2 \in Seq(Tokens) :
              /\ Pending(text, max, n + 7, su, tk2) /\ Grown(tk, tk2, 2)
              /\ Pair(text, tk2, Len(tk) + 1, su, "status", "string", <<"ok">>, n, n + 7)
              /\ tk2[Len(tk) + 1].end # 0 /\ tk2[Len(tk) + 2].end # 0
<1> DEFINE r == R("status", "string", <<"ok">>)
           v == <<"ok">>
<1>1. Good(r.key, r.kind, r.v) /\ M(r.key, r.kind, r.v) = Member("status", Quoted(<<"ok">>))
  BY StringGood
<1>2. r.key = "status" /\ r.kind = "string" /\ r.v = v
  BY PieceOf
<1>3. Good("status", "string", v) /\ M("status", "string", v) = StatusOk
  BY <1>1, <1>2 DEF StatusOk
<1>4. Len(StatusOk) = 7
  BY StatusLen
<1> HIDE DEF r, v
<1>5. ASSUME NEW hi, hi = n + Len(M("status", "string", v))
      PROVE  \E tk2 \in Seq(Tokens) :
              /\ Pending(text, max, hi, su, tk2) /\ Grown(tk, tk2, 2)
              /\ Pair(text, tk2, Len(tk) + 1, su, "status", "string", v, n, hi)
              /\ tk2[Len(tk) + 1].end # 0 /\ tk2[Len(tk) + 2].end # 0
  <2> DEFINE key == "status"
             kind == "string"
  <2>1. Has(text, n, M(key, kind, v)) /\ Good(key, kind, v) /\ hi = n + Len(M(key, kind, v))
    BY <1>3, <1>5
  <2> HIDE DEF key, kind
  <2>2. \E tk2 \in Seq(Tokens) :
              /\ Pending(text, max, hi, su, tk2) /\ Grown(tk, tk2, 2)
              /\ Pair(text, tk2, Len(tk) + 1, su, key, kind, v, n, hi)
              /\ tk2[Len(tk) + 1].end # 0 /\ tk2[Len(tk) + 2].end # 0
    BY <2>1, MemberRead
  <2> QED
    BY <2>2 DEF key, kind
<1> QED
  BY <1>3, <1>4, <1>5 DEF v

LEMMA KeyText ==
  ASSUME NEW text, IsText(text), NEW n \in Nat, NEW key, Has(text, n + 1, <<key>>), NEW su
  PROVE  TokenText(text, Token("string", n + 2, n + 3, su)) = <<key>>
<1> DEFINE x == <<key>>
           m == n + 1
           s == "string"
<1>1. Has(text, m, x) /\ IsText(x) /\ m \in Nat
  BY WordText
<1>2. m + 1 = n + 2 /\ (m + 1) + Len(x) = n + 3
  BY WordText
<1> HIDE DEF x, m, s
<1>3. TokenText(text, Token(s, m + 1, (m + 1) + Len(x), su)) = x
  BY <1>1, TextOfToken
<1> QED
  BY <1>2, <1>3 DEF x, s

AfterKey(text, max, n, tk, key, v, tk2) ==
    /\ At(text, max, n + 4, 1, tk2) /\ Has(text, n + 4, v) /\ n + 4 \in Nat
    /\ Outer(tk2) /\ Grown(tk, tk2, 1) /\ tk2[Len(tk) + 1] = Token("string", n + 2, n + 3, 1)
    /\ TokenText(text, tk2[Len(tk) + 1]) = <<key>>

LEMMA KeyRead ==
  ASSUME NEW max \in Nat, NEW text, IsText(text), NEW n \in Nat, NEW tk, Outer(tk), Len(tk) \in 1 .. 4,
         At(text, max, n, 1, tk), NEW key, key \notin {"quote", "bslash"}, NEW v, IsText(v),
         Has(text, n, Member(key, v))
  PROVE  \E tk2 : AfterKey(text, max, n, tk, key, v, tk2)
<1> DEFINE k == Token("string", n + 2, n + 3, 1)
           tk2 == Append(tk, k)
           x == <<key>>
           m == n + 1
<1>1. Len(text) \in Nat
  BY DEF IsText
<1>2. At(text, max, n + 4, 1, tk2) /\ Has(text, n + 4, v) /\ Has(text, m, x) /\ n + 4 \in Nat
  BY <1>1, AtKey
<1>3. tk \in Seq(Tokens) /\ Len(tk) \in 1 .. 4 /\ tk[1] = Top1 /\ Finished(tk, 1) /\ \A j \in 1 .. Len(tk) : tk[j].parent <= 1
  BY Zenon DEF Outer
<1>4. k = Token("string", n + 2, n + 3, 1) /\ "string" \in Kinds /\ n + 2 \in Nat /\ n + 3 \in Nat /\ 1 \in Nat
  BY DEF Kinds
<1>5. k.end = n + 3 /\ k.parent = 1
  BY DEF Token
<1>6. TokenText(text, k) = <<key>>
  BY <1>2, KeyText
<1> HIDE DEF k
<1>7. /\ tk2 \in Seq(Tokens) /\ Len(tk2) = Len(tk) + 1 /\ Len(tk) \in Nat
      /\ tk2[Len(tk) + 1] = k /\ \A i \in 1 .. Len(tk) : tk2[i] = tk[i]
  BY <1>3, <1>4, OneMore
<1> HIDE DEF tk2
<1>8. Grown(tk, tk2, 1)
  BY <1>3, <1>7, Zenon DEF Grown
<1>9. Outer(tk2)
  <2>1. \A j \in 1 .. Len(tk2) : j \in 1 .. Len(tk) \/ j = Len(tk) + 1
    BY <1>7
  <2>2. Finished(tk2, 1)
    BY <1>3, <1>5, <1>7, <2>1 DEF Finished
  <2>3. \A j \in 1 .. Len(tk2) : tk2[j].parent <= 1
    BY <1>3, <1>5, <1>7, <2>1
  <2>4. Len(tk2) \in 1 .. 5 /\ tk2[1] = Top1
    BY <1>3, <1>7
  <2> QED
    BY <1>7, <2>2, <2>3, <2>4 DEF Outer
<1>10. AfterKey(text, max, n, tk, key, v, tk2)
  BY <1>2, <1>4, <1>6, <1>7, <1>8, <1>9 DEF AfterKey
<1> QED
  BY <1>10, Zenon

(* The parser after "status":"ok" and the key of the other member (C), ... *)
FirstParts(key, v) == <<StatusOk, Member(key, v)>>
FirstOpened(text, max, key, v, tk) ==
    /\ IsText(text) /\ At(text, max, 13, 1, tk) /\ Has(text, 13, v) /\ Outer(tk) /\ Len(tk) = 4
    /\ Pair(text, tk, 2, 1, "status", "string", <<"ok">>, 1, 8)
    /\ tk[4] = Token("string", 11, 12, 1) /\ TokenText(text, tk[4]) = <<key>>
    /\ Has(text, 13 + Len(v), <<"rbrace">>)

LEMMA StatusFirst ==
  ASSUME NEW max \in Nat, NEW key, key \notin {"quote", "bslash"}, NEW v, IsText(v)
  PROVE  /\ IsText(Object(FirstParts(key, v))) /\ Len(Object(FirstParts(key, v))) = 14 + Len(v)
         /\ \E tk : FirstOpened(Line(FirstParts(key, v)), max, key, v, tk)
<1> DEFINE parts == FirstParts(key, v)
           text == Line(parts)
           K == Member(key, v)
           S == StatusOk
<1>1. IsText(S) /\ IsText(K) /\ Len(K) = 4 + Len(v) /\ Len(v) \in Nat
  <2>1. IsText(K) /\ Len(K) = 4 + Len(v)
    BY AnyMemberText, Zenon
  <2> QED
    BY <2>1, StatusOkText DEF IsText
<1>2. parts = <<S, K>> /\ IsText(Object(<<S, K>>))
  BY <1>1, ObjectOfTwo DEF FirstParts
<1> HIDE DEF S, K
<1>3. IsText(Object(parts))
  BY <1>2
<1> HIDE DEF parts
<1>4. IsText(text) /\ Has(text, 0, Object(parts))
  BY <1>3, LineText, Zenon
<1> HIDE DEF text
<1>5. Len(text) \in Nat /\ 0 \in Nat /\ Has(text, 0, Object(<<S, K>>))
  BY <1>2, <1>4 DEF IsText
<1>6. /\ Has(text, 0, <<"lbrace">>) /\ Has(text, 0 + 1, S) /\ Has(text, (0 + 1) + Len(S), <<"comma">>)
      /\ Has(text, ((0 + 1) + Len(S)) + 1, K)
      /\ Has(text, (((0 + 1) + Len(S)) + 1) + Len(K), <<"rbrace">>)
      /\ Len(Object(<<S, K>>)) = (((1 + Len(S)) + 1) + Len(K)) + 1
  BY <1>1, <1>5, TwoHas, Zenon
<1> DEFINE tk1 == <<Top1>>
<1>7. At(text, max, 1, 1, tk1) /\ Outer(tk1) /\ Len(tk1) = 1
  BY <1>4, <1>6, OuterOpen
<1> HIDE DEF tk1
<1>8. /\ Len(S) = 7
      /\ \E tk2 \in Seq(Tokens) :
              /\ Pending(text, max, 1 + 7, 1, tk2) /\ Grown(tk1, tk2, 2)
              /\ Pair(text, tk2, Len(tk1) + 1, 1, "status", "string", <<"ok">>, 1, 1 + 7)
              /\ tk2[Len(tk1) + 1].end # 0 /\ tk2[Len(tk1) + 2].end # 0
  <2> DEFINE n == 1
             su == 1
  <2>1. Has(text, n, StatusOk) /\ n \in Nat /\ At(text, max, n, su, tk1)
    BY <1>6, <1>7 DEF S
  <2> HIDE DEF n, su
  <2>2. /\ Len(StatusOk) = 7
        /\ \E tk2 \in Seq(Tokens) :
              /\ Pending(text, max, n + 7, su, tk2) /\ Grown(tk1, tk2, 2)
              /\ Pair(text, tk2, Len(tk1) + 1, su, "status", "string", <<"ok">>, n, n + 7)
              /\ tk2[Len(tk1) + 1].end # 0 /\ tk2[Len(tk1) + 2].end # 0
    BY <1>4, <2>1, StatusRead
  <2> QED
    BY <2>2, Zenon DEF S, n, su
<1>9. PICK tk2 \in Seq(Tokens) : /\ Pending(text, max, 8, 1, tk2) /\ Grown(tk1, tk2, 2)
                                 /\ Pair(text, tk2, 2, 1, "status", "string", <<"ok">>, 1, 8)
                                 /\ tk2[2].end # 0 /\ tk2[3].end # 0
  <2>1. 1 + 7 = 8 /\ Len(tk1) + 1 = 2 /\ Len(tk1) + 2 = 3
    BY <1>7
  <2> QED
    BY <1>8, <2>1
<1>10. /\ Has(text, 8, <<"comma">>) /\ Has(text, 9, K) /\ Has(text, 13 + Len(v), <<"rbrace">>)
       /\ Len(Object(<<S, K>>)) = 14 + Len(v)
  <2>1. /\ (0 + 1) + Len(S) = 8 /\ ((0 + 1) + Len(S)) + 1 = 9
        /\ (((0 + 1) + Len(S)) + 1) + Len(K) = 13 + Len(v)
        /\ (((1 + Len(S)) + 1) + Len(K)) + 1 = 14 + Len(v)
    BY <1>1, <1>8
  <2> QED
    BY <1>6, <2>1
<1>11. At(text, max, 8 + 1, 1, tk2)
  BY <1>5, <1>9, <1>10, PendingComma
<1>12. Outer(tk2) /\ Len(tk2) = 3
  <2>1. tk1 \in Seq(Tokens) /\ tk1[1] = Top1 /\ tk1[1].parent <= 1
    BY <1>7 DEF Outer
  <2>2. Len(tk2) = 3 /\ tk2[1] = tk1[1]
    BY <1>7, <1>9 DEF Grown
  <2>3. \A j \in 1 .. Len(tk2) : j = 1 \/ j = 2 \/ j = 3
    BY <2>2
  <2>4. tk2[2].parent = 1 /\ tk2[3].parent = 1
    <3>1. tk2[2].parent = 1 /\ tk2[2 + 1].parent = 1
      BY <1>9, Zenon DEF Pair
    <3> QED
      BY <3>1
  <2>5. \A j \in 1 .. Len(tk2) : tk2[j].parent <= 1
    BY <2>1, <2>2, <2>3, <2>4
  <2>6. Finished(tk2, 1)
    BY <1>9, <2>3 DEF Finished
  <2> QED
    BY <1>9, <2>1, <2>2, <2>5, <2>6 DEF Outer
<1>13. 9 \in Nat /\ Len(tk2) \in 1 .. 4 /\ At(text, max, 9, 1, tk2) /\ Has(text, 9, Member(key, v))
  BY <1>10, <1>11, <1>12 DEF K
<1>14. PICK tk : /\ At(text, max, 9 + 4, 1, tk) /\ Has(text, 9 + 4, v)
                 /\ Outer(tk) /\ Grown(tk2, tk, 1) /\ tk[Len(tk2) + 1] = Token("string", 9 + 2, 9 + 3, 1)
                 /\ TokenText(text, tk[Len(tk2) + 1]) = <<key>>
  <2> DEFINE n == 9
  <2>1. n \in Nat /\ Len(tk2) \in 1 .. 4 /\ At(text, max, n, 1, tk2) /\ Has(text, n, Member(key, v))
    BY <1>13
  <2> HIDE DEF n
  <2>2. \E tk : AfterKey(text, max, n, tk2, key, v, tk)
    BY <1>4, <1>12, <2>1, KeyRead
  <2> QED
    BY <2>2, Zenon DEF n, AfterKey
<1>15. 9 + 4 = 13 /\ 9 + 2 = 11 /\ 9 + 3 = 12 /\ Len(tk2) + 1 = 4
  BY <1>12
<1>16. Len(tk) = 4
  BY <1>14, <1>15 DEF Grown
<1>17. Pair(text, tk, 2, 1, "status", "string", <<"ok">>, 1, 8)
  BY <1>9, <1>14, GrownPair
<1>18. FirstOpened(text, max, key, v, tk)
  BY <1>4, <1>10, <1>14, <1>15, <1>16, <1>17 DEF FirstOpened
<1> QED
  BY <1>2, <1>3, <1>10, <1>18 DEF text, parts

(* ... or only after the key (Go and Python) *)
LastParts(key, v) == <<Member(key, v), StatusOk>>
LastOpened(text, max, key, v, tk) ==
    /\ IsText(text) /\ At(text, max, 5, 1, tk) /\ Has(text, 5, v) /\ Outer(tk) /\ Len(tk) = 2
    /\ tk[2] = Token("string", 3, 4, 1) /\ TokenText(text, tk[2]) = <<key>>
    /\ Has(text, 5 + Len(v), <<"comma">>) /\ Has(text, 6 + Len(v), StatusOk)
    /\ Has(text, 13 + Len(v), <<"rbrace">>)

LEMMA StatusLast ==
  ASSUME NEW max \in Nat, NEW key, key \notin {"quote", "bslash"}, NEW v, IsText(v)
  PROVE  /\ IsText(Object(LastParts(key, v))) /\ Len(Object(LastParts(key, v))) = 14 + Len(v)
         /\ \E tk : LastOpened(Line(LastParts(key, v)), max, key, v, tk)
<1> DEFINE parts == LastParts(key, v)
           text == Line(parts)
           K == Member(key, v)
           S == StatusOk
<1>1. IsText(S) /\ IsText(K) /\ Len(K) = 4 + Len(v) /\ Len(v) \in Nat
  <2>1. IsText(K) /\ Len(K) = 4 + Len(v)
    BY AnyMemberText, Zenon
  <2> QED
    BY <2>1, StatusOkText DEF IsText
<1>2. parts = <<K, S>> /\ IsText(Object(<<K, S>>))
  BY <1>1, ObjectOfTwo DEF LastParts
<1>0. Len(S) = 7
  BY StatusLen
<1> HIDE DEF S, K
<1>3. IsText(Object(parts))
  BY <1>2
<1> HIDE DEF parts
<1>4. IsText(text) /\ Has(text, 0, Object(parts))
  BY <1>3, LineText, Zenon
<1> HIDE DEF text
<1>5. Len(text) \in Nat /\ 0 \in Nat /\ Has(text, 0, Object(<<K, S>>))
  BY <1>2, <1>4 DEF IsText
<1>6. /\ Has(text, 0, <<"lbrace">>) /\ Has(text, 0 + 1, K) /\ Has(text, (0 + 1) + Len(K), <<"comma">>)
      /\ Has(text, ((0 + 1) + Len(K)) + 1, S)
      /\ Has(text, (((0 + 1) + Len(K)) + 1) + Len(S), <<"rbrace">>)
      /\ Len(Object(<<K, S>>)) = (((1 + Len(K)) + 1) + Len(S)) + 1
  BY <1>1, <1>5, TwoHas, Zenon
<1> DEFINE tk1 == <<Top1>>
<1>7. At(text, max, 1, 1, tk1) /\ Outer(tk1) /\ Len(tk1) = 1
  BY <1>4, <1>6, OuterOpen
<1> HIDE DEF tk1
<1>8. /\ (0 + 1) + Len(K) = 5 + Len(v) /\ ((0 + 1) + Len(K)) + 1 = 6 + Len(v)
      /\ (((0 + 1) + Len(K)) + 1) + Len(S) = 13 + Len(v)
      /\ (((1 + Len(K)) + 1) + Len(S)) + 1 = 14 + Len(v)
  BY <1>0, <1>1
<1>9. 1 \in Nat /\ Len(tk1) \in 1 .. 4 /\ Has(text, 1, Member(key, v))
  BY <1>6, <1>7 DEF K
<1>10. PICK tk : /\ At(text, max, 1 + 4, 1, tk) /\ Has(text, 1 + 4, v)
                 /\ Outer(tk) /\ Grown(tk1, tk, 1) /\ tk[Len(tk1) + 1] = Token("string", 1 + 2, 1 + 3, 1)
                 /\ TokenText(text, tk[Len(tk1) + 1]) = <<key>>
  <2> DEFINE n == 1
  <2>1. n \in Nat /\ Len(tk1) \in 1 .. 4 /\ At(text, max, n, 1, tk1) /\ Has(text, n, Member(key, v))
    BY <1>7, <1>9
  <2> HIDE DEF n
  <2>2. \E tk : AfterKey(text, max, n, tk1, key, v, tk)
    BY <1>4, <1>7, <2>1, KeyRead
  <2> QED
    BY <2>2, Zenon DEF n, AfterKey
<1>11. 1 + 4 = 5 /\ 1 + 2 = 3 /\ 1 + 3 = 4 /\ Len(tk1) + 1 = 2
  BY <1>7
<1>12. Len(tk) = 2
  BY <1>10, <1>11 DEF Grown
<1>13. LastOpened(text, max, key, v, tk)
  BY <1>4, <1>6, <1>8, <1>10, <1>11, <1>12 DEF LastOpened, S
<1> QED
  BY <1>2, <1>3, <1>6, <1>8, <1>13 DEF text, parts

(* What jsmn_parse and find_object_value make of the whole answer: the      *)
(* status is ok, the value of the key is the token after tk, and it is as   *)
(* it was read.                                                             *)
Held(text, key, t, tk, tk2) ==
    /\ t \in Seq(Tokens) /\ t # <<>> /\ t[1].type = "object"
    /\ find_object_value(text, t, 1, "status") \in 1 .. Len(t)
    /\ TokenText(text, t[find_object_value(text, t, 1, "status")]) = <<"ok">>
    /\ find_object_value(text, t, 1, key) = Len(tk) + 1 /\ Len(tk) \in 2 .. 4
    /\ Len(tk2) <= Len(t) /\ \A j \in Len(tk) + 1 .. Len(tk2) : t[j] = tk2[j]
    /\ \A j \in 1 .. Len(t) : j \notin Len(tk) + 2 .. Len(tk2) => t[j].parent <= 1
    /\ Len(t) = (Len(tk2) - Len(tk)) + 4

LEMMA Top1Fields == Top1.type = "object" /\ Top1.start = 1 /\ Top1.end = 0 /\ Top1.parent = 0
BY DEF Top1, Token

LEMMA PairFacts ==
  ASSUME NEW text, NEW t \in Seq(Tokens), NEW i, NEW obj, NEW key, NEW kind, NEW v, NEW lo, NEW hi,
         Pair(text, t, i, obj, key, kind, v, lo, hi)
  PROVE  /\ i \in 1 .. Len(t) /\ i + 1 \in 1 .. Len(t)
         /\ t[i].type = "string" /\ t[i].parent = obj /\ TokenText(text, t[i]) = <<key>>
         /\ t[i + 1].parent = obj /\ TokenText(text, t[i + 1]) = v
         /\ lo < t[i].start /\ t[i].start < t[i].end /\ t[i].end <= t[i + 1].start
         /\ t[i + 1].start <= t[i + 1].end /\ t[i + 1].end <= hi + 1
         /\ t[i].start \in Nat /\ t[i].end \in Nat /\ t[i + 1].start \in Nat /\ t[i + 1].end \in Nat
<1>1. /\ i \in 1 .. Len(t) /\ i + 1 \in 1 .. Len(t)
      /\ t[i].type = "string" /\ t[i].parent = obj /\ TokenText(text, t[i]) = <<key>>
      /\ t[i + 1].parent = obj /\ TokenText(text, t[i + 1]) = v
      /\ lo < t[i].start /\ t[i].start < t[i].end /\ t[i].end <= t[i + 1].start
      /\ t[i + 1].start <= t[i + 1].end /\ t[i + 1].end <= hi + 1
  BY Zenon DEF Pair
<1>2. t[i] \in Tokens /\ t[i + 1] \in Tokens
  BY <1>1
<1>3. t[i].start \in Nat /\ t[i].end \in Nat /\ t[i + 1].start \in Nat /\ t[i + 1].end \in Nat
  BY <1>2 DEF Tokens
<1> QED
  BY <1>1, <1>3

LEMMA FirstClosed ==
  ASSUME NEW max \in Nat, NEW key, key \notin {"quote", "bslash", "status"}, NEW v, IsText(v),
         NEW tk, FirstOpened(Line(FirstParts(key, v)), max, key, v, tk), NEW tk2, NEW kind, NEW c,
         ValueAt(Line(FirstParts(key, v)), max, 13, 13 + Len(v), 1, tk, tk2, kind, c)
  PROVE  \E t : Held(Line(FirstParts(key, v)), key, t, tk, tk2) /\ ParseIs(Line(FirstParts(key, v)), max, t)
<1> DEFINE parts == FirstParts(key, v)
           text == Line(parts)
           hi == 13 + Len(v)
           ok == <<"ok">>
           t == Closed(tk2, 1, hi + 2)
<1>1. IsText(Object(parts)) /\ Len(Object(parts)) = 14 + Len(v)
  BY StatusFirst
<1>2. /\ IsText(text) /\ Outer(tk) /\ Len(tk) = 4 /\ Has(text, hi, <<"rbrace">>)
      /\ Pair(text, tk, 2, 1, "status", "string", ok, 1, 8)
      /\ tk[4] = Token("string", 11, 12, 1) /\ TokenText(text, tk[4]) = <<key>>
  BY DEF FirstOpened
<1>3. /\ At(text, max, hi, 1, tk2) /\ Grown(tk, tk2, 1 + c) /\ c \in Nat /\ hi \in Nat
      /\ tk2[Len(tk) + 1] = Token(kind, 13 + 1, hi + 1, 1) /\ Finished(tk2, Len(tk))
  BY DEF ValueAt
<1>4. Len(v) \in Nat /\ hi + 1 = 14 + Len(v) /\ hi >= 13 /\ Len(text) \in Nat /\ hi + 2 \in Nat /\ (hi + 1) + 1 = hi + 2
  BY <1>2 DEF IsText
<1> HIDE DEF parts, text, hi, ok
<1>5. /\ tk \in Seq(Tokens) /\ tk[1] = Top1 /\ Finished(tk, 1) /\ \A j \in 1 .. Len(tk) : tk[j].parent <= 1
  BY <1>2 DEF Outer
<1>6. /\ tk2 \in Seq(Tokens) /\ Len(tk2) = 5 + c /\ Len(tk2) \in Nat /\ tk2[1] = tk[1]
      /\ tk2[2] = tk[2] /\ tk2[3] = tk[3] /\ tk2[4] = tk[4]
  <2>1. tk2 \in Seq(Tokens) /\ Len(tk2) = Len(tk) + (1 + c) /\ \A i \in 1 .. Len(tk) : tk2[i] = tk[i]
    BY <1>3 DEF Grown
  <2>2. \A i \in 1 .. 4 : tk2[i] = tk[i]
    BY <1>2, <2>1
  <2>3. 1 \in 1 .. 4 /\ 2 \in 1 .. 4 /\ 3 \in 1 .. 4 /\ 4 \in 1 .. 4
    OBVIOUS
  <2>4. Len(tk2) = 5 + c
    BY <1>2, <1>3, <2>1
  <2> QED
    BY <1>3, <2>1, <2>2, <2>3, <2>4
<1>7. tk2[5] = Token(kind, 14, hi + 1, 1) /\ Finished(tk2, 4)
  <2>1. Len(tk) + 1 = 5 /\ 13 + 1 = 14
    BY <1>2
  <2> QED
    BY <1>2, <1>3, <2>1
<1>8. /\ 2 + 1 = 3 /\ tk[2].type = "string" /\ tk[2].parent = 1 /\ TokenText(text, tk[2]) = <<"status">>
      /\ tk[3].parent = 1 /\ TokenText(text, tk[3]) = ok
      /\ tk[2].start < tk[2].end /\ tk[2].end <= tk[3].start
      /\ tk[3].start <= tk[3].end /\ tk[3].end <= 8 + 1
      /\ tk[2].start \in Nat /\ tk[2].end \in Nat /\ tk[3].start \in Nat /\ tk[3].end \in Nat
  <2>1. 2 + 1 = 3
    OBVIOUS
  <2> QED
    BY <1>2, <1>5, <2>1, PairFacts
<1>9. Innermost(tk2, 1) /\ tk2[1].type = "object" /\ tk2[1].parent = 0 /\ tk2[1].start = 1
  <2>1. tk2[1].end = 0 /\ tk2[1].type = "object" /\ tk2[1].parent = 0 /\ tk2[1].start = 1
    BY <1>5, <1>6, Top1Fields
  <2>2. ASSUME NEW j \in 1 .. Len(tk2), j > 1 PROVE tk2[j].end # 0
    <3>1. CASE j > 4
      BY <1>7, <3>1 DEF Finished
    <3>2. CASE j = 2 \/ j = 3 \/ j = 4
      <4>1. tk[j].end # 0
        BY <1>2, <1>5, <3>2 DEF Finished
      <4> QED
        BY <1>6, <3>2, <4>1
    <3> QED
      BY <2>2, <3>1, <3>2
  <2> QED
    BY <1>3, <1>6, <2>1, <2>2 DEF Innermost
<1>10. /\ t \in Seq(Tokens) /\ Len(t) = Len(tk2) /\ t[1] = Token("object", 1, hi + 2, 0)
       /\ \A j \in 1 .. Len(tk2) : j # 1 => t[j] = tk2[j]
  <2>1. 1 \in 1 .. Len(tk2)
    BY <1>3, <1>6
  <2> QED
    BY <1>4, <1>6, <1>9, <2>1, ClosedSeq
<1>11. At(text, max, Len(Object(parts)), 0, t)
  <2> DEFINE o == 1
  <2>1. At(text, max, hi, o, tk2) /\ Innermost(tk2, o) /\ tk2[o].type = "object" /\ tk2[o].parent = 0
    BY <1>3, <1>9
  <2> HIDE DEF o
  <2>2. At(text, max, hi + 1, tk2[o].parent, Closed(tk2, o, hi + 2))
    BY <1>2, <1>3, <1>4, <2>1, AtClose
  <2> QED
    BY <1>1, <1>4, <2>1, <2>2 DEF o
<1> HIDE DEF t
<1>12. t[1].type = "object" /\ t[1].end = hi + 2 /\ t[1].parent = 0
  BY <1>10 DEF Token
<1>13. Finished(t, 0)
  <2> SUFFICES ASSUME NEW j \in 1 .. Len(t) PROVE t[j].end # 0
    BY DEF Finished
  <2>1. CASE j = 1
    BY <1>4, <1>12, <2>1
  <2>2. CASE j # 1
    BY <1>9, <1>10, <2>2 DEF Innermost
  <2> QED
    BY <2>1, <2>2
<1>14. ParseIs(text, max, t)
  BY <1>1, <1>11, <1>13, LineDone DEF text
<1>15. /\ 2 \in 1 .. Len(t) /\ 3 \in 1 .. Len(t) /\ 4 \in 1 .. Len(t) /\ 5 \in 1 .. Len(t) /\ Len(t) \in Nat
       /\ t[2] = tk[2] /\ t[3] = tk[3] /\ t[4] = tk[4] /\ t[5] = tk2[5] /\ Len(t) = 5 + c
  <2>1. 2 \in 1 .. Len(tk2) /\ 3 \in 1 .. Len(tk2) /\ 4 \in 1 .. Len(tk2) /\ 5 \in 1 .. Len(tk2)
    BY <1>3, <1>6
  <2> QED
    BY <1>6, <1>10, <2>1
<1>16. tk[4].start = 11 /\ tk[4].end = 12 /\ tk[4].type = "string" /\ tk[4].parent = 1
  BY <1>2 DEF Token
<1>17. KeyAt(text, t, 1, 2, "status")
  <2> DEFINE a == tk[2].start
             b == tk[2].end
             d == tk[3].start
             e == tk[3].end
  <2>2. a \in Nat /\ b \in Nat /\ d \in Nat /\ e \in Nat /\ a < b /\ b <= d /\ d <= e /\ e <= 8 + 1
    BY <1>8
  <2>3. t[2].start = a
    BY <1>15
  <2> HIDE DEF a, b, d, e
  <2>0. a < 10
    BY <2>2
  <2>1. ~ (t[2].start >= t[1].end)
    BY <1>4, <1>12, <2>0, <2>2, <2>3
  <2> QED
    BY <1>8, <1>15, <2>1 DEF KeyAt
<1>18. KeyAt(text, t, 1, 4, key)
  <2>1. ~ (t[4].start >= t[1].end)
    BY <1>4, <1>12, <1>15, <1>16
  <2>2. 4 + 1 = 5
    OBVIOUS
  <2> QED
    BY <1>2, <1>15, <1>16, <2>1, <2>2 DEF KeyAt
<1>19. Skips(text, t, 1, key, 2, 4)
  <2>1. next_token_index(t, 3) = 4
    <3>1. 4 \in 3 + 1 .. Len(t) /\ t[4].start >= t[3].end /\ \A j \in 3 + 1 .. 4 - 1 : ~ (t[j].start >= t[3].end)
      BY <1>8, <1>15, <1>16
    <3> QED
      BY <1>15, <3>1, NextIs
  <2>2. 2 + 1 = 3 /\ "status" # key
    OBVIOUS
  <2> QED
    BY <1>17, <2>1, <2>2 DEF Skips
<1>20. find_object_value(text, t, 1, "status") = 3
  <2>1. Scan(text, t, 1, "status")[2] = 2 + 1
    BY <1>17, ScanFound
  <2>2. 1 + 1 = 2 /\ 2 + 1 = 3
    OBVIOUS
  <2> QED
    BY <2>1, <2>2 DEF find_object_value
<1>21. find_object_value(text, t, 1, key) = 5
  <2>1. Scan(text, t, 1, key)[2] = Scan(text, t, 1, key)[4]
    BY <1>19, ScanOn
  <2>2. Scan(text, t, 1, key)[4] = 4 + 1
    BY <1>18, ScanFound
  <2>3. 1 + 1 = 2 /\ 4 + 1 = 5
    OBVIOUS
  <2> QED
    BY <2>1, <2>2, <2>3 DEF find_object_value
<1>22. \A j \in 1 .. Len(t) : j \notin Len(tk) + 2 .. Len(tk2) => t[j].parent <= 1
  <2> SUFFICES ASSUME NEW j \in 1 .. Len(t), j \notin Len(tk) + 2 .. Len(tk2)
               PROVE  t[j].parent <= 1
    OBVIOUS
  <2>1. j = 1 \/ j = 2 \/ j = 3 \/ j = 4 \/ j = 5
    BY <1>2, <1>6, <1>10
  <2>2. tk2[5].parent = 1
    BY <1>7 DEF Token
  <2>3. tk[2].parent <= 1 /\ tk[3].parent <= 1 /\ tk[4].parent <= 1
    BY <1>8, <1>16
  <2> QED
    BY <1>12, <1>15, <2>1, <2>2, <2>3
<1>23. \A j \in Len(tk) + 1 .. Len(tk2) : t[j] = tk2[j]
  BY <1>2, <1>6, <1>10
<1>24. Len(tk2) <= Len(t) /\ Len(t) = (Len(tk2) - Len(tk)) + 4 /\ Len(tk) + 1 = 5 /\ Len(tk) \in 2 .. 4 /\ t # <<>>
  BY <1>2, <1>6, <1>10, <1>15
<1>25. Held(text, key, t, tk, tk2)
  BY <1>8, <1>10, <1>12, <1>15, <1>20, <1>21, <1>22, <1>23, <1>24 DEF Held, ok
<1> QED
  BY <1>14, <1>25 DEF text, parts

LEMMA LastClosed ==
  ASSUME NEW max \in Nat, NEW key, key \notin {"quote", "bslash", "status"}, NEW v, IsText(v),
         NEW tk, LastOpened(Line(LastParts(key, v)), max, key, v, tk), NEW tk2, NEW kind, NEW c,
         ValueAt(Line(LastParts(key, v)), max, 5, 5 + Len(v), 1, tk, tk2, kind, c)
  PROVE  \E t : Held(Line(LastParts(key, v)), key, t, tk, tk2) /\ ParseIs(Line(LastParts(key, v)), max, t)
<1> DEFINE parts == LastParts(key, v)
           text == Line(parts)
           hi == 5 + Len(v)
           ok == <<"ok">>
           m == Len(tk2) + 1
<1>1. IsText(Object(parts)) /\ Len(Object(parts)) = 14 + Len(v)
  BY StatusLast
<1>2. /\ IsText(text) /\ Outer(tk) /\ Len(tk) = 2 /\ Has(text, hi, <<"comma">>)
      /\ Has(text, 6 + Len(v), StatusOk) /\ Has(text, 13 + Len(v), <<"rbrace">>)
      /\ tk[2] = Token("string", 3, 4, 1) /\ TokenText(text, tk[2]) = <<key>>
  BY DEF LastOpened
<1>3. /\ At(text, max, hi, 1, tk2) /\ Grown(tk, tk2, 1 + c) /\ c \in Nat /\ hi \in Nat
      /\ tk2[Len(tk) + 1] = Token(kind, 5 + 1, hi + 1, 1) /\ Finished(tk2, Len(tk))
      /\ \A j \in Len(tk) + 2 .. Len(tk2) : tk2[j].start <= hi
  BY DEF ValueAt
<1>4. /\ Len(v) \in Nat /\ hi + 9 = 14 + Len(v) /\ hi + 1 = 6 + Len(v) /\ hi + 8 = 13 + Len(v) /\ hi >= 5
      /\ Len(text) \in Nat /\ hi + 10 \in Nat /\ hi + 1 \in Nat /\ hi + 8 \in Nat
  BY <1>2 DEF IsText
<1> HIDE DEF parts, text, hi
<1>5. /\ tk \in Seq(Tokens) /\ tk[1] = Top1 /\ Finished(tk, 1)
  BY <1>2 DEF Outer
<1>6. tk2 \in Seq(Tokens) /\ Len(tk2) = 3 + c /\ Len(tk2) \in Nat /\ tk2[1] = tk[1] /\ tk2[2] = tk[2]
  <2>1. tk2 \in Seq(Tokens) /\ Len(tk2) = Len(tk) + (1 + c) /\ \A i \in 1 .. Len(tk) : tk2[i] = tk[i]
    BY <1>3 DEF Grown
  <2>2. \A i \in 1 .. 2 : tk2[i] = tk[i]
    BY <1>2, <2>1
  <2>3. 1 \in 1 .. 2 /\ 2 \in 1 .. 2
    OBVIOUS
  <2>4. Len(tk2) = 3 + c
    BY <1>2, <1>3, <2>1
  <2> QED
    BY <1>3, <2>1, <2>2, <2>3, <2>4
<1>7. tk2[3] = Token(kind, 6, hi + 1, 1) /\ Finished(tk2, 2) /\ \A j \in 4 .. Len(tk2) : tk2[j].start <= hi
  <2>1. Len(tk) + 1 = 3 /\ 5 + 1 = 6 /\ Len(tk) + 2 = 4
    BY <1>2
  <2> QED
    BY <1>2, <1>3, <2>1
<1>8. At(text, max, hi + 1, 1, tk2)
  BY <1>2, <1>3, <1>4, AtSeparator
<1>9. PICK tk3 \in Seq(Tokens) :
              /\ Pending(text, max, (hi + 1) + 7, 1, tk3) /\ Grown(tk2, tk3, 2)
              /\ Pair(text, tk3, Len(tk2) + 1, 1, "status", "string", <<"ok">>, hi + 1, (hi + 1) + 7)
              /\ tk3[Len(tk2) + 1].end # 0 /\ tk3[Len(tk2) + 2].end # 0
  <2> DEFINE n == hi + 1
             su == 1
  <2>1. Has(text, n, StatusOk) /\ n \in Nat /\ At(text, max, n, su, tk2)
    BY <1>2, <1>4, <1>8
  <2> HIDE DEF n, su
  <2>2. \E tk3 \in Seq(Tokens) :
              /\ Pending(text, max, n + 7, su, tk3) /\ Grown(tk2, tk3, 2)
              /\ Pair(text, tk3, Len(tk2) + 1, su, "status", "string", <<"ok">>, n, n + 7)
              /\ tk3[Len(tk2) + 1].end # 0 /\ tk3[Len(tk2) + 2].end # 0
    BY <1>2, <2>1, StatusRead
  <2> QED
    BY <2>2, Zenon DEF n, su
<1>10. m \in Nat /\ m = 4 + c /\ (hi + 1) + 7 = hi + 8 /\ Len(tk2) + 2 = m + 1
  BY <1>3, <1>4, <1>6
<1>11. /\ Pending(text, max, hi + 8, 1, tk3) /\ Grown(tk2, tk3, 2)
       /\ Pair(text, tk3, m, 1, "status", "string", ok, hi + 1, hi + 8)
       /\ tk3[m].end # 0 /\ tk3[m + 1].end # 0
  BY <1>9, <1>10
<1> HIDE DEF ok
<1>12. Len(tk3) = 5 + c /\ Len(tk3) \in Nat /\ \A j \in 1 .. Len(tk2) : tk3[j] = tk2[j]
  <2>1. Len(tk3) = Len(tk2) + 2 /\ \A j \in 1 .. Len(tk2) : tk3[j] = tk2[j]
    BY <1>11 DEF Grown
  <2> QED
    BY <1>3, <1>6, <2>1
<1>13. tk3[1] = Top1 /\ tk3[2] = tk[2] /\ tk3[3] = tk2[3]
  <2>1. 1 \in 1 .. Len(tk2) /\ 2 \in 1 .. Len(tk2) /\ 3 \in 1 .. Len(tk2)
    BY <1>3, <1>6
  <2> QED
    BY <1>5, <1>6, <1>12, <2>1
<1>14. /\ m \in 1 .. Len(tk3) /\ m + 1 \in 1 .. Len(tk3)
       /\ tk3[m].type = "string" /\ tk3[m].parent = 1 /\ TokenText(text, tk3[m]) = <<"status">>
       /\ tk3[m + 1].parent = 1 /\ TokenText(text, tk3[m + 1]) = ok
       /\ hi + 1 < tk3[m].start /\ tk3[m].start < tk3[m].end /\ tk3[m].end <= tk3[m + 1].start
       /\ tk3[m + 1].start <= tk3[m + 1].end /\ tk3[m + 1].end <= (hi + 8) + 1
       /\ tk3[m].start \in Nat /\ tk3[m].end \in Nat /\ tk3[m + 1].start \in Nat /\ tk3[m + 1].end \in Nat
  <2> HIDE DEF m
  <2> QED
    BY <1>11, PairFacts
<1> HIDE DEF m
<1>15. Innermost(tk3, 1) /\ tk3[1].type = "object" /\ tk3[1].parent = 0 /\ tk3[1].start = 1
  <2>1. tk3[1].end = 0 /\ tk3[1].type = "object" /\ tk3[1].parent = 0 /\ tk3[1].start = 1
    BY <1>13, Top1Fields
  <2>2. ASSUME NEW j \in 1 .. Len(tk3), j > 1 PROVE tk3[j].end # 0
    <3>1. CASE j = m \/ j = m + 1
      BY <1>11, <3>1
    <3>2. CASE j = 2
      <4>1. tk[2].end # 0
        BY <1>2, <1>5 DEF Finished
      <4> QED
        BY <1>13, <3>2, <4>1
    <3>3. CASE j \in 3 .. Len(tk2)
      BY <1>7, <1>12, <3>3 DEF Finished
    <3> QED
      BY <1>3, <1>6, <1>10, <1>12, <2>2, <3>1, <3>2, <3>3
  <2> QED
    BY <1>3, <1>12, <2>1, <2>2 DEF Innermost
<1> DEFINE t == Closed(tk3, 1, hi + 10)
<1>16. /\ t \in Seq(Tokens) /\ Len(t) = Len(tk3) /\ t[1] = Token("object", 1, hi + 10, 0)
       /\ \A j \in 1 .. Len(tk3) : j # 1 => t[j] = tk3[j]
  <2>1. 1 \in 1 .. Len(tk3)
    BY <1>3, <1>12
  <2> QED
    BY <1>4, <1>15, <2>1, ClosedSeq
<1>17. At(text, max, Len(Object(parts)), 0, t)
  <2> DEFINE o == 1
             e == hi + 8
  <2>1. Pending(text, max, e, o, tk3) /\ Innermost(tk3, o) /\ tk3[o].type = "object" /\ tk3[o].parent = 0
        /\ e \in Nat /\ Has(text, e, <<"rbrace">>) /\ e + 1 = 14 + Len(v) /\ e + 2 = hi + 10
    BY <1>2, <1>3, <1>4, <1>11, <1>15
  <2> HIDE DEF o, e
  <2>2. At(text, max, e + 1, tk3[o].parent, Closed(tk3, o, e + 2))
    BY <1>4, <2>1, PendingClose
  <2> QED
    BY <1>1, <2>1, <2>2 DEF o
<1> HIDE DEF t
<1>18. t[1].type = "object" /\ t[1].end = hi + 10 /\ t[1].parent = 0
  BY <1>16 DEF Token
<1>19. Finished(t, 0)
  <2> SUFFICES ASSUME NEW j \in 1 .. Len(t) PROVE t[j].end # 0
    BY DEF Finished
  <2>1. CASE j = 1
    BY <1>3, <1>18, <2>1
  <2>2. CASE j # 1
    BY <1>15, <1>16, <2>2 DEF Innermost
  <2> QED
    BY <2>1, <2>2
<1>20. ParseIs(text, max, t)
  BY <1>1, <1>17, <1>19, LineDone DEF text
<1>21. /\ 2 \in 1 .. Len(t) /\ 3 \in 1 .. Len(t) /\ m \in 1 .. Len(t) /\ m + 1 \in 1 .. Len(t) /\ Len(t) \in Nat
       /\ t[2] = tk[2] /\ t[3] = tk2[3] /\ t[m] = tk3[m] /\ t[m + 1] = tk3[m + 1] /\ Len(t) = 5 + c
       /\ \A j \in 3 .. Len(tk2) : t[j] = tk2[j]
  <2>1. 2 \in 1 .. Len(tk3) /\ 3 \in 1 .. Len(tk3) /\ m # 1 /\ m + 1 # 1 /\ Len(tk2) <= Len(tk3)
    <3> DEFINE a == Len(tk2)
               b == Len(tk3)
    <3>1. c \in Nat /\ a = 3 + c /\ b = 5 + c /\ m = 4 + c
      BY <1>3, <1>6, <1>10, <1>12
    <3> HIDE DEF a, b
    <3>2. 2 \in 1 .. b /\ 3 \in 1 .. b /\ m # 1 /\ m + 1 # 1 /\ a <= b
      BY <3>1
    <3> QED
      BY <3>2 DEF a, b
  <2>2. \A j \in 3 .. Len(tk2) : t[j] = tk2[j]
    BY <1>6, <1>12, <1>16, <2>1
  <2> QED
    BY <1>12, <1>13, <1>14, <1>16, <2>1, <2>2
<1>22. tk[2].start = 3 /\ tk[2].end = 4 /\ tk[2].type = "string" /\ tk[2].parent = 1
  BY <1>2 DEF Token
<1>23. tk2[3].start = 6 /\ tk2[3].end = hi + 1 /\ tk2[3].parent = 1
  BY <1>7 DEF Token
<1>24. KeyAt(text, t, 1, 2, key)
  <2>1. ~ (t[2].start >= t[1].end)
    BY <1>3, <1>18, <1>21, <1>22
  <2>2. 2 + 1 = 3
    OBVIOUS
  <2> QED
    BY <1>2, <1>21, <1>22, <2>1, <2>2 DEF KeyAt
<1>25. KeyAt(text, t, 1, m, "status")
  <2> DEFINE a == tk3[m].start
             b == tk3[m].end
             d == tk3[m + 1].start
             e == tk3[m + 1].end
  <2>2. a \in Nat /\ b \in Nat /\ d \in Nat /\ e \in Nat /\ a < b /\ b <= d /\ d <= e /\ e <= (hi + 8) + 1
    BY <1>14
  <2>3. t[m].start = a
    BY <1>21
  <2> HIDE DEF a, b, d, e
  <2>4. a < hi + 10
    BY <1>3, <2>2
  <2>1. ~ (t[m].start >= t[1].end)
    BY <1>3, <1>18, <2>2, <2>3, <2>4
  <2> QED
    BY <1>14, <1>21, <2>1 DEF KeyAt
<1>26. Skips(text, t, 1, "status", 2, m)
  <2>1. next_token_index(t, 3) = m
    <3>1. t[m].start >= t[3].end
      <4> DEFINE a == tk3[m].start
      <4>1. a \in Nat /\ hi + 1 < a /\ t[m].start = a /\ t[3].end = hi + 1
        BY <1>14, <1>21, <1>23
      <4> HIDE DEF a
      <4> QED
        BY <1>3, <4>1
    <3>2. m \in 3 + 1 .. Len(t)
      BY <1>3, <1>10, <1>21
    <3>3. ASSUME NEW j \in 3 + 1 .. m - 1 PROVE ~ (t[j].start >= t[3].end)
      <4>1. j \in 4 .. Len(tk2) /\ j \in 3 .. Len(tk2)
        BY <1>3, <1>6, <1>10
      <4>2. t[j] = tk2[j] /\ tk2[j].start <= hi /\ t[3].end = hi + 1 /\ tk2[j] \in Tokens
        BY <1>6, <1>7, <1>21, <1>23, <4>1
      <4>3. tk2[j].start \in Nat
        BY <4>2 DEF Tokens
      <4> QED
        BY <1>3, <4>2, <4>3
    <3> QED
      BY <1>21, <3>1, <3>2, <3>3, NextIs
  <2>2. 2 + 1 = 3 /\ "status" # key
    OBVIOUS
  <2> QED
    BY <1>24, <2>1, <2>2 DEF Skips
<1>27. find_object_value(text, t, 1, "status") = m + 1
  <2>1. Scan(text, t, 1, "status")[2] = Scan(text, t, 1, "status")[m]
    BY <1>26, ScanOn
  <2>2. Scan(text, t, 1, "status")[m] = m + 1
    BY <1>25, ScanFound
  <2>3. 1 + 1 = 2
    OBVIOUS
  <2> QED
    BY <2>1, <2>2, <2>3 DEF find_object_value
<1>28. find_object_value(text, t, 1, key) = 3
  <2>1. Scan(text, t, 1, key)[2] = 2 + 1
    BY <1>24, ScanFound
  <2>2. 1 + 1 = 2 /\ 2 + 1 = 3
    OBVIOUS
  <2> QED
    BY <2>1, <2>2 DEF find_object_value
<1>29. \A j \in 1 .. Len(t) : j \notin Len(tk) + 2 .. Len(tk2) => t[j].parent <= 1
  <2> SUFFICES ASSUME NEW j \in 1 .. Len(t), j \notin Len(tk) + 2 .. Len(tk2)
               PROVE  t[j].parent <= 1
    OBVIOUS
  <2>1. j = 1 \/ j = 2 \/ j = 3 \/ j = m \/ j = m + 1
    BY <1>2, <1>3, <1>6, <1>10, <1>21
  <2>2. t[1].parent <= 1 /\ t[2].parent <= 1
    BY <1>18, <1>21, <1>22
  <2>3. t[3].parent <= 1
    BY <1>21, <1>23
  <2>4. t[m].parent <= 1 /\ t[m + 1].parent <= 1
    BY <1>14, <1>21
  <2> QED
    BY <2>1, <2>2, <2>3, <2>4
<1>30. \A j \in Len(tk) + 1 .. Len(tk2) : t[j] = tk2[j]
  BY <1>2, <1>21
<1>31. Len(tk2) <= Len(t) /\ Len(t) = (Len(tk2) - Len(tk)) + 4 /\ Len(tk) + 1 = 3 /\ Len(tk) \in 2 .. 4 /\ t # <<>>
  BY <1>2, <1>3, <1>6, <1>21
<1>32. Held(text, key, t, tk, tk2)
  BY <1>14, <1>16, <1>18, <1>21, <1>27, <1>28, <1>29, <1>30, <1>31 DEF Held, ok
<1> QED
  BY <1>20, <1>32 DEF text, parts

LEMMA FlatAgree ==
  ASSUME NEW text, NEW t \in Seq(Tokens), NEW t2 \in Seq(Tokens), NEW o \in Nat, NEW ms, NEW k \in Nat,
         NEW lo, NEW hi, Flat(text, t, o, ms, k, lo, hi), o + 2 * k <= Len(t2),
         \A j \in o + 1 .. o + 2 * k : t2[j] = t[j]
  PROVE  Flat(text, t2, o, ms, k, lo, hi)
<1>1. ASSUME NEW i \in 1 .. k
      PROVE  Pair(text, t2, o + (2 * i - 1), o, ms[i].key, ms[i].kind, ms[i].v, lo, hi)
  <2> DEFINE j == o + (2 * i - 1)
  <2>1. Pair(text, t, j, o, ms[i].key, ms[i].kind, ms[i].v, lo, hi)
    BY DEF Flat
  <2>2. j \in o + 1 .. o + 2 * k /\ j + 1 \in o + 1 .. o + 2 * k /\ Len(t2) \in Nat
    OBVIOUS
  <2>3. j \in 1 .. Len(t2) /\ j + 1 \in 1 .. Len(t2)
    BY <2>2
  <2> HIDE DEF j
  <2>4. t2[j] = t[j] /\ t2[j + 1] = t[j + 1]
    BY <2>2
  <2>5. Pair(text, t2, j, o, ms[i].key, ms[i].kind, ms[i].v, lo, hi)
    BY <2>1, <2>3, <2>4, Zenon DEF Pair
  <2> QED
    BY <2>5 DEF j
<1>2. ASSUME NEW i \in 1 .. k - 1
      PROVE  t2[o + 2 * i].end <= t2[o + (2 * i + 1)].start
  <2>1. t[o + 2 * i].end <= t[o + (2 * i + 1)].start
    BY DEF Flat
  <2>2. o + 2 * i \in o + 1 .. o + 2 * k /\ o + (2 * i + 1) \in o + 1 .. o + 2 * k
    OBVIOUS
  <2>3. t2[o + 2 * i] = t[o + 2 * i] /\ t2[o + (2 * i + 1)] = t[o + (2 * i + 1)]
    BY <2>2
  <2> QED
    BY <2>1, <2>3
<1> QED
  BY <1>1, <1>2, Zenon DEF Flat

LEMMA ObjectValue ==
  ASSUME NEW text, NEW max, NEW n, NEW hi, NEW su, NEW tk, NEW tk2, NEW ms, Len(ms) \in Nat,
         ObjectRead(text, max, n, hi, su, tk, tk2, ms)
  PROVE  ValueAt(text, max, n, hi, su, tk, tk2, "object", 2 * Len(ms))
<1>1. 2 * Len(ms) \in Nat
  OBVIOUS
<1> QED
  BY <1>1, Zenon DEF ObjectRead, ValueAt

(* Token o is an object with the members ms. *)
ObjectIn(text, t, o, ms) ==
    \E lo, hi \in Nat : Flat(text, t, o, ms, Len(ms), lo, hi) /\ t[o].end = hi + 1

(* ... and the whole answer has it under the key *)
Answered(text, t, key, o) ==
    /\ t \in Seq(Tokens) /\ t # <<>> /\ t[1].type = "object" /\ o \in 3 .. 5
    /\ find_object_value(text, t, 1, "status") \in 1 .. Len(t)
    /\ TokenText(text, t[find_object_value(text, t, 1, "status")]) = <<"ok">>
    /\ find_object_value(text, t, 1, key) = o

LEMMA HeldAnswered ==
  ASSUME NEW text, NEW key, NEW t, NEW tk, NEW tk2, Held(text, key, t, tk, tk2)
  PROVE  Answered(text, t, key, Len(tk) + 1)
<1>1. Len(tk) \in 2 .. 4
  BY Zenon DEF Held
<1>2. Len(tk) + 1 \in 3 .. 5
  BY <1>1
<1> QED
  BY <1>2, Zenon DEF Held, Answered

LEMMA HeldObject ==
  ASSUME NEW text, NEW max, NEW n \in Nat, NEW hi, NEW su, NEW tk, NEW tk2, NEW ms, Len(ms) \in Nat,
         ObjectRead(text, max, n, hi, su, tk, tk2, ms), NEW key, NEW t, Held(text, key, t, tk, tk2)
  PROVE  ObjectIn(text, t, Len(tk) + 1, ms) /\ Len(t) = 5 + 2 * Len(ms)
<1> DEFINE o == Len(tk) + 1
           K == Len(ms)
<1>1. /\ Grown(tk, tk2, 1 + 2 * K) /\ hi \in Nat /\ tk2[o] = Token("object", n + 1, hi + 1, su)
      /\ Flat(text, tk2, o, ms, K, n + 1, hi)
  BY Zenon DEF ObjectRead
<1>2. /\ t \in Seq(Tokens) /\ Len(tk) \in 2 .. 4
      /\ Len(tk2) <= Len(t) /\ \A j \in o .. Len(tk2) : t[j] = tk2[j]
      /\ Len(t) = (Len(tk2) - Len(tk)) + 4
  BY Zenon DEF Held
<1>3. tk2 \in Seq(Tokens) /\ Len(tk2) = Len(tk) + (1 + 2 * K)
  BY <1>1, Zenon DEF Grown
<1>4. /\ o \in Nat /\ K \in Nat /\ Len(tk2) = o + 2 * K /\ o + 2 * K <= Len(t) /\ n + 1 \in Nat
      /\ Len(t) = 5 + 2 * K /\ o \in o .. Len(tk2)
  <2> DEFINE a == Len(tk)
             b == Len(tk2)
             d == Len(t)
  <2>1. a \in Nat /\ d \in Nat /\ b <= d /\ d = (b - a) + 4 /\ b = a + (1 + 2 * K) /\ o = a + 1 /\ K \in Nat
    BY <1>2, <1>3
  <2> HIDE DEF a, b, d, K, o
  <2>2. o \in Nat /\ K \in Nat /\ b = o + 2 * K /\ o + 2 * K <= d /\ d = 5 + 2 * K /\ o \in o .. b
    BY <2>1
  <2> QED
    BY <2>2 DEF a, b, d
<1>5. \A j \in o + 1 .. o + 2 * K : t[j] = tk2[j]
  <2>1. \A j \in o + 1 .. o + 2 * K : j \in o .. o + 2 * K
    BY <1>4
  <2> HIDE DEF o, K
  <2> QED
    BY <1>2, <1>4, <2>1, Zenon
<1> HIDE DEF o, K
<1>6. Flat(text, t, o, ms, K, n + 1, hi)
  BY <1>1, <1>2, <1>3, <1>4, <1>5, FlatAgree
<1>7. t[o] = Token("object", n + 1, hi + 1, su)
  BY <1>1, <1>2, <1>4
<1>8. t[o].end = hi + 1
  BY <1>7 DEF Token
<1>9. ObjectIn(text, t, o, ms)
  BY <1>1, <1>4, <1>6, <1>8, Zenon DEF ObjectIn, K
<1> QED
  BY <1>4, <1>9 DEF o, K

HasObject(text, max, key, ms, t, o) ==
    /\ ParseIs(text, max, t) /\ Answered(text, t, key, o) /\ ObjectIn(text, t, o, ms)
    /\ Len(t) = 5 + 2 * Len(ms)

LEMMA ObjectFirst ==
  ASSUME NEW max \in Nat, NEW key, key \notin {"quote", "bslash", "status"}, NEW ms, GoodAll(ms),
         NEW v, v = Object(Pieces(ms)), IsText(v)
  PROVE  \E t, o : HasObject(Line(FirstParts(key, v)), max, key, ms, t, o)
<1> DEFINE text == Line(FirstParts(key, v))
           n == 13
           hi == n + Len(v)
           su == 1
<1>1. PICK tk : FirstOpened(text, max, key, v, tk)
  BY StatusFirst
<1>2. IsText(text) /\ At(text, max, n, su, tk) /\ Has(text, n, v) /\ n \in Nat
  BY <1>1 DEF FirstOpened
<1>3. hi = n + Len(Object(Pieces(ms))) /\ Len(ms) \in Nat
  BY DEF GoodAll, IsText
<1> HIDE DEF text, n, hi, su
<1>4. PICK tk2 : ObjectRead(text, max, n, hi, su, tk, tk2, ms)
  BY <1>2, <1>3, FlatObject
<1>5. ValueAt(text, max, n, hi, su, tk, tk2, "object", 2 * Len(ms))
  BY <1>3, <1>4, ObjectValue, Zenon
<1> DEFINE kind == "object"
           c == 2 * Len(ms)
<1>6. ValueAt(Line(FirstParts(key, v)), max, 13, 13 + Len(v), 1, tk, tk2, kind, c)
  BY <1>5 DEF text, n, hi, su
<1> HIDE DEF kind, c
<1>7. PICK t : Held(Line(FirstParts(key, v)), key, t, tk, tk2) /\ ParseIs(Line(FirstParts(key, v)), max, t)
  BY <1>1, <1>6, FirstClosed, Zenon DEF text
<1>8. Held(text, key, t, tk, tk2) /\ ParseIs(text, max, t)
  BY <1>7, Zenon DEF text
<1>9. Answered(text, t, key, Len(tk) + 1)
  BY <1>8, HeldAnswered, Zenon
<1>10. ObjectIn(text, t, Len(tk) + 1, ms) /\ Len(t) = 5 + 2 * Len(ms)
  BY <1>2, <1>3, <1>4, <1>8, HeldObject
<1>11. HasObject(text, max, key, ms, t, Len(tk) + 1)
  BY <1>8, <1>9, <1>10, Zenon DEF HasObject
<1> QED
  BY <1>11, Zenon DEF text

LEMMA ObjectLast ==
  ASSUME NEW max \in Nat, NEW key, key \notin {"quote", "bslash", "status"}, NEW ms, GoodAll(ms),
         NEW v, v = Object(Pieces(ms)), IsText(v)
  PROVE  \E t, o : HasObject(Line(LastParts(key, v)), max, key, ms, t, o)
<1> DEFINE text == Line(LastParts(key, v))
           n == 5
           hi == n + Len(v)
           su == 1
<1>1. PICK tk : LastOpened(text, max, key, v, tk)
  BY StatusLast
<1>2. IsText(text) /\ At(text, max, n, su, tk) /\ Has(text, n, v) /\ n \in Nat
  BY <1>1 DEF LastOpened
<1>3. hi = n + Len(Object(Pieces(ms))) /\ Len(ms) \in Nat
  BY DEF GoodAll, IsText
<1> HIDE DEF text, n, hi, su
<1>4. PICK tk2 : ObjectRead(text, max, n, hi, su, tk, tk2, ms)
  BY <1>2, <1>3, FlatObject
<1>5. ValueAt(text, max, n, hi, su, tk, tk2, "object", 2 * Len(ms))
  BY <1>3, <1>4, ObjectValue, Zenon
<1> DEFINE kind == "object"
           c == 2 * Len(ms)
<1>6. ValueAt(Line(LastParts(key, v)), max, 5, 5 + Len(v), 1, tk, tk2, kind, c)
  BY <1>5 DEF text, n, hi, su
<1> HIDE DEF kind, c
<1>7. PICK t : Held(Line(LastParts(key, v)), key, t, tk, tk2) /\ ParseIs(Line(LastParts(key, v)), max, t)
  BY <1>1, <1>6, LastClosed, Zenon DEF text
<1>8. Held(text, key, t, tk, tk2) /\ ParseIs(text, max, t)
  BY <1>7, Zenon DEF text
<1>9. Answered(text, t, key, Len(tk) + 1)
  BY <1>8, HeldAnswered, Zenon
<1>10. ObjectIn(text, t, Len(tk) + 1, ms) /\ Len(t) = 5 + 2 * Len(ms)
  BY <1>2, <1>3, <1>4, <1>8, HeldObject
<1>11. HasObject(text, max, key, ms, t, Len(tk) + 1)
  BY <1>8, <1>9, <1>10, Zenon DEF HasObject
<1> QED
  BY <1>11, Zenon DEF text

(* An answer with an object under a key, wherever the status stands *)
LEMMA ObjectAnswer ==
  ASSUME NEW max \in Nat, NEW key, key \notin {"quote", "bslash", "status"}, NEW ms, GoodAll(ms)
  PROVE  \E t, o : HasObject(Answer(key, Object(Pieces(ms))), max, key, ms, t, o)
<1> DEFINE v == Object(Pieces(ms))
<1>1. IsText(v)
  <2>1. IsText(Pieces(ms)) /\ \A i \in 1 .. Len(Pieces(ms)) : IsText(Pieces(ms)[i])
    BY PiecesText
  <2> QED
    BY <2>1, AnyObjectText
<1>2. v = Object(Pieces(ms))
  OBVIOUS
<1> HIDE DEF v
<1>3. Answer(key, v) = Line(FirstParts(key, v)) \/ Answer(key, v) = Line(LastParts(key, v))
  BY DEF Answer, FirstParts, LastParts
<1>4. CASE Answer(key, v) = Line(FirstParts(key, v))
  <2>1. \E t, o : HasObject(Line(FirstParts(key, v)), max, key, ms, t, o)
    BY <1>1, <1>2, ObjectFirst
  <2> QED
    BY <1>2, <1>4, <2>1, Zenon
<1>5. CASE Answer(key, v) = Line(LastParts(key, v))
  <2>1. \E t, o : HasObject(Line(LastParts(key, v)), max, key, ms, t, o)
    BY <1>1, <1>2, ObjectLast
  <2> QED
    BY <1>2, <1>5, <2>1, Zenon
<1> QED
  BY <1>3, <1>4, <1>5, Zenon

-----------------------------------------------------------------------------
(* Listings *)

EntryMembers(e) == <<R("name", "string", EscapedBy(e.name)), R("type", "string", <<e.type>>)>>
GoodEntry(e) == IsText(e.name) /\ e.type \in {"dir", "file"}

LEMMA EntryIs ==
  ASSUME NEW e, GoodEntry(e)
  PROVE  /\ EntryText(e) = Object(Pieces(EntryMembers(e))) /\ GoodAll(EntryMembers(e)) /\ Len(EntryMembers(e)) = 2
         /\ EntryMembers(e)[1] = R("name", "string", EscapedBy(e.name))
         /\ EntryMembers(e)[2] = R("type", "string", <<e.type>>)
<1> DEFINE a == R("name", "string", EscapedBy(e.name))
           b == R("type", "string", <<e.type>>)
<1>1. IsText(e.name) /\ e.type \notin {"quote", "bslash"}
  BY DEF GoodEntry
<1>2. Clean(EscapedBy(e.name))
  BY <1>1, EscapedByClean
<1>3. Good("name", "string", EscapedBy(e.name))
  BY <1>2 DEF Good
<1>4. a.key = "name" /\ a.kind = "string" /\ a.v = EscapedBy(e.name)
  BY PieceOf
<1>5. Good(b.key, b.kind, b.v) /\ M(b.key, b.kind, b.v) = Member("type", Quoted(<<e.type>>))
  BY <1>1, StringGood
<1>6. Good(a.key, a.kind, a.v) /\ M(a.key, a.kind, a.v) = Member("name", Quoted(EscapedBy(e.name)))
  BY <1>3, <1>4 DEF M, ValueText
<1>7. EntryMembers(e) = <<a, b>> /\ <<a, b>>[1] = a /\ <<a, b>>[2] = b
  BY DEF EntryMembers
<1> HIDE DEF a, b
<1>8. /\ GoodAll(<<a, b>>) /\ Len(<<a, b>>) = 2
      /\ Pieces(<<a, b>>) = <<M(a.key, a.kind, a.v), M(b.key, b.kind, b.v)>>
  BY <1>5, <1>6, PiecesTwo, Zenon
<1>9. EntryText(e) = Object(Pieces(<<a, b>>))
  BY <1>5, <1>6, <1>8 DEF EntryText
<1> QED
  BY <1>7, <1>8, <1>9 DEF a, b

(* Token o is an entry of the array at token a. *)
EntryIn(text, t, o, a, e) ==
    /\ o \in Nat /\ o + 4 <= Len(t) /\ t[o].type = "object" /\ t[o].parent = a
    /\ ObjectIn(text, t, o, EntryMembers(e))

EntriesIn(text, t, a, ds, k) == \A i \in 1 .. k : EntryIn(text, t, a + (5 * i - 4), a, ds[i])

LEMMA EntryAgree ==
  ASSUME NEW text, NEW t \in Seq(Tokens), NEW t2 \in Seq(Tokens), NEW o, NEW a, NEW e, GoodEntry(e),
         EntryIn(text, t, o, a, e), o + 4 <= Len(t2), \A j \in o .. o + 4 : t2[j] = t[j]
  PROVE  EntryIn(text, t2, o, a, e)
<1> DEFINE ms == EntryMembers(e)
<1>1. Len(ms) = 2
  BY EntryIs
<1>2. o \in Nat /\ t[o].type = "object" /\ t[o].parent = a /\ ObjectIn(text, t, o, ms)
  BY DEF EntryIn
<1> HIDE DEF ms
<1>3. PICK lo \in Nat, hi \in Nat : Flat(text, t, o, ms, Len(ms), lo, hi) /\ t[o].end = hi + 1
  BY <1>2 DEF ObjectIn
<1>4. o + 2 * Len(ms) <= Len(t2) /\ (\A j \in o + 1 .. o + 2 * Len(ms) : t2[j] = t[j]) /\ t2[o] = t[o]
  BY <1>1, <1>2
<1>5. Flat(text, t2, o, ms, Len(ms), lo, hi)
  <2>1. Len(ms) \in Nat
    BY <1>1
  <2> QED
    BY <1>2, <1>3, <1>4, <2>1, FlatAgree
<1>6. t2[o].end = hi + 1 /\ t2[o].type = "object" /\ t2[o].parent = a
  BY <1>2, <1>3, <1>4
<1>7. ObjectIn(text, t2, o, ms)
  BY <1>5, <1>6, Zenon DEF ObjectIn
<1> QED
  BY <1>2, <1>6, <1>7 DEF EntryIn, ms

(* The parser is behind entry k of the array that is token a, the last of tk1. *)
Listed(text, max, n, a, tk1, tk, ds, k) ==
    /\ At(text, max, n, a, tk) /\ n \in Nat /\ a = Len(tk1) /\ Grown(tk1, tk, 5 * k) /\ Finished(tk, a)
    /\ EntriesIn(text, tk, a, ds, k) /\ \A j \in a + 1 .. Len(tk) : tk[j].start <= n

LEMMA ListedEntry ==
  ASSUME NEW max \in Nat, NEW text, IsText(text), NEW n, NEW a, NEW tk1, NEW tk, NEW ds, NEW k \in Nat,
         Listed(text, max, n, a, tk1, tk, ds, k), \A i \in 1 .. k + 1 : GoodEntry(ds[i]),
         Has(text, n, EntryText(ds[k + 1])), NEW hi, hi = n + Len(EntryText(ds[k + 1]))
  PROVE  \E tk2 : Listed(text, max, hi, a, tk1, tk2, ds, k + 1)
<1> DEFINE e == ds[k + 1]
           ms == EntryMembers(e)
           o == Len(tk) + 1
<1>1. /\ At(text, max, n, a, tk) /\ n \in Nat /\ a = Len(tk1) /\ Grown(tk1, tk, 5 * k) /\ Finished(tk, a)
      /\ EntriesIn(text, tk, a, ds, k) /\ \A j \in a + 1 .. Len(tk) : tk[j].start <= n
  BY Zenon DEF Listed
<1>2. GoodEntry(e)
  OBVIOUS
<1>3. EntryText(e) = Object(Pieces(ms)) /\ GoodAll(ms) /\ Len(ms) = 2
  BY <1>2, EntryIs, Zenon
<1>4. Has(text, n, Object(Pieces(ms))) /\ hi = n + Len(Object(Pieces(ms)))
  BY <1>3
<1> HIDE DEF e, ms, o
<1>5. PICK tk2 : ObjectRead(text, max, n, hi, a, tk, tk2, ms)
  BY <1>1, <1>3, <1>4, FlatObject
<1>6. /\ At(text, max, hi, a, tk2) /\ Grown(tk, tk2, 1 + 2 * Len(ms)) /\ hi \in Nat /\ n < hi
      /\ tk2[Len(tk) + 1] = Token("object", n + 1, hi + 1, a)
      /\ Flat(text, tk2, Len(tk) + 1, ms, Len(ms), n + 1, hi) /\ Finished(tk2, Len(tk))
      /\ \A j \in Len(tk) + 2 .. Len(tk2) : tk2[j].start <= hi
  BY <1>5, Zenon DEF ObjectRead
<1>7. /\ tk1 \in Seq(Tokens) /\ tk \in Seq(Tokens) /\ tk2 \in Seq(Tokens) /\ Grown(tk, tk2, 5)
      /\ Len(tk2) = Len(tk) + 5 /\ (\A i \in 1 .. Len(tk) : tk2[i] = tk[i]) /\ Len(tk) = a + 5 * k
  <2>1. Grown(tk, tk2, 5)
    BY <1>3, <1>6
  <2> QED
    BY <1>1, <2>1, Zenon DEF Grown
<1>8. a \in Nat /\ Len(tk) \in Nat /\ o \in Nat /\ o = a + (5 * (k + 1) - 4) /\ Len(tk2) = o + 4 /\ n + 1 \in Nat
  <2> DEFINE l == Len(tk)
             l2 == Len(tk2)
  <2>1. a \in Nat /\ l \in Nat /\ l = a + 5 * k /\ l2 = l + 5 /\ o = l + 1
    BY <1>1, <1>7 DEF o
  <2> HIDE DEF l, l2
  <2>2. o \in Nat /\ o = a + (5 * (k + 1) - 4) /\ l2 = o + 4
    BY <2>1
  <2> QED
    BY <1>1, <2>1, <2>2 DEF l, l2
<1>9. Grown(tk1, tk2, 5 * (k + 1))
  <2>1. 5 * k \in Nat /\ 5 \in Nat /\ 5 * k + 5 = 5 * (k + 1)
    OBVIOUS
  <2>2. Grown(tk1, tk2, 5 * k + 5)
    BY <1>1, <1>7, <2>1, GrownTwice
  <2> QED
    BY <2>1, <2>2
<1>10. Finished(tk2, a)
  <2> SUFFICES ASSUME NEW j \in 1 .. Len(tk2), j > a PROVE tk2[j].end # 0
    BY DEF Finished
  <2>1. CASE j > Len(tk)
    BY <1>6, <2>1 DEF Finished
  <2>2. CASE j \in 1 .. Len(tk)
    BY <1>1, <1>7, <2>2 DEF Finished
  <2> QED
    BY <1>8, <2>1, <2>2
<1>11. \A j \in a + 1 .. Len(tk2) : tk2[j].start <= hi
  <2> SUFFICES ASSUME NEW j \in a + 1 .. Len(tk2) PROVE tk2[j].start <= hi
    OBVIOUS
  <2>1. CASE j \in a + 1 .. Len(tk)
    <3>1. tk2[j] = tk[j] /\ tk[j].start <= n /\ tk[j] \in Tokens
      BY <1>1, <1>7, <1>8, <2>1
    <3> DEFINE s == tk[j].start
    <3>2. s \in Nat /\ s <= n /\ n \in Nat /\ hi \in Nat /\ n < hi
      BY <1>1, <1>6, <3>1 DEF Tokens
    <3> HIDE DEF s
    <3>3. s <= hi
      BY <3>2
    <3> QED
      BY <3>1, <3>3 DEF s
  <2>2. CASE j = o
    <3>1. tk2[j].start = n + 1
      BY <1>6, <2>2 DEF Token, o
    <3> QED
      BY <1>1, <1>6, <3>1
  <2>3. CASE j \in Len(tk) + 2 .. Len(tk2)
    BY <1>6, <2>3
  <2>4. j \in a + 1 .. Len(tk) \/ j = o \/ j \in Len(tk) + 2 .. Len(tk2)
    <3> DEFINE l == Len(tk)
               l2 == Len(tk2)
    <3>1. a \in Nat /\ l \in Nat /\ l2 = l + 5 /\ o = l + 1 /\ j \in a + 1 .. l2
      BY <1>7, <1>8 DEF o
    <3> HIDE DEF l, l2
    <3>2. j \in a + 1 .. l \/ j = o \/ j \in l + 2 .. l2
      BY <3>1
    <3> QED
      BY <3>2 DEF l, l2
  <2> QED
    BY <2>1, <2>2, <2>3, <2>4
<1>12. EntryIn(text, tk2, o, a, e)
  <2>1. tk2[o].type = "object" /\ tk2[o].parent = a /\ tk2[o].end = hi + 1
    BY <1>6 DEF Token, o
  <2>2. ObjectIn(text, tk2, o, ms)
    BY <1>6, <1>8, <2>1, Zenon DEF ObjectIn, o
  <2>3. o + 4 <= Len(tk2)
    BY <1>8
  <2> QED
    BY <1>8, <2>1, <2>2, <2>3 DEF EntryIn, ms
<1>13. EntriesIn(text, tk2, a, ds, k + 1)
  <2> SUFFICES ASSUME NEW i \in 1 .. k + 1 PROVE EntryIn(text, tk2, a + (5 * i - 4), a, ds[i])
    BY DEF EntriesIn
  <2>1. CASE i = k + 1
    BY <1>8, <1>12, <2>1 DEF e
  <2>2. CASE i \in 1 .. k
    <3> DEFINE p == a + (5 * i - 4)
               d == ds[i]
    <3>1. EntryIn(text, tk, p, a, d) /\ GoodEntry(d)
      BY <1>1, <2>2 DEF EntriesIn
    <3>2. p \in Nat /\ p >= 1 /\ p + 4 <= Len(tk)
      BY <1>7, <1>8, <2>2
    <3> HIDE DEF p, d
    <3>3. p + 4 <= Len(tk2) /\ \A j \in p .. p + 4 : tk2[j] = tk[j]
      BY <1>7, <1>8, <3>2
    <3>4. EntryIn(text, tk2, p, a, d)
      BY <1>7, <3>1, <3>3, EntryAgree
    <3> QED
      BY <3>4 DEF p, d
  <2> QED
    BY <2>1, <2>2
<1>14. Listed(text, max, hi, a, tk1, tk2, ds, k + 1)
  BY <1>1, <1>6, <1>9, <1>10, <1>11, <1>13, Zenon DEF Listed
<1> QED
  BY <1>14

LEMMA ListedComma ==
  ASSUME NEW max \in Nat, NEW text, IsText(text), NEW n, NEW a, NEW tk1, NEW tk, NEW ds, NEW k \in Nat,
         Listed(text, max, n, a, tk1, tk, ds, k), Has(text, n, <<"comma">>)
  PROVE  Listed(text, max, n + 1, a, tk1, tk, ds, k)
<1>1. /\ At(text, max, n, a, tk) /\ n \in Nat /\ a = Len(tk1) /\ Grown(tk1, tk, 5 * k) /\ Finished(tk, a)
      /\ EntriesIn(text, tk, a, ds, k) /\ \A j \in a + 1 .. Len(tk) : tk[j].start <= n
  BY Zenon DEF Listed
<1>2. At(text, max, n + 1, a, tk) /\ n + 1 \in Nat
  BY <1>1, AtSeparator DEF IsText
<1>3. \A j \in a + 1 .. Len(tk) : tk[j].start <= n + 1
  <2> SUFFICES ASSUME NEW j \in a + 1 .. Len(tk) PROVE tk[j].start <= n + 1
    OBVIOUS
  <2>1. tk \in Seq(Tokens) /\ tk1 \in Seq(Tokens) /\ tk[j].start <= n
    BY <1>1 DEF Grown
  <2>2. tk[j] \in Tokens
    BY <1>1, <2>1
  <2>3. tk[j].start \in Nat
    BY <2>2 DEF Tokens
  <2> QED
    BY <1>1, <2>1, <2>3
<1> QED
  BY <1>1, <1>2, <1>3, Zenon DEF Listed

EntryTexts(ds) == [i \in DOMAIN ds |-> EntryText(ds[i])]
ArrayText(ds) == <<"lbracket">> \o Commas(EntryTexts(ds)) \o <<"rbracket">>

(* The array was read as token Len(tk) + 1. *)
ListRead(text, max, n, hi, su, tk, tk2, ds) ==
    /\ ValueAt(text, max, n, hi, su, tk, tk2, "array", 5 * Len(ds))
    /\ EntriesIn(text, tk2, Len(tk) + 1, ds, Len(ds))

(* ... closing the bracket behind the last entry *)
LEMMA ListedClose ==
  ASSUME NEW max \in Nat, NEW text, IsText(text), NEW n \in Nat, NEW su \in Nat, NEW tk \in Seq(Tokens),
         NEW tk1, tk1 = Append(tk, Token("array", n + 1, 0, su)), NEW m, NEW tk2, NEW ds, Len(ds) \in Nat,
         \A i \in 1 .. Len(ds) : GoodEntry(ds[i]),
         Listed(text, max, m, Len(tk) + 1, tk1, tk2, ds, Len(ds)), Has(text, m, <<"rbracket">>), n < m
  PROVE  \E tk3 : ListRead(text, max, n, m + 1, su, tk, tk3, ds)
<1> DEFINE K == Len(ds)
           a == Len(tk) + 1
           t0 == Token("array", n + 1, 0, su)
           c == 5 * K
           hi == m + 1
           tk3 == Closed(tk2, a, m + 2)
<1>1. /\ At(text, max, m, a, tk2) /\ m \in Nat /\ a = Len(tk1) /\ Grown(tk1, tk2, c) /\ Finished(tk2, a)
      /\ EntriesIn(text, tk2, a, ds, K) /\ \A j \in a + 1 .. Len(tk2) : tk2[j].start <= m
  BY Zenon DEF Listed
<1>2. t0 \in Tokens /\ t0.type = "array" /\ t0.start = n + 1 /\ t0.end = 0 /\ t0.parent = su
  BY DEF Token, Tokens, Kinds
<1>3. tk1 \in Seq(Tokens) /\ tk1[a] = t0 /\ \A i \in 1 .. Len(tk) : tk1[i] = tk[i]
  BY <1>2
<1>4. K \in Nat /\ c \in Nat /\ Len(tk) \in Nat /\ a \in Nat /\ a >= 1 /\ hi \in Nat /\ m + 2 = hi + 1 /\ n < hi /\ hi + 1 # 0
  BY <1>1
<1> HIDE DEF t0
<1>5. /\ tk2 \in Seq(Tokens) /\ Len(tk2) = a + c /\ tk2[a] = t0 /\ (\A i \in 1 .. Len(tk) : tk2[i] = tk[i])
      /\ a \in 1 .. Len(tk2)
  <2>1. tk2 \in Seq(Tokens) /\ Len(tk2) = a + c /\ \A i \in 1 .. a : tk2[i] = tk1[i]
    BY <1>1, Zenon DEF Grown
  <2>2. a \in 1 .. Len(tk2) /\ a \in 1 .. a /\ \A i \in 1 .. Len(tk) : i \in 1 .. a
    <3> HIDE DEF c
    <3> QED
      BY <1>4, <2>1
  <2> HIDE DEF a, c
  <2> QED
    BY <1>3, <2>1, <2>2, Zenon
<1>6. Innermost(tk2, a) /\ tk2[a].type = "array" /\ tk2[a].parent = su
  BY <1>1, <1>2, <1>5 DEF Innermost, Finished
<1>7. At(text, max, hi, su, tk3)
  <2>1. At(text, max, m + 1, tk2[a].parent, Closed(tk2, a, m + 2))
    <3> HIDE DEF a
    <3>1. Len(text) \in Nat
      BY DEF IsText
    <3> QED
      BY <1>1, <1>6, <3>1, AtClose
  <2> QED
    BY <1>6, <2>1
<1>8. /\ tk3 \in Seq(Tokens) /\ Len(tk3) = Len(tk2)
      /\ tk3[a] = Token("array", n + 1, hi + 1, su)
      /\ \A j \in 1 .. Len(tk2) : j # a => tk3[j] = tk2[j]
  <2> HIDE DEF a
  <2>1. m + 2 \in Nat
    BY <1>1
  <2>2. /\ tk3 \in Seq(Tokens) /\ Len(tk3) = Len(tk2)
        /\ tk3[a] = Token(tk2[a].type, tk2[a].start, m + 2, tk2[a].parent)
        /\ \A j \in 1 .. Len(tk2) : j # a => tk3[j] = tk2[j]
    BY <1>5, <2>1, ClosedSeq
  <2> HIDE DEF tk3
  <2> QED
    BY <1>2, <1>4, <1>5, <2>2
<1> HIDE DEF tk3
<1>9. Grown(tk, tk3, 1 + c)
  <2>1. Len(tk3) = Len(tk) + (1 + c)
    <3> HIDE DEF c
    <3> QED
      BY <1>4, <1>5, <1>8
  <2>2. \A i \in 1 .. Len(tk) : tk3[i] = tk[i]
    <3> SUFFICES ASSUME NEW i \in 1 .. Len(tk) PROVE tk3[i] = tk[i]
      OBVIOUS
    <3>1. i \in 1 .. Len(tk2) /\ i # a
      <4> HIDE DEF c
      <4> QED
        BY <1>4, <1>5
    <3> QED
      BY <1>5, <1>8, <3>1
  <2> QED
    BY <1>8, <2>1, <2>2, Zenon DEF Grown
<1>10. Finished(tk3, Len(tk))
  <2> SUFFICES ASSUME NEW j \in 1 .. Len(tk3), j > Len(tk) PROVE tk3[j].end # 0
    BY DEF Finished
  <2>1. CASE j = a
    <3>1. tk3[j].end = hi + 1
      BY <1>8, <2>1 DEF Token
    <3> QED
      BY <1>4, <3>1
  <2>2. CASE j > a
    <3>1. j \in 1 .. Len(tk2) /\ j # a
      BY <1>4, <1>8, <2>2
    <3>2. tk3[j] = tk2[j] /\ tk2[j].end # 0
      BY <1>1, <1>8, <2>2, <3>1, Zenon DEF Finished
    <3> QED
      BY <3>2
  <2> QED
    BY <1>4, <2>1, <2>2
<1>11. \A j \in Len(tk) + 2 .. Len(tk3) : tk3[j].start <= hi
  <2> SUFFICES ASSUME NEW j \in Len(tk) + 2 .. Len(tk3) PROVE tk3[j].start <= hi
    OBVIOUS
  <2>1. j \in a + 1 .. Len(tk2) /\ j \in 1 .. Len(tk2) /\ j # a
    BY <1>4, <1>8
  <2>2. tk3[j] = tk2[j] /\ tk2[j].start <= m /\ tk2[j] \in Tokens
    BY <1>1, <1>5, <1>8, <2>1
  <2> DEFINE s == tk2[j].start
  <2>3. s \in Nat /\ s <= m
    BY <2>2 DEF Tokens
  <2> HIDE DEF s
  <2>4. s <= hi
    BY <1>1, <2>3
  <2> QED
    BY <2>2, <2>4 DEF s
<1>12. EntriesIn(text, tk3, a, ds, K)
  <2> SUFFICES ASSUME NEW i \in 1 .. K PROVE EntryIn(text, tk3, a + (5 * i - 4), a, ds[i])
    BY DEF EntriesIn
  <2> DEFINE p == a + (5 * i - 4)
             d == ds[i]
  <2>1. EntryIn(text, tk2, p, a, d) /\ GoodEntry(d)
    BY <1>1 DEF EntriesIn
  <2>2. p \in Nat /\ p > a /\ p + 4 <= Len(tk2) /\ p + 4 <= Len(tk3)
    BY <1>4, <1>5, <1>8
  <2> HIDE DEF p, d, a
  <2>3. \A j \in p .. p + 4 : tk3[j] = tk2[j]
    BY <1>4, <1>5, <1>8, <2>2
  <2>4. EntryIn(text, tk3, p, a, d)
    BY <1>5, <1>8, <2>1, <2>2, <2>3, EntryAgree
  <2> QED
    BY <2>4 DEF p, d
<1>13. ValueAt(text, max, n, hi, su, tk, tk3, "array", c)
  BY <1>4, <1>7, <1>8, <1>9, <1>10, <1>11, Zenon DEF ValueAt
<1>14. ListRead(text, max, n, hi, su, tk, tk3, ds)
  BY <1>12, <1>13, Zenon DEF ListRead
<1> QED
  BY <1>14

LEMMA ArrayRead ==
  ASSUME NEW max \in Nat, NEW text, IsText(text), NEW n \in Nat, NEW su, NEW tk, At(text, max, n, su, tk),
         NEW ds, IsText(ds), \A i \in 1 .. Len(ds) : GoodEntry(ds[i]),
         Has(text, n, ArrayText(ds)), NEW hi, hi = n + Len(ArrayText(ds))
  PROVE  \E tk2 : ListRead(text, max, n, hi, su, tk, tk2, ds)
<1> DEFINE parts == EntryTexts(ds)
           c == Commas(parts)
           K == Len(ds)
           a == Len(tk) + 1
           lo == n + 1
<1>1. /\ Len(text) \in Nat /\ tk \in Seq(Tokens) /\ su \in Nat /\ Len(tk) \in Nat /\ lo \in Nat /\ a \in Nat
      /\ K \in Nat /\ DOMAIN ds = 1 .. K
  BY DEF IsText, At, Reads
<1>2. /\ IsText(parts) /\ Len(parts) = K
      /\ \A i \in 1 .. K : parts[i] = EntryText(ds[i]) /\ IsText(parts[i])
  <2>1. parts \in Seq({EntryText(ds[i]) : i \in 1 .. K}) /\ Len(parts) = K
    BY <1>1 DEF EntryTexts
  <2>2. \A i \in 1 .. K : parts[i] = EntryText(ds[i])
    BY <1>1 DEF EntryTexts
  <2>3. \A i \in 1 .. K : IsText(EntryText(ds[i]))
    BY EntryTextText, Zenon DEF GoodEntry
  <2> HIDE DEF parts
  <2> QED
    BY <2>1, <2>2, <2>3, SeqIsText
<1> HIDE DEF parts
<1>3. IsText(c) /\ Len(c) \in Nat
  <2>1. IsText(c)
    BY <1>2, AnyCommasText
  <2> QED
    BY <2>1 DEF IsText
<1>4. ArrayText(ds) = <<"lbracket">> \o c \o <<"rbracket">>
  BY Zenon DEF ArrayText, parts
<1> HIDE DEF c
<1> DEFINE m == lo + Len(c)
<1>5. /\ Has(text, n, <<"lbracket">>) /\ Has(text, lo, c) /\ Has(text, m, <<"rbracket">>)
      /\ hi = m + 1 /\ n < m /\ m \in Nat
  <2>2. Len(ArrayText(ds)) = Len(c) + 2
    BY <1>3, <1>4, BracketsHas
  <2>3. Has(text, n, <<"lbracket">>) /\ Has(text, n + 1, c) /\ Has(text, (n + 1) + Len(c), <<"rbracket">>)
    BY <1>1, <1>3, <1>4, BracketsHas, Zenon
  <2> QED
    BY <1>3, <2>2, <2>3
<1> DEFINE t0 == Token("array", n + 1, 0, su)
           tk1 == Append(tk, t0)
<1>6. At(text, max, lo, a, tk1)
  BY <1>1, <1>5, AtOpen, Zenon
<1>7. tk1 \in Seq(Tokens) /\ Len(tk1) = a
  <2>1. t0 = Token("array", n + 1, 0, su) /\ "array" \in Kinds /\ n + 1 \in Nat /\ 0 \in Nat
    BY DEF Kinds
  <2> HIDE DEF t0
  <2> QED
    BY <1>1, <2>1, OneMore
<1> HIDE DEF t0, tk1
<1>8. Listed(text, max, lo, a, tk1, tk1, ds, 0)
  <2>1. Grown(tk1, tk1, 5 * 0)
    BY <1>7 DEF Grown
  <2>2. Finished(tk1, a)
    BY <1>1, <1>7 DEF Finished
  <2>3. EntriesIn(text, tk1, a, ds, 0)
    BY DEF EntriesIn
  <2>4. \A j \in a + 1 .. Len(tk1) : tk1[j].start <= lo
    BY <1>1, <1>7
  <2> HIDE DEF a, lo
  <2> QED
    BY <1>1, <1>6, <1>7, <2>1, <2>2, <2>3, <2>4, Zenon DEF Listed
<1>9. \E tk2 : Listed(text, max, m, a, tk1, tk2, ds, K)
  <2>1. CASE K = 0
    <3>1. Len(c) = 0
      <4>1. Commas(parts) = <<>>
        BY <1>2, <2>1, NoCommas
      <4> QED
        BY <4>1, EmptyText DEF c
    <3>2. m = lo
      BY <1>1, <3>1
    <3> QED
      BY <1>8, <2>1, <3>2
  <2>2. CASE K # 0
    <3>1. PICK at : Separated(text, parts, lo, at)
      <4>1. \A i \in 1 .. Len(parts) : IsText(parts[i])
        BY <1>2
      <4>2. Len(parts) # 0 /\ Has(text, lo, Commas(parts))
        BY <1>2, <1>5, <2>2 DEF c
      <4>3. \E at : Separated(text, parts, lo, at)
        BY <1>1, <1>2, <4>1, <4>2, CommasHas, Zenon
      <4> QED
        BY <4>3
    <3>2. /\ at[1] = lo /\ \A i \in 1 .. K : at[i] \in Nat /\ Has(text, at[i], parts[i])
          /\ at[K] + Len(parts[K]) = m
          /\ \A i \in 1 .. K - 1 : /\ Has(text, at[i] + Len(parts[i]), <<"comma">>)
                                   /\ at[i + 1] = (at[i] + Len(parts[i])) + 1
      BY <1>2, <3>1 DEF Separated, c
    <3>3. ASSUME NEW k \in Nat, k + 1 <= K, NEW tk2, Listed(text, max, at[k + 1], a, tk1, tk2, ds, k)
          PROVE  \E tk3 : Listed(text, max, at[k + 1] + Len(parts[k + 1]), a, tk1, tk3, ds, k + 1)
      <4> DEFINE b == at[k + 1]
                 e == b + Len(parts[k + 1])
      <4>1. k + 1 \in 1 .. K
        BY <1>1, <3>3
      <4>2. Has(text, b, EntryText(ds[k + 1])) /\ e = b + Len(EntryText(ds[k + 1]))
        BY <1>2, <3>2, <4>1
      <4>3. \A i \in 1 .. k + 1 : GoodEntry(ds[i])
        BY <4>1
      <4>4. Listed(text, max, b, a, tk1, tk2, ds, k)
        BY <3>3
      <4> HIDE DEF b, e, a
      <4>5. \E tk3 : Listed(text, max, e, a, tk1, tk3, ds, k + 1)
        BY <4>2, <4>3, <4>4, ListedEntry, Zenon
      <4> QED
        BY <4>5 DEF e, b
    <3> DEFINE T == {k \in Nat : k + 1 <= K =>
                        \E tk2 : Listed(text, max, at[k + 1] + Len(parts[k + 1]), a, tk1, tk2, ds, k + 1)}
    <3>4. 0 \in T
      <4>1. 0 \in Nat /\ 0 + 1 <= K /\ at[0 + 1] = lo
        BY <1>1, <2>2, <3>2
      <4>2. Listed(text, max, at[0 + 1], a, tk1, tk1, ds, 0)
        BY <1>8, <4>1
      <4> QED
        BY <3>3, <4>1, <4>2
    <3>5. ASSUME NEW k \in Nat, k \in T PROVE k + 1 \in T
      <4> SUFFICES ASSUME (k + 1) + 1 <= K
                   PROVE  \E tk2 : Listed(text, max, at[(k + 1) + 1] + Len(parts[(k + 1) + 1]), a, tk1, tk2, ds, (k + 1) + 1)
        OBVIOUS
      <4> DEFINE e == at[k + 1] + Len(parts[k + 1])
                 l == k + 1
      <4>1. k + 1 <= K /\ l \in 1 .. K - 1 /\ l \in 1 .. K /\ l \in Nat
        BY <1>1
      <4>2. PICK tk2 : Listed(text, max, e, a, tk1, tk2, ds, l)
        BY <3>5, <4>1
      <4>3. Has(text, e, <<"comma">>) /\ at[l + 1] = e + 1
        BY <3>2, <4>1
      <4> HIDE DEF e, l, lo, a
      <4>4. Listed(text, max, e + 1, a, tk1, tk2, ds, l)
        BY <4>1, <4>2, <4>3, ListedComma, Zenon
      <4>5. l + 1 <= K /\ Listed(text, max, at[l + 1], a, tk1, tk2, ds, l)
        BY <4>3, <4>4 DEF l
      <4>6. \E tk3 : Listed(text, max, at[l + 1] + Len(parts[l + 1]), a, tk1, tk3, ds, l + 1)
        BY <3>3, <4>1, <4>5, Zenon
      <4> QED
        BY <4>6 DEF l
    <3>6. \A k \in Nat : k \in T
      <4> HIDE DEF T
      <4>1. \A k \in Nat : k \in T => k + 1 \in T
        BY <3>5, Zenon
      <4> QED
        BY <3>4, <4>1, SetInduction, Zenon
    <3>7. K - 1 \in Nat /\ (K - 1) + 1 = K /\ K <= K
      BY <1>1, <2>2
    <3>8. K - 1 \in T
      BY <3>6, <3>7
    <3>9. \E tk2 : Listed(text, max, at[K] + Len(parts[K]), a, tk1, tk2, ds, K)
      BY <3>7, <3>8
    <3> QED
      BY <3>2, <3>9
  <2> QED
    BY <2>1, <2>2
<1>10. PICK tk2 : Listed(text, max, m, Len(tk) + 1, tk1, tk2, ds, Len(ds))
  BY <1>9
<1>11. tk1 = Append(tk, Token("array", n + 1, 0, su)) /\ Len(ds) \in Nat
  BY <1>1 DEF tk1, t0
<1> HIDE DEF m
<1>12. \E tk3 : ListRead(text, max, n, m + 1, su, tk, tk3, ds)
  BY <1>1, <1>5, <1>10, <1>11, ListedClose
<1> QED
  BY <1>5, <1>12

(* The whole answer is an object with status ok and the array under its     *)
(* key; only the tokens of the entries are inside the array.                *)
HasList(text, max, key, ds, t, o) ==
    /\ ParseIs(text, max, t) /\ Answered(text, t, key, o) /\ t[o].type = "array"
    /\ EntriesIn(text, t, o, ds, Len(ds)) /\ Len(t) = 5 + 5 * Len(ds) /\ o + 5 * Len(ds) <= Len(t)
    /\ \A j \in o + 1 .. o + 5 * Len(ds) : t[j].start < t[o].end
    /\ \A j \in 1 .. Len(t) : j \notin o + 1 .. o + 5 * Len(ds) => t[j].parent <= 1

LEMMA HeldList ==
  ASSUME NEW text, NEW max, NEW n \in Nat, NEW hi, NEW su, NEW tk, NEW tk2, NEW ds, Len(ds) \in Nat,
         \A i \in 1 .. Len(ds) : GoodEntry(ds[i]),
         ListRead(text, max, n, hi, su, tk, tk2, ds), NEW key, NEW t, Held(text, key, t, tk, tk2),
         ParseIs(text, max, t)
  PROVE  HasList(text, max, key, ds, t, Len(tk) + 1)
<1> DEFINE o == Len(tk) + 1
           K == Len(ds)
           c == 5 * K
<1>1. /\ Grown(tk, tk2, 1 + c) /\ hi \in Nat /\ tk2[o] = Token("array", n + 1, hi + 1, su)
      /\ (\A j \in Len(tk) + 2 .. Len(tk2) : tk2[j].start <= hi) /\ EntriesIn(text, tk2, o, ds, K)
  BY Zenon DEF ListRead, ValueAt
<1>2. /\ t \in Seq(Tokens) /\ Len(tk) \in 2 .. 4
      /\ Len(tk2) <= Len(t) /\ (\A j \in o .. Len(tk2) : t[j] = tk2[j])
      /\ (\A j \in 1 .. Len(t) : j \notin Len(tk) + 2 .. Len(tk2) => t[j].parent <= 1)
      /\ Len(t) = (Len(tk2) - Len(tk)) + 4
  BY Zenon DEF Held
<1>3. tk2 \in Seq(Tokens) /\ Len(tk2) = Len(tk) + (1 + c)
  BY <1>1, Zenon DEF Grown
<1>4. /\ o \in Nat /\ K \in Nat /\ c \in Nat /\ Len(tk2) = o + c /\ o + c <= Len(t)
      /\ Len(t) = 5 + c /\ o \in o .. Len(tk2) /\ Len(tk) + 2 = o + 1
  <2> DEFINE a == Len(tk)
             b == Len(tk2)
             d == Len(t)
  <2>1. a \in Nat /\ d \in Nat /\ b <= d /\ d = (b - a) + 4 /\ b = a + (1 + c) /\ o = a + 1 /\ c \in Nat
    BY <1>2, <1>3
  <2> HIDE DEF a, b, d, c, o
  <2>2. o \in Nat /\ b = o + c /\ o + c <= d /\ d = 5 + c /\ o \in o .. b /\ a + 2 = o + 1
    BY <2>1
  <2> QED
    BY <2>1, <2>2 DEF a, b, d
<1>5. t[o] = Token("array", n + 1, hi + 1, su)
  BY <1>1, <1>2, <1>4
<1>6. t[o].type = "array" /\ t[o].end = hi + 1
  BY <1>5 DEF Token
<1>7. EntriesIn(text, t, o, ds, K)
  <2> SUFFICES ASSUME NEW i \in 1 .. K PROVE EntryIn(text, t, o + (5 * i - 4), o, ds[i])
    BY DEF EntriesIn
  <2> DEFINE p == o + (5 * i - 4)
             d == ds[i]
  <2>1. EntryIn(text, tk2, p, o, d) /\ GoodEntry(d)
    BY <1>1 DEF EntriesIn
  <2>2. p \in Nat /\ p >= o /\ p + 4 <= Len(tk2) /\ p + 4 <= Len(t)
    BY <1>4
  <2> HIDE DEF p, d, o
  <2>3. \A j \in p .. p + 4 : t[j] = tk2[j]
    BY <1>2, <1>3, <1>4, <2>2
  <2>4. EntryIn(text, t, p, o, d)
    BY <1>2, <1>3, <2>1, <2>2, <2>3, EntryAgree
  <2> QED
    BY <2>4 DEF p, d
<1>8. \A j \in o + 1 .. o + c : t[j].start < t[o].end
  <2> SUFFICES ASSUME NEW j \in o + 1 .. o + c PROVE t[j].start < t[o].end
    OBVIOUS
  <2>1. j \in o .. Len(tk2) /\ j \in Len(tk) + 2 .. Len(tk2) /\ j \in 1 .. Len(t)
    <3> HIDE DEF o, c
    <3> QED
      BY <1>4
  <2>2. t[j] = tk2[j] /\ tk2[j].start <= hi /\ t[j] \in Tokens
    BY <1>1, <1>2, <2>1
  <2> DEFINE s == tk2[j].start
  <2>3. s \in Nat /\ s <= hi
    BY <2>2 DEF Tokens
  <2> HIDE DEF s
  <2>4. s < hi + 1
    BY <1>1, <2>3
  <2> QED
    BY <1>6, <2>2, <2>4 DEF s
<1>9. \A j \in 1 .. Len(t) : j \notin o + 1 .. o + c => t[j].parent <= 1
  BY <1>2, <1>4
<1>10. Answered(text, t, key, o)
  BY HeldAnswered, Zenon
<1> HIDE DEF o
<1>11. HasList(text, max, key, ds, t, o)
  BY <1>4, <1>6, <1>7, <1>8, <1>9, <1>10, Zenon DEF HasList
<1> QED
  BY <1>11 DEF o

LEMMA ListFirst ==
  ASSUME NEW max \in Nat, NEW key, key \notin {"quote", "bslash", "status"}, NEW ds, IsText(ds),
         \A i \in 1 .. Len(ds) : GoodEntry(ds[i]), NEW v, v = ArrayText(ds), IsText(v)
  PROVE  \E t, o : HasList(Line(FirstParts(key, v)), max, key, ds, t, o)
<1> DEFINE text == Line(FirstParts(key, v))
           n == 13
           hi == n + Len(v)
           su == 1
<1>1. PICK tk : FirstOpened(text, max, key, v, tk)
  BY StatusFirst
<1>2. IsText(text) /\ At(text, max, n, su, tk) /\ Has(text, n, v) /\ n \in Nat
  BY <1>1 DEF FirstOpened
<1>3. hi = n + Len(ArrayText(ds)) /\ Len(ds) \in Nat
  BY DEF IsText
<1> HIDE DEF text, n, hi, su
<1>4. PICK tk2 : ListRead(text, max, n, hi, su, tk, tk2, ds)
  BY <1>2, <1>3, ArrayRead
<1>5. ValueAt(text, max, n, hi, su, tk, tk2, "array", 5 * Len(ds))
  BY <1>4, Zenon DEF ListRead
<1> DEFINE kind == "array"
           c == 5 * Len(ds)
<1>6. ValueAt(Line(FirstParts(key, v)), max, 13, 13 + Len(v), 1, tk, tk2, kind, c)
  BY <1>5 DEF text, n, hi, su
<1> HIDE DEF kind, c
<1>7. PICK t : Held(Line(FirstParts(key, v)), key, t, tk, tk2) /\ ParseIs(Line(FirstParts(key, v)), max, t)
  BY <1>1, <1>6, FirstClosed, Zenon DEF text
<1>8. Held(text, key, t, tk, tk2) /\ ParseIs(text, max, t)
  BY <1>7, Zenon DEF text
<1>9. HasList(text, max, key, ds, t, Len(tk) + 1)
  BY <1>2, <1>3, <1>4, <1>8, HeldList
<1> QED
  BY <1>9, Zenon DEF text

LEMMA ListLast ==
  ASSUME NEW max \in Nat, NEW key, key \notin {"quote", "bslash", "status"}, NEW ds, IsText(ds),
         \A i \in 1 .. Len(ds) : GoodEntry(ds[i]), NEW v, v = ArrayText(ds), IsText(v)
  PROVE  \E t, o : HasList(Line(LastParts(key, v)), max, key, ds, t, o)
<1> DEFINE text == Line(LastParts(key, v))
           n == 5
           hi == n + Len(v)
           su == 1
<1>1. PICK tk : LastOpened(text, max, key, v, tk)
  BY StatusLast
<1>2. IsText(text) /\ At(text, max, n, su, tk) /\ Has(text, n, v) /\ n \in Nat
  BY <1>1 DEF LastOpened
<1>3. hi = n + Len(ArrayText(ds)) /\ Len(ds) \in Nat
  BY DEF IsText
<1> HIDE DEF text, n, hi, su
<1>4. PICK tk2 : ListRead(text, max, n, hi, su, tk, tk2, ds)
  BY <1>2, <1>3, ArrayRead
<1>5. ValueAt(text, max, n, hi, su, tk, tk2, "array", 5 * Len(ds))
  BY <1>4, Zenon DEF ListRead
<1> DEFINE kind == "array"
           c == 5 * Len(ds)
<1>6. ValueAt(Line(LastParts(key, v)), max, 5, 5 + Len(v), 1, tk, tk2, kind, c)
  BY <1>5 DEF text, n, hi, su
<1> HIDE DEF kind, c
<1>7. PICK t : Held(Line(LastParts(key, v)), key, t, tk, tk2) /\ ParseIs(Line(LastParts(key, v)), max, t)
  BY <1>1, <1>6, LastClosed, Zenon DEF text
<1>8. Held(text, key, t, tk, tk2) /\ ParseIs(text, max, t)
  BY <1>7, Zenon DEF text
<1>9. HasList(text, max, key, ds, t, Len(tk) + 1)
  BY <1>2, <1>3, <1>4, <1>8, HeldList
<1> QED
  BY <1>9, Zenon DEF text

(* An answer with a list of entries under a key, wherever the status stands *)
LEMMA ListAnswer ==
  ASSUME NEW max \in Nat, NEW key, key \notin {"quote", "bslash", "status"}, NEW ds, IsText(ds),
         \A i \in 1 .. Len(ds) : GoodEntry(ds[i])
  PROVE  \E t, o : HasList(Answer(key, ArrayText(ds)), max, key, ds, t, o)
<1> DEFINE v == ArrayText(ds)
           parts == EntryTexts(ds)
           c == Commas(parts)
<1>1. IsText(v)
  <2>1. DOMAIN ds = 1 .. Len(ds) /\ Len(ds) \in Nat
    BY DEF IsText
  <2>2. parts \in Seq({EntryText(ds[i]) : i \in 1 .. Len(ds)}) /\ Len(parts) = Len(ds)
    BY <2>1 DEF EntryTexts
  <2>3. \A i \in 1 .. Len(ds) : parts[i] = EntryText(ds[i])
    BY <2>1 DEF EntryTexts
  <2>4. \A i \in 1 .. Len(ds) : IsText(EntryText(ds[i]))
    BY EntryTextText, Zenon DEF GoodEntry
  <2>5. v = <<"lbracket">> \o c \o <<"rbracket">>
    BY Zenon DEF ArrayText
  <2> HIDE DEF parts, v
  <2>6. IsText(parts) /\ \A i \in 1 .. Len(parts) : IsText(parts[i])
    BY <2>2, <2>3, <2>4, SeqIsText
  <2>7. IsText(c)
    BY <2>6, AnyCommasText
  <2> HIDE DEF c
  <2> QED
    BY <2>5, <2>7, BracketsHas
<1>2. v = ArrayText(ds)
  OBVIOUS
<1> HIDE DEF v
<1>3. Answer(key, v) = Line(FirstParts(key, v)) \/ Answer(key, v) = Line(LastParts(key, v))
  BY DEF Answer, FirstParts, LastParts
<1>4. CASE Answer(key, v) = Line(FirstParts(key, v))
  <2>1. \E t, o : HasList(Line(FirstParts(key, v)), max, key, ds, t, o)
    BY <1>1, <1>2, ListFirst
  <2> QED
    BY <1>2, <1>4, <2>1, Zenon
<1>5. CASE Answer(key, v) = Line(LastParts(key, v))
  <2>1. \E t, o : HasList(Line(LastParts(key, v)), max, key, ds, t, o)
    BY <1>1, <1>2, ListLast
  <2> QED
    BY <1>2, <1>5, <2>1, Zenon
<1> QED
  BY <1>3, <1>4, <1>5, Zenon

(* the loop of httpfs_list_dir *)
IsEntry(t, a, i) == i > a /\ t[i].start < t[a].end /\ t[i].parent = a /\ t[i].type = "object"
EntryTurn(t, a, before, i) == IF IsEntry(t, a, i) THEN Append(before, i) ELSE before

LEMMA EntryTurns ==
  ASSUME NEW t, Len(t) \in Nat, NEW a
  PROVE  \E upto : /\ EntryTokens(t, a) = upto[Len(t)] /\ upto[0] = <<>>
                   /\ \A i \in 1 .. Len(t) : upto[i] = EntryTurn(t, a, upto[i - 1], i)
<1> DEFINE zero == <<>>
           turn(p, n) == EntryTurn(t, a, p, n)
           solves(g, k) == g = [n \in 0 .. k |-> IF n = 0 THEN zero ELSE turn(g[n - 1], n)]
           T == {k \in Nat : \E g : solves(g, k)}
           upto == CHOOSE x : solves(x, Len(t))
<1>0. EntryTokens(t, a) = upto[Len(t)]
  BY Zenon DEF EntryTokens, EntryTurn, IsEntry
<1> HIDE DEF turn, zero
<1>1. 0 \in T
  <2>1. solves([n \in 0 .. 0 |-> zero], 0)
    OBVIOUS
  <2> QED
    BY <2>1
<1>2. ASSUME NEW k \in Nat, k \in T
      PROVE  k + 1 \in T
  <2>1. PICK g : solves(g, k)
    BY <1>2
  <2> DEFINE h == [n \in 0 .. k + 1 |-> IF n <= k THEN g[n] ELSE turn(g[k], k + 1)]
  <2>2. \A n \in 0 .. k + 1 : h[n] = IF n = 0 THEN zero ELSE turn(h[n - 1], n)
    <3> TAKE n \in 0 .. k + 1
    <3>1. CASE n <= k
      <4>1. n \in 0 .. k /\ (n # 0 => n - 1 \in 0 .. k + 1 /\ n - 1 <= k)
        BY <3>1
      <4>2. h[n] = g[n] /\ (n # 0 => h[n - 1] = g[n - 1])
        BY <3>1, <4>1
      <4>3. g[n] = IF n = 0 THEN zero ELSE turn(g[n - 1], n)
        BY <2>1, <4>1
      <4> QED
        BY <4>2, <4>3
    <3>2. CASE n = k + 1
      <4>1. n # 0 /\ n - 1 = k /\ ~ (n <= k) /\ k \in 0 .. k + 1 /\ k <= k
        BY <3>2
      <4>2. h[n] = turn(g[k], k + 1) /\ h[n - 1] = g[k]
        BY <4>1
      <4> QED
        BY <3>2, <4>1, <4>2
    <3> QED
      BY <3>1, <3>2
  <2>3. solves(h, k + 1) /\ k + 1 \in Nat
    BY <2>2
  <2> HIDE DEF h, solves
  <2> QED
    BY <2>3
<1>3. \A k \in Nat : k \in T
  <2> HIDE DEF T
  <2>1. \A n \in Nat : n \in T => n + 1 \in T
    BY <1>2, Zenon
  <2> QED
    BY <1>1, <2>1, SetInduction, Zenon
<1>4. PICK g : solves(g, Len(t))
  BY <1>3
<1>5. solves(upto, Len(t))
  <2> HIDE DEF solves
  <2> QED
    BY <1>4, Zenon
<1> HIDE DEF upto
<1>6. upto[0] = zero /\ \A n \in 1 .. Len(t) : upto[n] = turn(upto[n - 1], n)
  BY <1>5
<1> QED
  BY <1>0, <1>6 DEF zero, turn

(* A function that does not change from step to step does not change. *)
LEMMA Stretch ==
  ASSUME NEW f, NEW lo \in Nat, NEW d \in Nat, \A j \in lo + 1 .. lo + d : f[j] = f[j - 1]
  PROVE  f[lo + d] = f[lo]
<1> DEFINE T == {k \in Nat : k <= d => f[lo + k] = f[lo]}
<1>1. 0 \in T
  OBVIOUS
<1>2. ASSUME NEW k \in Nat, k \in T PROVE k + 1 \in T
  <2> SUFFICES ASSUME k + 1 <= d PROVE f[lo + (k + 1)] = f[lo]
    OBVIOUS
  <2> DEFINE j == lo + (k + 1)
  <2>1. j \in lo + 1 .. lo + d /\ j - 1 = lo + k /\ k <= d
    OBVIOUS
  <2>2. f[j] = f[j - 1] /\ f[lo + k] = f[lo]
    BY <1>2, <2>1
  <2> QED
    BY <2>1, <2>2
<1>3. \A k \in Nat : k \in T
  <2> HIDE DEF T
  <2>1. \A n \in Nat : n \in T => n + 1 \in T
    BY <1>2, Zenon
  <2> QED
    BY <1>1, <2>1, SetInduction, Zenon
<1>4. d \in T /\ d <= d
  BY <1>3
<1> QED
  BY <1>4

LEMMA EntryInside ==
  ASSUME NEW text, NEW t \in Seq(Tokens), NEW q, NEW a, NEW e, GoodEntry(e), EntryIn(text, t, q, a, e),
         NEW j \in q + 1 .. q + 4
  PROVE  t[j].parent = q
<1> DEFINE ms == EntryMembers(e)
           k == Len(ms)
<1>1. k = 2 /\ q \in Nat /\ ObjectIn(text, t, q, ms)
  BY EntryIs DEF EntryIn
<1>2. PICK lo \in Nat, hi \in Nat : Flat(text, t, q, ms, Len(ms), lo, hi)
  BY <1>1 DEF ObjectIn
<1>3. Flat(text, t, q, ms, k, lo, hi) /\ k \in Nat /\ j \in q + 1 .. q + 2 * k
  BY <1>1, <1>2
<1> HIDE DEF ms, k
<1>4. t[j].start <= hi + 1 /\ t[j].parent = q /\ j \in 1 .. Len(t)
  BY <1>1, <1>3, FlatInside
<1> QED
  BY <1>4

(* The tokens of the entries are found, and no others. *)
Firsts(o, k) == [i \in 1 .. k |-> o + (5 * i - 4)]

LEMMA EntriesFound ==
  ASSUME NEW text, NEW max, NEW key, NEW ds, Len(ds) \in Nat, NEW t, NEW o, HasList(text, max, key, ds, t, o),
         \A i \in 1 .. Len(ds) : GoodEntry(ds[i])
  PROVE  EntryTokens(t, o) = Firsts(o, Len(ds))
<1> DEFINE K == Len(ds)
           L == Len(t)
           p(i) == o + (5 * i - 4)
<1>1. /\ t \in Seq(Tokens) /\ o \in 3 .. 5
  BY Zenon DEF HasList, Answered
<1>2. /\ EntriesIn(text, t, o, ds, K) /\ L = 5 + 5 * K /\ o + 5 * K <= L
      /\ (\A j \in o + 1 .. o + 5 * K : t[j].start < t[o].end)
      /\ \A j \in 1 .. L : j \notin o + 1 .. o + 5 * K => t[j].parent <= 1
  BY Zenon DEF HasList
<1>3. L \in Nat /\ K \in Nat /\ o \in Nat /\ 5 * K \in Nat
  BY <1>1
<1>4. ASSUME NEW i \in 1 .. K
      PROVE  /\ IsEntry(t, o, p(i))
             /\ \A j \in p(i) + 1 .. p(i) + 4 : ~ IsEntry(t, o, j)
  <2> DEFINE q == p(i)
             ms == EntryMembers(ds[i])
  <2>1. q \in Nat /\ q \in o + 1 .. o + 5 * K /\ q > o /\ q # o
    BY <1>3
  <2>2. EntryIn(text, t, q, o, ds[i]) /\ Len(ms) = 2
    BY <1>2, EntryIs DEF EntriesIn
  <2> HIDE DEF q, ms
  <2>3. t[q].type = "object" /\ t[q].parent = o /\ ObjectIn(text, t, q, ms)
    BY <2>2 DEF EntryIn, ms
  <2>5. ASSUME NEW j \in q + 1 .. q + 4 PROVE ~ IsEntry(t, o, j)
    <3>1. EntryIn(text, t, q, o, ds[i]) /\ GoodEntry(ds[i])
      BY <2>2
    <3>2. t[j].parent = q
      BY <1>1, <3>1, EntryInside
    <3> QED
      BY <2>1, <3>2 DEF IsEntry
  <2>6. t[q].start < t[o].end
    BY <1>2, <2>1
  <2>7. IsEntry(t, o, q)
    BY <2>1, <2>3, <2>6 DEF IsEntry
  <2> QED
    BY <2>5, <2>7 DEF q
<1>5. ASSUME NEW j \in 1 .. L, j <= o \/ j > o + 5 * K PROVE ~ IsEntry(t, o, j)
  <2>1. CASE j <= o
    BY <1>3, <2>1 DEF IsEntry
  <2>2. CASE j > o + 5 * K
    <3>1. t[j].parent <= 1
      BY <1>2, <1>3, <2>2
    <3>2. t[j].parent # o
      BY <1>1, <3>1
    <3> QED
      BY <3>2 DEF IsEntry
  <2> QED
    BY <1>5, <2>1, <2>2
<1>6. PICK upto : /\ EntryTokens(t, o) = upto[L] /\ upto[0] = <<>>
                  /\ \A i \in 1 .. L : upto[i] = EntryTurn(t, o, upto[i - 1], i)
  BY <1>3, EntryTurns
<1>7. \A j \in 1 .. L : ~ IsEntry(t, o, j) => upto[j] = upto[j - 1]
  BY <1>6 DEF EntryTurn
<1> DEFINE T == {k \in Nat : k <= K => upto[o + 5 * k] = Firsts(o, k)}
<1>8. 0 \in T
  <2>1. \A j \in 0 + 1 .. 0 + o : upto[j] = upto[j - 1]
    <3> SUFFICES ASSUME NEW j \in 0 + 1 .. 0 + o PROVE upto[j] = upto[j - 1]
      OBVIOUS
    <3>1. j \in 1 .. L /\ j <= o
      BY <1>2, <1>3
    <3> QED
      BY <1>5, <1>7, <3>1
  <2>2. upto[0 + o] = upto[0]
    BY <1>3, <2>1, Stretch
  <2>3. Firsts(o, 0) = <<>>
    BY DEF Firsts
  <2>4. o + 5 * 0 = 0 + o
    BY <1>3
  <2> QED
    BY <1>6, <2>2, <2>3, <2>4
<1>9. ASSUME NEW k \in Nat, k \in T PROVE k + 1 \in T
  <2> SUFFICES ASSUME k + 1 <= K PROVE upto[o + 5 * (k + 1)] = Firsts(o, k + 1)
    OBVIOUS
  <2> DEFINE b == o + 5 * k
             q == b + 1
  <2>1. /\ k + 1 \in 1 .. K /\ q = p(k + 1) /\ q - 1 = b /\ q \in 1 .. L /\ q \in Nat /\ q + 4 <= L
        /\ o + 5 * (k + 1) = q + 4
    BY <1>2, <1>3
  <2>2. upto[b] = Firsts(o, k)
    BY <1>3, <1>9
  <2>3. IsEntry(t, o, q) /\ \A j \in q + 1 .. q + 4 : ~ IsEntry(t, o, j)
    BY <1>4, <2>1
  <2> HIDE DEF b, q
  <2>4. upto[q] = Append(Firsts(o, k), q)
    BY <1>6, <2>1, <2>2, <2>3 DEF EntryTurn
  <2>5. \A j \in q + 1 .. q + 4 : upto[j] = upto[j - 1]
    BY <1>3, <1>7, <2>1, <2>3
  <2>6. upto[q + 4] = upto[q]
    <3> DEFINE d == 4
    <3>1. d \in Nat /\ \A j \in q + 1 .. q + d : upto[j] = upto[j - 1]
      BY <2>5
    <3> HIDE DEF d
    <3>2. upto[q + d] = upto[q]
      BY <2>1, <3>1, Stretch
    <3> QED
      BY <3>2 DEF d
  <2>7. Append(Firsts(o, k), q) = Firsts(o, k + 1)
    BY <1>3, <2>1 DEF Firsts
  <2> QED
    BY <2>1, <2>4, <2>6, <2>7
<1>10. \A k \in Nat : k \in T
  <2> HIDE DEF T
  <2>1. \A n \in Nat : n \in T => n + 1 \in T
    BY <1>9, Zenon
  <2> QED
    BY <1>8, <2>1, SetInduction, Zenon
<1>11. upto[o + 5 * K] = Firsts(o, K)
  BY <1>3, <1>10
<1>12. upto[L] = upto[o + 5 * K]
  <2> DEFINE b == o + 5 * K
             d == L - b
  <2>1. b \in Nat /\ d \in Nat /\ b + d = L
    BY <1>2, <1>3
  <2>2. \A j \in b + 1 .. b + d : upto[j] = upto[j - 1]
    <3> SUFFICES ASSUME NEW j \in b + 1 .. b + d PROVE upto[j] = upto[j - 1]
      OBVIOUS
    <3>1. j \in 1 .. L /\ j > o + 5 * K
      BY <1>3, <2>1
    <3> QED
      BY <1>5, <1>7, <3>1
  <2> HIDE DEF b, d
  <2>3. upto[b + d] = upto[b]
    BY <2>1, <2>2, Stretch
  <2> QED
    BY <2>1, <2>3 DEF b
<1> QED
  BY <1>6, <1>11, <1>12

-----------------------------------------------------------------------------
(* What httpfs_list_dir makes of a listing *)

LEMMA ObjectFind ==
  ASSUME NEW text, NEW t \in Seq(Tokens), NEW o \in Nat, o # 0, NEW ms, Len(ms) \in Nat,
         ObjectIn(text, t, o, ms), NEW j \in 1 .. Len(ms), FirstKey(ms, j)
  PROVE  MemberAt(text, t, o, ms, j)
<1> DEFINE k == Len(ms)
<1>1. PICK lo \in Nat, hi \in Nat : Flat(text, t, o, ms, k, lo, hi) /\ t[o].end = hi + 1
  BY DEF ObjectIn
<1>2. k \in Nat /\ j \in 1 .. k
  OBVIOUS
<1> HIDE DEF k
<1> QED
  BY <1>1, <1>2, FlatFind

Read(e) == [ok |-> TRUE, name |-> EscapedBy(e.name), type |-> <<e.type>>]

LEMMA EntryRead ==
  ASSUME NEW t \in Seq(Tokens), NEW q, q # 0, NEW a, NEW e, GoodEntry(e), EntryIn(response, t, q, a, e)
  PROVE  Entry(t, q) = IF Len(EscapedBy(e.name)) + 1 > NameSize THEN Failed ELSE Read(e)
<1> DEFINE ms == EntryMembers(e)
           k == Len(ms)
           nm == EscapedBy(e.name)
           ty == <<e.type>>
<1>1. k = 2 /\ q \in Nat /\ ObjectIn(response, t, q, ms)
  BY EntryIs DEF EntryIn
<1>2. /\ ms[1].key = "name" /\ ms[1].v = nm /\ ms[2].key = "type" /\ ms[2].v = ty
  <2>1. ms[1] = R("name", "string", nm) /\ ms[2] = R("type", "string", ty)
    BY EntryIs
  <2> HIDE DEF ms, nm, ty
  <2> QED
    BY <2>1, PieceOf
<1>3. Len(ms) \in Nat /\ 1 \in 1 .. Len(ms) /\ 2 \in 1 .. Len(ms)
  BY <1>1
<1> HIDE DEF ms, k, nm, ty
<1>5. /\ find_object_value(response, t, q, ms[1].key) = q + 2 * 1 /\ q + 2 * 1 # NoToken
      /\ TokenText(response, t[q + 2 * 1]) = ms[1].v
  <2> DEFINE j == 1
  <2>1. j \in 1 .. Len(ms) /\ FirstKey(ms, j)
    BY <1>3 DEF FirstKey
  <2> HIDE DEF j
  <2>2. MemberAt(response, t, q, ms, j)
    BY <1>1, <1>3, <2>1, ObjectFind
  <2> QED
    BY <2>2 DEF j, MemberAt
<1>6. /\ find_object_value(response, t, q, ms[2].key) = q + 2 * 2 /\ q + 2 * 2 # NoToken
      /\ TokenText(response, t[q + 2 * 2]) = ms[2].v
  <2> DEFINE j == 2
  <2>1. j \in 1 .. Len(ms) /\ FirstKey(ms, j)
    BY <1>2, <1>3 DEF FirstKey
  <2> HIDE DEF j
  <2>2. MemberAt(response, t, q, ms, j)
    BY <1>1, <1>3, <2>1, ObjectFind
  <2> QED
    BY <2>2 DEF j, MemberAt
<1> DEFINE x == q + 2 * 1
           y == q + 2 * 2
<1>7. Value(t, q, "name") = x /\ x # NoToken /\ TextOf(t, x) = nm /\ TokenText(response, t[x]) = nm
  BY <1>2, <1>5 DEF Value, TextOf
<1>8. Value(t, q, "type") = y /\ y # NoToken /\ TextOf(t, y) = ty
  BY <1>2, <1>6 DEF Value, TextOf
<1> HIDE DEF x, y
<1>9. token_to_string(response, t[x], NameSize) = IF Len(nm) + 1 > NameSize THEN Failed ELSE Made(nm)
  BY <1>7 DEF token_to_string
<1>10. token_to_string(response, t[x], NameSize).ok <=> ~ (Len(nm) + 1 > NameSize)
  BY <1>9 DEF Failed, Made
<1>11. Entry(t, q) = IF Len(nm) + 1 > NameSize THEN Failed ELSE [ok |-> TRUE, name |-> nm, type |-> ty]
  BY <1>7, <1>8, <1>10, Zenon DEF Entry
<1> QED
  BY <1>11 DEF Read, nm, ty

(* Every entry, or an error *)
LEMMA ListReadIs ==
  ASSUME NEW max, NEW ds, IsText(ds), NEW t, NEW o, HasList(response, max, "entries", ds, t, o),
         \A i \in 1 .. Len(ds) : GoodEntry(ds[i])
  PROVE  /\ ListResult(t).ok => ListResult(t).entries =
                [i \in DOMAIN ds |-> [name |-> EscapedBy(ds[i].name), type |-> <<ds[i].type>>]]
         /\ Len(ds) <= MaxEntries /\ (\A i \in 1 .. Len(ds) : Len(EscapedBy(ds[i].name)) < NameSize) =>
                ListResult(t).ok
         /\ ~ListResult(t).ok => ListResult(t).errno \in {"EIO", "ENOBUFS"}
<1> DEFINE K == Len(ds)
           eio == [NoResult EXCEPT !.errno = "EIO"]
           full == [NoResult EXCEPT !.errno = "ENOBUFS"]
           want == [i \in DOMAIN ds |-> [name |-> EscapedBy(ds[i].name), type |-> <<ds[i].type>>]]
           long(i) == Len(EscapedBy(ds[i].name)) + 1 > NameSize
           en == [i \in DOMAIN Firsts(o, K) |-> Entry(t, Firsts(o, K)[i])]
           got == [i \in DOMAIN en |-> [name |-> en[i].name, type |-> en[i].type]]
           made == [NoResult EXCEPT !.ok = TRUE, !.entries = got]
<1>1. K \in Nat /\ DOMAIN ds = 1 .. K /\ MaxEntries \in Nat /\ NameSize \in Nat
  BY WireAssumption DEF IsText
<1>2. /\ t \in Seq(Tokens) /\ o \in 3 .. 5 /\ t[o].type = "array" /\ Value(t, 1, "entries") = o
      /\ EntriesIn(response, t, o, ds, K)
  BY Zenon DEF HasList, Answered, Value
<1>3. EntryTokens(t, o) = Firsts(o, K) /\ o # NoToken
  BY <1>1, <1>2, EntriesFound DEF NoToken
<1>4. ListResult(t) = IF \E i \in DOMAIN en : i <= MaxEntries /\ ~en[i].ok THEN eio
                      ELSE IF Len(en) > MaxEntries THEN full ELSE made
  <2> HIDE DEF eio, full
  <2> QED
    BY <1>2, <1>3, Zenon DEF ListResult, eio, full
<1>5. DOMAIN en = 1 .. K /\ Len(en) = K
  BY <1>1 DEF Firsts
<1>6. ASSUME NEW i \in 1 .. K
      PROVE  en[i] = IF long(i) THEN Failed ELSE Read(ds[i])
  <2> DEFINE q == o + (5 * i - 4)
  <2>1. en[i] = Entry(t, q)
    BY <1>1 DEF Firsts
  <2>2. EntryIn(response, t, q, o, ds[i]) /\ GoodEntry(ds[i]) /\ q # 0
    BY <1>2 DEF EntriesIn
  <2> HIDE DEF q, en
  <2>3. Entry(t, q) = IF long(i) THEN Failed ELSE Read(ds[i])
    BY <1>2, <2>2, EntryRead
  <2> QED
    BY <2>1, <2>3
<1> HIDE DEF en
<1>7. \A i \in 1 .. K : en[i].ok <=> ~ long(i)
  <2> SUFFICES ASSUME NEW i \in 1 .. K PROVE en[i].ok <=> ~ long(i)
    OBVIOUS
  <2>1. en[i] = IF long(i) THEN Failed ELSE Read(ds[i])
    BY <1>6
  <2> HIDE DEF long
  <2> QED
    BY <2>1 DEF Failed, Read
<1>8. made.ok = TRUE /\ made.entries = got /\ eio.ok = FALSE /\ eio.errno = "EIO" /\ full.ok = FALSE /\ full.errno = "ENOBUFS"
  <2> HIDE DEF got
  <2> QED
    BY EntriesField, FailedField
<1>9. (\A i \in 1 .. K : en[i].ok) => got = want
  <2> SUFFICES ASSUME \A i \in 1 .. K : en[i].ok PROVE got = want
    OBVIOUS
  <2>1. \A i \in 1 .. K : en[i].name = EscapedBy(ds[i].name) /\ en[i].type = <<ds[i].type>>
    <3> SUFFICES ASSUME NEW i \in 1 .. K PROVE en[i].name = EscapedBy(ds[i].name) /\ en[i].type = <<ds[i].type>>
      OBVIOUS
    <3>1. en[i] = Read(ds[i])
      BY <1>6, <1>7
    <3> QED
      BY <3>1 DEF Read
  <2> DEFINE f(i) == [name |-> en[i].name, type |-> en[i].type]
             g(i) == [name |-> EscapedBy(ds[i].name), type |-> <<ds[i].type>>]
  <2>2. \A i \in 1 .. K : f(i) = g(i)
    BY <2>1
  <2>3. got = [i \in 1 .. K |-> f(i)] /\ want = [i \in 1 .. K |-> g(i)]
    BY <1>1, <1>5
  <2> HIDE DEF f, g, got, want
  <2> QED
    BY <2>2, <2>3
<1> DEFINE bad == \E i \in 1 .. K : i <= MaxEntries /\ ~en[i].ok
<1>10. ListResult(t) = IF bad THEN eio ELSE IF K > MaxEntries THEN full ELSE made
  BY <1>4, <1>5
<1>11. ~bad /\ ~(K > MaxEntries) => \A i \in 1 .. K : en[i].ok
  BY <1>1
<1>12. K <= MaxEntries /\ (\A i \in 1 .. K : Len(EscapedBy(ds[i].name)) < NameSize) => ~bad /\ ~(K > MaxEntries)
  <2> SUFFICES ASSUME K <= MaxEntries, \A i \in 1 .. K : Len(EscapedBy(ds[i].name)) < NameSize
               PROVE  ~bad /\ ~(K > MaxEntries)
    OBVIOUS
  <2>1. \A i \in 1 .. K : ~ long(i)
    <3> SUFFICES ASSUME NEW i \in 1 .. K PROVE ~ long(i)
      OBVIOUS
    <3> DEFINE l == Len(EscapedBy(ds[i].name))
    <3>1. l < NameSize /\ l \in Nat
      <4>1. IsText(EscapedBy(ds[i].name))
        BY EscapedByText DEF GoodEntry
      <4> QED
        BY <4>1 DEF IsText
    <3> HIDE DEF l
    <3>2. ~ (l + 1 > NameSize)
      BY <1>1, <3>1
    <3> QED
      BY <3>2 DEF l
  <2> HIDE DEF long
  <2> QED
    BY <1>1, <1>7, <2>1
<1>13. ListResult(t).ok => ~bad /\ ~(K > MaxEntries)
  <2> HIDE DEF bad, eio, full, made
  <2> QED
    BY <1>8, <1>10
<1>14. ~bad /\ ~(K > MaxEntries) => ListResult(t) = made
  <2> HIDE DEF bad, eio, full, made
  <2> QED
    BY <1>10
<1>15. ~ListResult(t).ok => ListResult(t).errno \in {"EIO", "ENOBUFS"}
  <2> HIDE DEF bad, eio, full, made
  <2> QED
    BY <1>8, <1>10
<1> HIDE DEF bad, made, want, got
<1> QED
  BY <1>8, <1>9, <1>11, <1>12, <1>13, <1>14, <1>15 DEF want

-----------------------------------------------------------------------------
(* What the client finds in an answer *)

Says(t, o, key, v) == Value(t, o, key) # NoToken /\ TextOf(t, Value(t, o, key)) = v

LEMMA SaysMember ==
  ASSUME NEW t \in Seq(Tokens), NEW o \in Nat, o # 0, NEW ms, Len(ms) \in Nat, ObjectIn(response, t, o, ms),
         NEW j \in 1 .. Len(ms), FirstKey(ms, j)
  PROVE  Says(t, o, ms[j].key, ms[j].v)
<1>1. MemberAt(response, t, o, ms, j)
  BY ObjectFind
<1> DEFINE x == o + 2 * j
<1>2. /\ find_object_value(response, t, o, ms[j].key) = x
      /\ x # NoToken /\ TokenText(response, t[x]) = ms[j].v
  BY <1>1, Zenon DEF MemberAt
<1> HIDE DEF x
<1> QED
  BY <1>2, Zenon DEF Says, Value, TextOf

LEMMA SaysThree ==
  ASSUME NEW t \in Seq(Tokens), NEW o \in Nat, o # 0, NEW a, NEW b, NEW c,
         ObjectIn(response, t, o, <<a, b, c>>), a.key # b.key, a.key # c.key, b.key # c.key
  PROVE  Says(t, o, a.key, a.v) /\ Says(t, o, b.key, b.v) /\ Says(t, o, c.key, c.v)
<1> DEFINE ms == <<a, b, c>>
<1>1. Len(ms) = 3 /\ ms[1] = a /\ ms[2] = b /\ ms[3] = c
  BY ThreeText
<1>2. ObjectIn(response, t, o, ms)
  OBVIOUS
<1> HIDE DEF ms
<1>3. FirstKey(ms, 1) /\ FirstKey(ms, 2) /\ FirstKey(ms, 3)
  <2>1. \A i \in 1 .. 1 - 1 : FALSE
    OBVIOUS
  <2>2. \A i \in 1 .. 2 - 1 : i = 1
    OBVIOUS
  <2>3. \A i \in 1 .. 3 - 1 : i = 1 \/ i = 2
    OBVIOUS
  <2> QED
    BY <1>1, <2>1, <2>2, <2>3 DEF FirstKey
<1>4. Len(ms) \in Nat /\ 1 \in 1 .. Len(ms) /\ 2 \in 1 .. Len(ms) /\ 3 \in 1 .. Len(ms)
  BY <1>1
<1>5. Says(t, o, ms[1].key, ms[1].v) /\ Says(t, o, ms[2].key, ms[2].v) /\ Says(t, o, ms[3].key, ms[3].v)
  BY <1>2, <1>3, <1>4, SaysMember, Zenon
<1> QED
  BY <1>1, <1>5

LEMMA FlatIn ==
  ASSUME NEW text, NEW t, NEW ms, FlatAnswer(text, t, ms)
  PROVE  t \in Seq(Tokens) /\ (Len(ms) \in Nat => t # <<>>) /\ t[1].type = "object" /\ ObjectIn(text, t, 1, ms)
<1>1. t \in Seq(Tokens) /\ Len(t) = 1 + 2 * Len(ms) /\ t[1].type = "object"
  BY Zenon DEF FlatAnswer
<1>2. PICK hi \in Nat : t[1].end = hi + 1 /\ Flat(text, t, 1, ms, Len(ms), 1, hi)
  BY Zenon DEF FlatAnswer
<1>3. 1 \in Nat
  OBVIOUS
<1>4. ObjectIn(text, t, 1, ms)
  BY <1>2, <1>3, Zenon DEF ObjectIn
<1>5. Len(ms) \in Nat => t # <<>>
  <2> SUFFICES ASSUME Len(ms) \in Nat, t = <<>> PROVE FALSE
    OBVIOUS
  <2>1. Len(t) = 0
    BY EmptyText
  <2> QED
    BY <1>1, <2>1
<1> QED
  BY <1>1, <1>4, <1>5

(* ... a flat answer of three members: the values of its keys *)
LEMMA ThreeSaid ==
  ASSUME NEW a, NEW b, NEW c, GoodAll(<<a, b, c>>), Len(<<a, b, c>>) = 3, response = Line(Pieces(<<a, b, c>>)),
         a.key # b.key, a.key # c.key, b.key # c.key
  PROVE  LET p == jsmn_parse(response, Allowed(call.op))
             t == p.tokens
         IN  /\ ~ p.error /\ t # <<>> /\ t[1].type = "object"
             /\ Says(t, 1, a.key, a.v) /\ Says(t, 1, b.key, b.v) /\ Says(t, 1, c.key, c.v)
<1> DEFINE max == Allowed(call.op)
           p == jsmn_parse(response, max)
           t == p.tokens
           ms == <<a, b, c>>
<1>1. max \in Nat /\ max >= 7
  BY Rooms
<1> HIDE DEF max
<1>2. GoodAll(ms) /\ Len(ms) = 3 /\ response = Line(Pieces(ms)) /\ Len(ms) \in Nat
  OBVIOUS
<1> HIDE DEF ms
<1>3. p.error = FALSE /\ FlatAnswer(response, t, ms)
  BY <1>1, <1>2, FlatThree
<1> HIDE DEF p, t
<1>4. t \in Seq(Tokens) /\ t # <<>> /\ t[1].type = "object" /\ ObjectIn(response, t, 1, ms)
  BY <1>2, <1>3, FlatIn, Zenon
<1> DEFINE o == 1
<1>5. ObjectIn(response, t, o, <<a, b, c>>) /\ o \in Nat /\ o # 0
  BY <1>4 DEF ms
<1> HIDE DEF o
<1>6. Says(t, o, a.key, a.v) /\ Says(t, o, b.key, b.v) /\ Says(t, o, c.key, c.v)
  BY <1>4, <1>5, SaysThree, Zenon
<1> QED
  BY <1>3, <1>4, <1>6 DEF p, t, max, o

(* An error is told as one. *)
LEMMA ErrorOutcome ==
  ASSUME NEW errno \in ErrorCodes, response = ErrorText(errno)
  PROVE  JsonResult.ok = FALSE /\ JsonResult.errno = errno
<1> DEFINE p == jsmn_parse(response, Allowed(call.op))
           t == p.tokens
           s == StatusIs("error")
           e == ErrnoIs(errno)
           m == MessageIs
<1>1. /\ s.key = "status" /\ s.v = <<"error">> /\ e.key = "errno" /\ e.v = <<errno>> /\ m.key = "message"
  BY PieceOf DEF StatusIs, ErrnoIs, MessageIs
<1>2. ErrorText(errno) = Line(Pieces(ErrorMembers(errno))) /\ GoodAll(ErrorMembers(errno)) /\ Len(ErrorMembers(errno)) = 3
  <2>1. Plain(errno)
    BY PlainWords DEF ErrorCodes
  <2> QED
    BY <2>1, ErrorTextIs
<1>3. ErrorMembers(errno) = <<e, m, s>> \/ ErrorMembers(errno) = <<s, e, m>>
  BY DEF ErrorMembers
<1> HIDE DEF s, e, m
<1>4. /\ ~ p.error /\ t # <<>> /\ t[1].type = "object"
      /\ Says(t, 1, "status", <<"error">>) /\ Says(t, 1, "errno", <<errno>>)
  <2>1. CASE ErrorMembers(errno) = <<e, m, s>>
    BY <1>1, <1>2, <2>1, ThreeSaid
  <2>2. CASE ErrorMembers(errno) = <<s, e, m>>
    BY <1>1, <1>2, <2>2, ThreeSaid
  <2> QED
    BY <1>3, <2>1, <2>2
<1>5. /\ JsonResult.ok = Outcome(p).ok /\ JsonResult.errno = Outcome(p).errno
  BY JsonFields
<1> HIDE DEF p
<1>6. /\ Value(t, 1, "status") # NoToken /\ TextOf(t, Value(t, 1, "status")) = <<"error">>
      /\ Value(t, 1, "errno") # NoToken /\ TextOf(t, Value(t, 1, "errno")) = <<errno>>
  BY <1>4, Zenon DEF Says
<1>7. <<"error">> # <<"ok">> /\ <<errno>>[1] = errno
  OBVIOUS
<1>8. Outcome(p) = [NoResult EXCEPT !.errno = <<errno>>[1]]
  BY <1>4, <1>6, <1>7, Zenon DEF Outcome
<1> QED
  BY <1>5, <1>7, <1>8, FailedField

(* A listing is told whole, or as an error; as an error only when it has    *)
(* too many tokens or entries, or a name that is too long.                  *)
LEMMA ListOutcome ==
  ASSUME Fixed, call.op = "list", response = ListText
  PROVE  /\ JsonResult.ok => JsonResult.entries =
                [i \in DOMAIN dir |-> [name |-> EscapedBy(dir[i].name), type |-> <<dir[i].type>>]]
         /\ Answerable => JsonResult.ok
         /\ ~JsonResult.ok => JsonResult.errno \in {"EIO", "ENOBUFS"}
<1> DEFINE max == Allowed(call.op)
           p == jsmn_parse(response, max)
           want == [i \in DOMAIN dir |-> [name |-> EscapedBy(dir[i].name), type |-> <<dir[i].type>>]]
           fits == Len(dir) <= MaxEntries /\ \A i \in 1 .. Len(dir) : Len(EscapedBy(dir[i].name)) < NameSize
           eio == [NoResult EXCEPT !.errno = "EIO"]
           key == "entries"
           ds == dir
<1>1. IsText(dir) /\ (\A i \in 1 .. Len(dir) : GoodEntry(dir[i])) /\ Len(dir) \in Nat /\ DOMAIN dir = 1 .. Len(dir)
  <2>1. IsText(dir) /\ \A i \in 1 .. Len(dir) : GoodEntry(dir[i])
    BY DirText DEF GoodEntry
  <2> QED
    BY <2>1 DEF IsText
<1>2. max \in Nat /\ max = MaxTokens
  BY Rooms DEF Allowed
<1>3. JsonResult.ok = Outcome(p).ok /\ JsonResult.entries = Outcome(p).entries /\ JsonResult.errno = Outcome(p).errno
  BY JsonFields
<1>4. response = Answer(key, ArrayText(ds))
  BY Zenon DEF ListText, ArrayText, EntryTexts
<1>5. key \notin {"quote", "bslash", "status"} /\ IsText(ds) /\ \A i \in 1 .. Len(ds) : GoodEntry(ds[i])
  BY <1>1
<1> HIDE DEF max, key, ds
<1>6. PICK t, o : HasList(Answer(key, ArrayText(ds)), max, key, ds, t, o)
  BY <1>2, <1>5, ListAnswer, Zenon
<1>7. HasList(response, max, "entries", ds, t, o)
  BY <1>4, <1>6, Zenon DEF key
<1>8. /\ ParseIs(response, max, t) /\ Len(t) = 5 + 5 * Len(ds) /\ t # <<>> /\ t[1].type = "object"
      /\ Value(t, 1, "status") \in 1 .. Len(t) /\ TextOf(t, Value(t, 1, "status")) = <<"ok">>
  BY <1>7, Zenon DEF HasList, Answered, Value, TextOf
<1>9. /\ ListResult(t).ok => ListResult(t).entries = want
      /\ fits => ListResult(t).ok
      /\ ~ListResult(t).ok => ListResult(t).errno \in {"EIO", "ENOBUFS"}
  BY <1>5, <1>7, ListReadIs DEF ds
<1>10. eio.ok = FALSE /\ eio.errno = "EIO"
  BY FailedField
<1>11. Answerable => fits /\ Len(t) <= max
  <2> SUFFICES ASSUME Answerable PROVE fits /\ Len(t) <= max
    OBVIOUS
  <2>1. /\ 5 + 5 * Len(dir) <= MaxTokens /\ Len(dir) <= MaxEntries
        /\ \A i \in DOMAIN dir : Len(EscapedBy(dir[i].name)) < NameSize
    BY DEF Answerable
  <2> QED
    BY <1>1, <1>2, <1>8, <2>1 DEF ds
<1> HIDE DEF p, want, fits, eio
<1>12. CASE Len(t) <= max
  <2>1. p.error = FALSE /\ p.tokens = t
    BY <1>8, <1>12 DEF ParseIs, p
  <2>2. Value(t, 1, "status") # NoToken
    BY <1>8 DEF NoToken
  <2>3. Outcome(p) = ListResult(t)
    BY <1>8, <2>1, <2>2 DEF Outcome
  <2> QED
    BY <1>3, <1>9, <1>11, <2>3 DEF want
<1>13. CASE ~(Len(t) <= max)
  <2>1. p.error = TRUE
    BY <1>8, <1>13 DEF ParseIs, p
  <2>2. Outcome(p) = eio
    BY <2>1, Zenon DEF Outcome, eio
  <2> QED
    BY <1>3, <1>10, <1>11, <1>13, <2>2
<1> QED
  BY <1>12, <1>13

(* Every step keeps the call; only the last ones give a result. *)
LEMMA ResultStep ==
  ASSUME WireInv, [Next]_vars
  PROVE  \/ stage' # "returned"
         \/ stage = "returned" /\ UNCHANGED vars
         \/ /\ stage = "start" /\ UNCHANGED <<provider, dir, call, answer, response, seen>>
            /\ \E e \in {"ENAMETOOLONG", "EINVAL"} : result' = [NoResult EXCEPT !.errno = e]
         \/ /\ stage = "answered" /\ UNCHANGED <<provider, dir, call, answer, response, seen>>
            /\ \/ call.op = "read" /\ answer.ok = TRUE /\ result' = [NoResult EXCEPT !.ok = TRUE]
               \/ (Refused \/ Granted) /\ ~(call.op = "read" /\ answer.ok) /\ result' = JsonResult
<1>1. CASE SendQuery
  BY <1>1 DEF SendQuery, Send, Fails, Return
<1>2. CASE SendBody
  BY <1>2 DEF SendBody, Send, Fails, Return
<1>3. CASE ReadAnswer
  <2>1. Refused \/ Granted
    BY <1>3 DEF WireInv, ReadAnswer
  <2>2. answer.ok \in BOOLEAN
    BY <2>1 DEF Refused, Granted
  <2> QED
    BY <1>3, <2>1, <2>2 DEF ReadAnswer, Return
<1>4. CASE DecodeQueryC \/ DecodeBodyC \/ DecodeQueryLibrary \/ DecodeBodyLibrary
  BY <1>4 DEF DecodeQueryC, DecodeBodyC, DecodeQueryLibrary, DecodeBodyLibrary, Handle, Reject
<1>5. CASE Succeed \/ Refuse
  BY <1>5 DEF Succeed, Refuse, Reject
<1>6. CASE UNCHANGED vars
  BY <1>6 DEF vars
<1> QED
  BY <1>1, <1>2, <1>3, <1>4, <1>5, <1>6 DEF Next, Returned

(* A listing that httpfs_list_dir accepts has the entries of the directory, *)
(* in order, whatever characters their names hold.                          *)
THEOREM ListingIsFaithful == Spec => []ListingFaithful
<1>1. ASSUME Init PROVE ListingFaithful
  BY <1>1 DEF Init, ListingFaithful
<1>2. ASSUME WireInv, ListingFaithful, [Next]_vars PROVE ListingFaithful'
  <2> SUFFICES ASSUME stage' = "returned", call'.op = "list", result'.ok
               PROVE  result'.entries = [i \in DOMAIN dir |-> [name |-> EscapedBy(dir[i].name),
                                                               type |-> <<dir[i].type>>]]'
    BY DEF ListingFaithful
  <2>1. CASE stage = "returned" /\ UNCHANGED vars
    BY <1>2, <2>1 DEF ListingFaithful, vars, EscapedBy
  <2>2. CASE \E e \in {"ENAMETOOLONG", "EINVAL"} : result' = [NoResult EXCEPT !.errno = e]
    BY <2>2, FailedField
  <2>3. CASE /\ UNCHANGED <<provider, dir, call, answer, response, seen>>
             /\ (Refused \/ Granted) /\ ~(call.op = "read" /\ answer.ok) /\ result' = JsonResult
    <3>1. Fixed /\ call.op = "list"
      BY <1>2, <2>3 DEF WireInv
    <3>2. CASE Refused
      <4>1. JsonResult.ok = FALSE
        BY <3>2, ErrorOutcome DEF Refused
      <4> QED
        BY <2>3, <4>1
    <3>3. CASE Granted
      <4>1. response = ListText
        BY <3>1, <3>3 DEF Granted, OkText
      <4>2. JsonResult.entries = [i \in DOMAIN dir |-> [name |-> EscapedBy(dir[i].name), type |-> <<dir[i].type>>]]
        BY <2>3, <3>1, <4>1, ListOutcome
      <4> QED
        BY <2>3, <4>2 DEF EscapedBy
    <3> QED
      BY <2>3, <3>2, <3>3
  <2> QED
    BY <1>2, <2>1, <2>2, <2>3, ResultStep
<1> QED
  BY <1>1, <1>2, WireInvariant, PTL DEF Spec

-----------------------------------------------------------------------------
(* A path in an answer is at most three times as long as in the request. *)

LEMMA FlattenLonger ==
  ASSUME NEW s, NEW q, Len(s) \in Nat, Len(s) # 0, Len(q) = Len(s),
         \A i \in 1 .. Len(s) : IsText(s[i]) /\ IsText(q[i]) /\ Len(q[i]) <= 3 * Len(s[i])
  PROVE  Len(FlattenSeq(q)) <= 3 * Len(FlattenSeq(s))
<1>1. PICK f : /\ FlattenSeq(s) = f[Len(s)] /\ f[1] = s[1]
               /\ \A i \in 2 .. Len(s) : f[i] = f[i - 1] \o s[i]
  BY FlattenTurns
<1>2. PICK g : /\ FlattenSeq(q) = g[Len(q)] /\ g[1] = q[1]
               /\ \A i \in 2 .. Len(q) : g[i] = g[i - 1] \o q[i]
  BY FlattenTurns
<1> DEFINE good(i) == IsText(f[i]) /\ IsText(g[i]) /\ Len(g[i]) <= 3 * Len(f[i])
           T == {i \in Nat : i + 1 <= Len(s) => good(i + 1)}
<1>3. 0 \in T
  BY <1>1, <1>2
<1>4. ASSUME NEW i \in Nat, i \in T
      PROVE  i + 1 \in T
  <2> SUFFICES ASSUME (i + 1) + 1 <= Len(s) PROVE good((i + 1) + 1)
    OBVIOUS
  <2> DEFINE k == i + 1
             m == k + 1
  <2>1. k <= Len(s) /\ m \in 2 .. Len(s) /\ m - 1 = k /\ m \in 1 .. Len(s) /\ m \in 2 .. Len(q)
    OBVIOUS
  <2>2. good(k) /\ IsText(s[m]) /\ IsText(q[m]) /\ Len(q[m]) <= 3 * Len(s[m])
    BY <1>4, <2>1
  <2>3. f[m] = f[k] \o s[m] /\ g[m] = g[k] \o q[m]
    BY <1>1, <1>2, <2>1
  <2> HIDE DEF k, m
  <2>4. /\ IsText(f[m]) /\ Len(f[m]) = Len(f[k]) + Len(s[m])
        /\ IsText(g[m]) /\ Len(g[m]) = Len(g[k]) + Len(q[m])
    BY <2>2, <2>3, ConcatText
  <2> DEFINE a == Len(f[k])
             b == Len(s[m])
             c == Len(g[k])
             d == Len(q[m])
  <2>5. a \in Nat /\ b \in Nat /\ c \in Nat /\ d \in Nat /\ c <= 3 * a /\ d <= 3 * b
    BY <2>2 DEF IsText
  <2> HIDE DEF a, b, c, d
  <2>6. c + d <= 3 * (a + b)
    BY <2>5
  <2>7. Len(g[m]) <= 3 * Len(f[m])
    BY <2>4, <2>6 DEF a, b, c, d
  <2> QED
    BY <2>4, <2>7 DEF m, k
<1>5. \A i \in Nat : i \in T
  <2> HIDE DEF T
  <2>1. \A i \in Nat : i \in T => i + 1 \in T
    BY <1>4, Zenon
  <2> QED
    BY <1>3, <2>1, SetInduction, Zenon
<1>6. good(Len(s))
  <2>1. Len(s) - 1 \in Nat /\ (Len(s) - 1) + 1 = Len(s) /\ Len(s) <= Len(s)
    OBVIOUS
  <2>2. Len(s) - 1 \in T
    BY <1>5, <2>1
  <2> HIDE DEF good
  <2> QED
    BY <2>1, <2>2
<1> QED
  BY <1>1, <1>2, <1>6

(* what the provider writes for one character *)
Written(ch) ==
    IF provider = "go" /\ ch = "lt" THEN <<"bslash", "u", "0", "0", "3", "c">>
    ELSE IF provider = "go" /\ ch = "amp" THEN <<"bslash", "u", "0", "0", "2", "6">>
    ELSE IF provider = "go" /\ ch = "latin" THEN <<"bslash", "u", "f", "f", "f", "d">>
    ELSE IF provider = "python" /\ ch \in {"eacute", "fffd"} THEN <<"bslash", "u", "0", "0", "e", "9">>
    ELSE IF provider = "python" /\ ch = "latin" THEN <<"bslash", "u", "d", "c", "e", "9">>
    ELSE EscapeChar(ch)

LEMMA WrittenLength ==
  ASSUME NEW ch
  PROVE  /\ IsText(Written(ch)) /\ Len(Written(ch)) \in 1 .. 6
         /\ ch \notin DOMAIN Hex => Len(Written(ch)) = 1
<1>1. ch \notin DOMAIN Hex => ch \notin {"lt", "amp", "latin", "eacute", "fffd"} /\ ch \notin DOMAIN Letter /\ ch \notin Control
  BY DEF Hex, Letter, Control
<1>2. IsText(EscapeChar(ch)) /\ Len(EscapeChar(ch)) \in 1 .. 6 /\ (ch \notin DOMAIN Hex => Len(EscapeChar(ch)) = 1)
  <2>1. CASE ch \in DOMAIN Letter
    <3>1. EscapeChar(ch) = <<"bslash", Letter[ch]>>
      BY <2>1 DEF EscapeChar
    <3>2. IsText(<<"bslash", Letter[ch]>>) /\ Len(<<"bslash", Letter[ch]>>) = 2
      BY TwoText
    <3> QED
      BY <1>1, <2>1, <3>1, <3>2
  <2>2. CASE ch \notin DOMAIN Letter /\ ch \in Control
    <3>1. EscapeChar(ch) = <<"bslash", "u", "0", "0", ControlCode[1], ControlCode[2]>>
      BY <2>2 DEF EscapeChar, Unicode
    <3> DEFINE a == ControlCode[1]
               b == ControlCode[2]
    <3> HIDE DEF a, b
    <3>2. IsText(<<"bslash", "u", "0", "0", a, b>>) /\ Len(<<"bslash", "u", "0", "0", a, b>>) = 6
      BY SixText
    <3> QED
      BY <1>1, <2>2, <3>1, <3>2 DEF a, b
  <2>3. CASE ch \notin DOMAIN Letter /\ ch \notin Control
    <3>1. EscapeChar(ch) = <<ch>>
      BY <2>3 DEF EscapeChar
    <3> QED
      BY <3>1, WordText
  <2> QED
    BY <2>1, <2>2, <2>3
<1> DEFINE six(x) == IsText(x) /\ Len(x) \in 1 .. 6
<1>3. /\ six(<<"bslash", "u", "0", "0", "3", "c">>) /\ six(<<"bslash", "u", "0", "0", "2", "6">>)
      /\ six(<<"bslash", "u", "f", "f", "f", "d">>) /\ six(<<"bslash", "u", "0", "0", "e", "9">>)
      /\ six(<<"bslash", "u", "d", "c", "e", "9">>)
  BY SixText
<1>4. six(Written(ch))
  <2>1. six(EscapeChar(ch))
    BY <1>2
  <2> HIDE DEF six
  <2> QED
    BY <1>3, <2>1, Zenon DEF Written
<1>5. ch \notin DOMAIN Hex => Written(ch) = EscapeChar(ch)
  BY <1>1 DEF Written
<1> QED
  BY <1>2, <1>4, <1>5

LEMMA EscapedByLonger ==
  ASSUME NEW s, NEW r, IsText(s), IsText(r), Len(s) # 0, Len(r) = Len(s),
         \A i \in 1 .. Len(s) : r[i] = s[i] \/ s[i] \in DOMAIN Hex
  PROVE  Len(EscapedBy(r)) <= 3 * Len(curl_easy_escape(s))
<1> DEFINE a == EscapedParts(s)
           b == [i \in DOMAIN r |-> Written(r[i])]
<1>1. curl_easy_escape(s) = FlattenSeq(a) /\ Len(a) = Len(s) /\ \A i \in 1 .. Len(s) : a[i] = Escaped(s[i])
  BY EscapedIs
<1>2. EscapedBy(r) = FlattenSeq(b)
  BY Zenon DEF EscapedBy, Written
<1>3. DOMAIN r = 1 .. Len(s) /\ Len(s) \in Nat
  BY DEF IsText
<1>4. Len(b) = Len(s) /\ \A i \in 1 .. Len(s) : b[i] = Written(r[i])
  BY <1>3
<1> HIDE DEF a, b
<1>5. ASSUME NEW i \in 1 .. Len(s)
      PROVE  IsText(a[i]) /\ IsText(b[i]) /\ Len(b[i]) <= 3 * Len(a[i])
  <2>1. a[i] = Escaped(s[i]) /\ b[i] = Written(r[i])
    BY <1>1, <1>4
  <2>2. IsText(a[i]) /\ IsText(b[i]) /\ Len(b[i]) \in 1 .. 6
    BY <2>1, EscapedText, WrittenLength
  <2>3. CASE s[i] \in DOMAIN Hex
    <3>1. Len(a[i]) = 2
      <4>1. Len(Escaped(s[i])) = 2
        BY <2>3, EscapedText, Zenon
      <4> QED
        BY <2>1, <4>1
    <3> DEFINE x == Len(b[i])
               y == Len(a[i])
    <3>2. x \in 1 .. 6 /\ y = 2
      BY <2>2, <3>1
    <3> HIDE DEF x, y
    <3>3. x <= 3 * y
      BY <3>2
    <3> QED
      BY <2>2, <3>3 DEF x, y
  <2>4. CASE s[i] \notin DOMAIN Hex
    <3>1. Len(a[i]) = 1 /\ r[i] = s[i]
      BY <2>1, <2>4, EscapedText
    <3>2. Len(b[i]) = 1
      BY <2>1, <2>4, <3>1, WrittenLength
    <3> QED
      BY <2>2, <3>1, <3>2
  <2> QED
    BY <2>3, <2>4
<1>6. Len(FlattenSeq(b)) <= 3 * Len(FlattenSeq(a))
  BY <1>1, <1>3, <1>4, <1>5, FlattenLonger
<1> QED
  BY <1>1, <1>2, <1>6

LEMMA PiecesFour ==
  ASSUME NEW a, NEW b, NEW c, NEW d, Good(a.key, a.kind, a.v), Good(b.key, b.kind, b.v),
         Good(c.key, c.kind, c.v), Good(d.key, d.kind, d.v)
  PROVE  /\ GoodAll(<<a, b, c, d>>) /\ Len(<<a, b, c, d>>) = 4
         /\ Pieces(<<a, b, c, d>>) = <<M(a.key, a.kind, a.v), M(b.key, b.kind, b.v),
                                       M(c.key, c.kind, c.v), M(d.key, d.kind, d.v)>>
<1> DEFINE s == <<a, b, c, d>>
           w == M(a.key, a.kind, a.v)
           x == M(b.key, b.kind, b.v)
           y == M(c.key, c.kind, c.v)
           z == M(d.key, d.kind, d.v)
<1>1. IsText(s) /\ Len(s) = 4 /\ s[1] = a /\ s[2] = b /\ s[3] = c /\ s[4] = d /\ DOMAIN s = 1 .. 4
  BY FourText
<1>2. \A i \in 1 .. 4 : i = 1 \/ i = 2 \/ i = 3 \/ i = 4
  OBVIOUS
<1> HIDE DEF s
<1>3. GoodAll(s)
  BY <1>1, <1>2 DEF GoodAll
<1>4. Pieces(s) = [i \in 1 .. 4 |-> M(s[i].key, s[i].kind, s[i].v)]
  BY <1>1 DEF Pieces
<1>5. /\ M(s[1].key, s[1].kind, s[1].v) = w /\ M(s[2].key, s[2].kind, s[2].v) = x
      /\ M(s[3].key, s[3].kind, s[3].v) = y /\ M(s[4].key, s[4].kind, s[4].v) = z
  BY <1>1
<1>6. Pieces(s) = <<w, x, y, z>>
  <2> DEFINE f == Pieces(s)
  <2>1. f[1] = w /\ f[2] = x /\ f[3] = y /\ f[4] = z /\ f = [i \in 1 .. 4 |-> f[i]]
    BY <1>4, <1>5
  <2> HIDE DEF w, x, y, z, f
  <2>2. <<w, x, y, z>> = [i \in 1 .. 4 |-> f[i]]
    BY <2>1
  <2> QED
    BY <2>1, <2>2 DEF f
<1> QED
  BY <1>1, <1>3, <1>6 DEF s

LEMMA SaysFour ==
  ASSUME NEW t \in Seq(Tokens), NEW o \in Nat, o # 0, NEW a, NEW b, NEW c, NEW d,
         ObjectIn(response, t, o, <<a, b, c, d>>), a.key # b.key, a.key # c.key, a.key # d.key,
         b.key # c.key, b.key # d.key, c.key # d.key
  PROVE  Says(t, o, a.key, a.v) /\ Says(t, o, b.key, b.v) /\ Says(t, o, c.key, c.v) /\ Says(t, o, d.key, d.v)
<1> DEFINE ms == <<a, b, c, d>>
<1>1. Len(ms) = 4 /\ ms[1] = a /\ ms[2] = b /\ ms[3] = c /\ ms[4] = d
  BY FourText
<1>2. ObjectIn(response, t, o, ms)
  OBVIOUS
<1> HIDE DEF ms
<1>3. FirstKey(ms, 1) /\ FirstKey(ms, 2) /\ FirstKey(ms, 3) /\ FirstKey(ms, 4)
  <2>1. \A i \in 1 .. 1 - 1 : FALSE
    OBVIOUS
  <2>2. \A i \in 1 .. 2 - 1 : i = 1
    OBVIOUS
  <2>3. \A i \in 1 .. 3 - 1 : i = 1 \/ i = 2
    OBVIOUS
  <2>4. \A i \in 1 .. 4 - 1 : i = 1 \/ i = 2 \/ i = 3
    OBVIOUS
  <2> QED
    BY <1>1, <2>1, <2>2, <2>3, <2>4 DEF FirstKey
<1>4. Len(ms) \in Nat /\ 1 \in 1 .. Len(ms) /\ 2 \in 1 .. Len(ms) /\ 3 \in 1 .. Len(ms) /\ 4 \in 1 .. Len(ms)
  BY <1>1
<1>5. /\ Says(t, o, ms[1].key, ms[1].v) /\ Says(t, o, ms[2].key, ms[2].v) /\ Says(t, o, ms[3].key, ms[3].v)
      /\ Says(t, o, ms[4].key, ms[4].v)
  BY <1>2, <1>3, <1>4, SaysMember, Zenon
<1> QED
  BY <1>1, <1>5

-----------------------------------------------------------------------------
(* The metadata of a file *)

PathText == IF provider = "c" THEN seen.path ELSE EscapedBy(seen.path)
PathIs == R("path", "string", PathText)
TypeIs == R("type", "string", <<MetaType>>)
ModeIs == R("mode", "primitive", <<"1">>)
SizeIs == R("size", "primitive", <<MetaSize>>)
MetaMembers ==
    IF provider = "python" THEN <<ModeIs, PathIs, SizeIs, TypeIs>> ELSE <<PathIs, TypeIs, ModeIs, SizeIs>>

LEMMA MetaTextIs ==
  ASSUME Clean(PathText)
  PROVE  /\ MetaText = Answer("meta", Object(Pieces(MetaMembers)))
         /\ GoodAll(MetaMembers) /\ Len(MetaMembers) = 4
<1> DEFINE p == PathIs
           y == TypeIs
           m == ModeIs
           s == SizeIs
           mp == Member("path", Quoted(PathText))
           my == Member("type", Quoted(<<MetaType>>))
           mm == Member("mode", <<"1">>)
           ms == Member("size", <<MetaSize>>)
<1>1. Good(p.key, p.kind, p.v) /\ M(p.key, p.kind, p.v) = mp
  <2>1. p.key = "path" /\ p.kind = "string" /\ p.v = PathText
    BY PieceOf DEF PathIs
  <2> HIDE DEF p
  <2>2. Good("path", "string", PathText)
    BY DEF Good
  <2>3. M("path", "string", PathText) = mp
    BY DEF M, ValueText
  <2> QED
    BY <2>1, <2>2, <2>3
<1>2. Good(y.key, y.kind, y.v) /\ M(y.key, y.kind, y.v) = my
  <2>1. MetaType \notin {"quote", "bslash"}
    BY DEF MetaType
  <2> QED
    BY <2>1, StringGood DEF TypeIs
<1>3. Good(m.key, m.kind, m.v) /\ M(m.key, m.kind, m.v) = mm
  BY WordGood, PlainWords DEF ModeIs
<1>4. Good(s.key, s.kind, s.v) /\ M(s.key, s.kind, s.v) = ms
  <2>1. Plain(MetaSize)
    BY PlainWords DEF MetaSize
  <2> QED
    BY <2>1, WordGood DEF SizeIs
<1>5. MetaText = Answer("meta", Object(IF provider = "python" THEN <<mm, mp, ms, my>> ELSE <<mp, my, mm, ms>>))
  BY Zenon DEF MetaText, PathText
<1> HIDE DEF p, y, m, s, mp, my, mm, ms
<1>6. /\ GoodAll(<<m, p, s, y>>) /\ Len(<<m, p, s, y>>) = 4 /\ Pieces(<<m, p, s, y>>) = <<mm, mp, ms, my>>
      /\ GoodAll(<<p, y, m, s>>) /\ Len(<<p, y, m, s>>) = 4 /\ Pieces(<<p, y, m, s>>) = <<mp, my, mm, ms>>
  BY <1>1, <1>2, <1>3, <1>4, PiecesFour
<1>7. MetaMembers = IF provider = "python" THEN <<m, p, s, y>> ELSE <<p, y, m, s>>
  BY DEF MetaMembers, p, y, m, s
<1> QED
  BY <1>5, <1>6, <1>7, Zenon

(* ... is read from the object that holds it *)
LEMMA MetaRead ==
  ASSUME NEW t \in Seq(Tokens), NEW o \in Nat, o # 0, Value(t, 1, "meta") = o,
         ObjectIn(response, t, o, MetaMembers), Len(PathText) \in Nat, MetaPathSize \in Nat,
         Len(PathText) < MetaPathSize
  PROVE  MetaResult(t).ok = TRUE /\ MetaResult(t).type = <<MetaType>> /\ MetaResult(t).nums = <<MetaSize>>
<1> DEFINE p == PathIs
           y == TypeIs
           m == ModeIs
           s == SizeIs
           ty == <<MetaType>>
           sz == <<MetaSize>>
           one == <<"1">>
           at(key) == Value(t, o, key)
<1>1. /\ p.key = "path" /\ p.v = PathText /\ y.key = "type" /\ y.v = ty
      /\ m.key = "mode" /\ m.v = one /\ s.key = "size" /\ s.v = sz
  <2>1. p.key = "path" /\ p.v = PathText
    BY PieceOf DEF PathIs
  <2>2. y.key = "type" /\ y.v = ty
    BY PieceOf DEF TypeIs
  <2>3. m.key = "mode" /\ m.v = one
    BY PieceOf DEF ModeIs
  <2>4. s.key = "size" /\ s.v = sz
    BY PieceOf DEF SizeIs
  <2> HIDE DEF p, y, m, s, ty, sz, one
  <2> QED
    BY <2>1, <2>2, <2>3, <2>4
<1>2. MetaMembers = <<m, p, s, y>> \/ MetaMembers = <<p, y, m, s>>
  BY DEF MetaMembers
<1>3. /\ Len(one) = 1 /\ one[1] \in Digit /\ Len(sz) = 1 /\ sz[1] \in Digit
  BY DEF Digit, MetaSize
<1> HIDE DEF p, y, m, s, ty, sz, one
<1>4. Says(t, o, "path", PathText) /\ Says(t, o, "type", ty) /\ Says(t, o, "mode", one) /\ Says(t, o, "size", sz)
  <2>1. p.key # y.key /\ p.key # m.key /\ p.key # s.key /\ y.key # m.key /\ y.key # s.key /\ m.key # s.key
    BY <1>1
  <2>2. CASE MetaMembers = <<m, p, s, y>>
    BY <1>1, <2>1, <2>2, SaysFour
  <2>3. CASE MetaMembers = <<p, y, m, s>>
    BY <1>1, <2>1, <2>3, SaysFour
  <2> QED
    BY <1>2, <2>2, <2>3
<1>5. /\ at("path") # NoToken /\ at("type") # NoToken /\ at("mode") # NoToken /\ at("size") # NoToken
      /\ TextOf(t, at("path")) = PathText /\ TextOf(t, at("type")) = ty
      /\ TextOf(t, at("mode")) = one /\ TextOf(t, at("size")) = sz
  BY <1>4, Zenon DEF Says
<1>6. token_to_string(response, t[at("path")], MetaPathSize).ok
  <2>1. TokenText(response, t[at("path")]) = PathText
    BY <1>5, Zenon DEF TextOf
  <2>2. ~(Len(PathText) + 1 > MetaPathSize)
    OBVIOUS
  <2>3. token_to_string(response, t[at("path")], MetaPathSize) = Made(PathText)
    BY <2>1, <2>2, Zenon DEF token_to_string
  <2> QED
    BY <2>3 DEF Made
<1>7. ~ \E key \in {"path", "type", "mode", "size"} : at(key) = NoToken
  BY <1>5
<1>8. ~ \E key \in {"mode", "size"} : Len(TextOf(t, at(key))) # 1 \/ TextOf(t, at(key))[1] \notin Digit
  <2>1. \A key \in {"mode", "size"} : TextOf(t, at(key)) = one \/ TextOf(t, at(key)) = sz
    BY <1>5
  <2> QED
    BY <1>3, <2>1
<1>9. Value(t, 1, "meta") # NoToken
  BY DEF NoToken
<1> HIDE DEF at
<1> DEFINE r == [NoResult EXCEPT !.ok = TRUE, !.type = ty, !.nums = sz]
<1>10. MetaResult(t) = r
  <2>1. MetaResult(t) = [NoResult EXCEPT !.ok = TRUE, !.type = TextOf(t, at("type")), !.nums = TextOf(t, at("size"))]
    BY <1>6, <1>7, <1>8, <1>9, Zenon DEF MetaResult, at
  <2> QED
    BY <1>5, <2>1, Zenon
<1>11. r.ok = TRUE /\ r.type = ty /\ r.nums = sz
  BY MetaField
<1> HIDE DEF r
<1> QED
  BY <1>10, <1>11, Zenon DEF ty, sz

(* The client has room for the path, escaped as the provider does it: the   *)
(* request with the path, escaped by libcurl, fitted endpoint[].            *)
LEMMA PathFits ==
  ASSUME Fixed, SeenQuery, call.op \in Query, Len(Endpoint(call)) < EndpointSize
  PROVE  Len(PathText) \in Nat /\ MetaPathSize \in Nat /\ Len(PathText) < MetaPathSize
<1> DEFINE u == Endpoint(call)
           s == call.path
           e == curl_easy_escape(s)
<1>1. GoodCall(call) /\ IsText(s) /\ Len(s) # 0
  BY CallIsGood DEF Fixed, GoodCall
<1>2. EndpointSize \in Nat /\ RawUriSize \in Nat /\ EndpointSize <= RawUriSize /\ MetaPathSize \in Nat
      /\ 3 * EndpointSize <= MetaPathSize
  BY WireAssumption
<1>3. /\ IsText(u) /\ Len(e) \in Nat /\ Len(QueryNumbers(call)) \in Nat
      /\ Len(u) = (4 + Len(e)) + Len(QueryNumbers(call))
  BY <1>1, EndpointParts, Zenon DEF EndpointIs
<1>4. Len(u) \in Nat /\ Len(s) \in Nat
  BY <1>1, <1>3 DEF IsText
<1>5. Len(u) < EndpointSize
  OBVIOUS
<1> DEFINE x == Len(PathText)
           a == Len(e)
           b == Len(QueryNumbers(call))
           d == Len(u)
           k == Len(s)
<1>6. x \in Nat /\ (x <= 3 * a \/ x <= d)
  <2>1. CASE provider = "c"
    <3>1. PathText = s
      BY <2>1 DEF PathText, SeenQuery
    <3>2. k < d
      <4>1. Len(u) < RawUriSize
        BY <1>2, <1>4, <1>5
      <4> DEFINE size == 0
      <4>2. size \in Nat
        OBVIOUS
      <4> HIDE DEF size
      <4>3. Len(call.path) < Len(u)
        BY <1>1, <1>2, <4>1, <4>2, QueryRead
      <4> QED
        BY <4>3
    <3>3. x = k
      BY <3>1
    <3> HIDE DEF x, k, d
    <3> QED
      BY <1>4, <3>2, <3>3 DEF k, d
  <2>2. CASE provider # "c"
    <3> DEFINE r == IF provider = "python" THEN Replaced(s) ELSE s
    <3>1. PathText = EscapedBy(seen.path) /\ seen.path = r
      BY <2>2 DEF PathText, SeenQuery
    <3>2. IsText(seen.path)
      BY SeenText
    <3>3. IsText(r) /\ IsText(EscapedBy(r))
      BY <3>1, <3>2, EscapedByText
    <3>4. Len(r) = Len(s) /\ \A i \in 1 .. Len(s) : r[i] = s[i] \/ s[i] \in DOMAIN Hex
      <4>1. DOMAIN s = 1 .. Len(s) /\ Len(s) \in Nat
        BY <1>1 DEF IsText
      <4> HIDE DEF s
      <4>2. "latin" \in DOMAIN Hex
        BY DEF Hex
      <4>3. /\ Replaced(s) = [i \in 1 .. Len(s) |-> IF s[i] = "latin" THEN "fffd" ELSE s[i]]
        BY <4>1 DEF Replaced
      <4>4. Len(Replaced(s)) = Len(s) /\ \A i \in 1 .. Len(s) : Replaced(s)[i] = s[i] \/ s[i] = "latin"
        BY <4>1, <4>3
      <4> QED
        BY <4>2, <4>4
    <3> HIDE DEF r, s
    <3>5. Len(EscapedBy(r)) <= 3 * Len(curl_easy_escape(s))
      BY <1>1, <3>3, <3>4, EscapedByLonger
    <3>6. x = Len(EscapedBy(r)) /\ x \in Nat
      BY <3>1, <3>3 DEF IsText
    <3> QED
      BY <3>5, <3>6 DEF e
  <2> QED
    BY <2>1, <2>2
<1> HIDE DEF x, a, b, d, k, u, e, s
<1>7. a \in Nat /\ b \in Nat /\ d \in Nat /\ d = (4 + a) + b /\ d < EndpointSize
  BY <1>3, <1>4, <1>5 DEF a, b, d
<1>8. x < 3 * EndpointSize
  BY <1>2, <1>6, <1>7
<1>9. x < MetaPathSize
  BY <1>2, <1>6, <1>8
<1> QED
  BY <1>2, <1>6, <1>9 DEF x

(* A file's metadata are told as they are, of any path that is good JSON. *)
LEMMA MetaOutcome ==
  ASSUME Fixed, SeenQuery, call.op = "meta", Len(Endpoint(call)) < EndpointSize, response = MetaText,
         Answerable
  PROVE  JsonResult.ok = TRUE /\ JsonResult.type = <<MetaType>> /\ JsonResult.nums = <<MetaSize>>
<1> DEFINE max == Allowed(call.op)
           p == jsmn_parse(response, max)
           key == "meta"
           ms == MetaMembers
<1>1. IsText(seen.path) /\ call.op \in Query
  BY SeenText DEF Query
<1>2. Clean(PathText)
  <2>1. CASE provider = "c"
    <3>1. \A i \in DOMAIN call.path : call.path[i] \notin {"quote", "bslash"}
      BY <2>1 DEF Answerable
    <3>2. seen.path = call.path /\ PathText = seen.path
      BY <2>1 DEF SeenQuery, PathText
    <3>3. DOMAIN seen.path = 1 .. Len(seen.path)
      BY <1>1 DEF IsText
    <3> QED
      BY <1>1, <3>1, <3>2, <3>3, PlainClean
  <2>2. CASE provider # "c"
    BY <1>1, <2>2, EscapedByClean DEF PathText
  <2> QED
    BY <2>1, <2>2
<1>3. response = Answer(key, Object(Pieces(ms))) /\ GoodAll(ms) /\ Len(ms) = 4
  BY <1>2, MetaTextIs
<1>4. Len(PathText) \in Nat /\ MetaPathSize \in Nat /\ Len(PathText) < MetaPathSize
  BY <1>1, PathFits
<1>5. max \in Nat /\ max >= 13
  <2>1. max = MaxTokens
    BY DEF Allowed
  <2>2. MaxTokens \in Nat /\ MaxTokens \div 4 >= 7
    BY Sizes
  <2>3. MaxTokens >= 13
    BY <2>2
  <2> QED
    BY <2>1, <2>2, <2>3
<1>6. /\ JsonResult.ok = Outcome(p).ok /\ JsonResult.type = Outcome(p).type /\ JsonResult.nums = Outcome(p).nums
  BY JsonFields
<1>7. key \notin {"quote", "bslash", "status"}
  OBVIOUS
<1> HIDE DEF max, key, ms
<1>8. PICK t, o : HasObject(response, max, key, ms, t, o)
  BY <1>3, <1>5, <1>7, ObjectAnswer
<1>9. /\ ParseIs(response, max, t) /\ Len(t) = 5 + 2 * Len(ms) /\ ObjectIn(response, t, o, ms)
      /\ t \in Seq(Tokens) /\ t # <<>> /\ t[1].type = "object" /\ o \in 3 .. 5
      /\ Value(t, 1, "status") \in 1 .. Len(t) /\ TextOf(t, Value(t, 1, "status")) = <<"ok">>
      /\ Value(t, 1, key) = o
  BY <1>8, Zenon DEF HasObject, Answered, Value, TextOf
<1>10. Len(t) = 13
  BY <1>3, <1>9
<1>11. p.error = FALSE /\ p.tokens = t
  BY <1>5, <1>9, <1>10 DEF ParseIs
<1>12. o \in Nat /\ o # 0
  BY <1>9
<1>13. MetaResult(t).ok = TRUE /\ MetaResult(t).type = <<MetaType>> /\ MetaResult(t).nums = <<MetaSize>>
  BY <1>4, <1>9, <1>12, MetaRead DEF key, ms
<1>14. Value(t, 1, "status") # NoToken
  BY <1>9 DEF NoToken
<1> HIDE DEF p
<1>15. Outcome(p) = MetaResult(t)
  BY <1>9, <1>11, <1>14 DEF Outcome
<1> QED
  BY <1>6, <1>13, <1>15

(* A write and what has a body are told to have succeeded. *)
LEMMA WriteOutcome ==
  ASSUME call.op = "write", response = WriteText
  PROVE  JsonResult.ok = TRUE
<1> DEFINE p == jsmn_parse(response, Allowed(call.op))
           t == p.tokens
           s == StatusIs("ok")
           n == WrittenIs
           d == DigestIs
           one == <<"1">>
           dig == <<"digest">>
           okay == <<"ok">>
<1>1. s.key = "status" /\ s.v = okay
  BY PieceOf DEF StatusIs
<1>2. n.key = "bytes_written" /\ n.v = one
  BY PieceOf DEF WrittenIs
<1>3. d.key = "content_md5" /\ d.v = dig
  BY PieceOf DEF DigestIs
<1>4. WriteText = Line(Pieces(WriteMembers)) /\ GoodAll(WriteMembers) /\ Len(WriteMembers) = 3
  BY WriteTextIs
<1>5. WriteMembers = <<s, n, d>> \/ WriteMembers = <<n, d, s>>
  BY DEF WriteMembers
<1> HIDE DEF s, n, d, one, dig, okay
<1>6. /\ ~ p.error /\ t # <<>> /\ t[1].type = "object"
      /\ Says(t, 1, "status", okay) /\ Says(t, 1, "bytes_written", one) /\ Says(t, 1, "content_md5", dig)
  <2>1. CASE WriteMembers = <<s, n, d>>
    BY <1>1, <1>2, <1>3, <1>4, <2>1, ThreeSaid
  <2>2. CASE WriteMembers = <<n, d, s>>
    BY <1>1, <1>2, <1>3, <1>4, <2>2, ThreeSaid
  <2> QED
    BY <1>5, <2>1, <2>2
<1>7. JsonResult.ok = Outcome(p).ok
  BY JsonFields
<1> HIDE DEF p
<1>8. /\ Value(t, 1, "status") # NoToken /\ TextOf(t, Value(t, 1, "status")) = okay
      /\ Value(t, 1, "bytes_written") # NoToken /\ TextOf(t, Value(t, 1, "bytes_written")) = one
      /\ Value(t, 1, "content_md5") # NoToken /\ TextOf(t, Value(t, 1, "content_md5")) = dig
  BY <1>6, Zenon DEF Says
<1>9. WriteResult(t) = [NoResult EXCEPT !.ok = TRUE]
  BY <1>8, Zenon DEF WriteResult, one, dig
<1>10. Outcome(p) = WriteResult(t)
  BY <1>6, <1>8 DEF Outcome, okay
<1> QED
  BY <1>7, <1>9, <1>10, OkField

LEMMA BodyOutcome ==
  ASSUME call.op \notin Query, response = Line(<<StatusOk>>)
  PROVE  JsonResult.ok = TRUE
<1> DEFINE max == Allowed(call.op)
           p == jsmn_parse(response, max)
           t == p.tokens
           s == StatusIs("ok")
           ms == <<s>>
           o == 1
           okay == <<"ok">>
<1>1. s.key = "status" /\ s.v = okay
  BY PieceOf DEF StatusIs
<1>2. response = Line(Pieces(ms)) /\ GoodAll(ms) /\ Len(ms) = 1
  BY OkTextIs
<1>3. max \in Nat /\ max >= 3
  <2>1. max \in Nat /\ max >= 7
    BY Rooms
  <2> HIDE DEF max
  <2> QED
    BY <2>1
<1>4. JsonResult.ok = Outcome(p).ok
  BY JsonFields
<1>5. ms[1] = s /\ o \in Nat /\ o # 0 /\ 1 \in 1 .. Len(ms) /\ Len(ms) \in Nat
  BY <1>2
<1> HIDE DEF max, ms, s, okay
<1>6. p.error = FALSE /\ FlatAnswer(response, t, ms)
  BY <1>2, <1>3, FlatOne
<1> HIDE DEF p
<1>7. t \in Seq(Tokens) /\ t # <<>> /\ t[1].type = "object" /\ ObjectIn(response, t, o, ms)
  BY <1>5, <1>6, FlatIn, Zenon
<1>8. FirstKey(ms, 1)
  <2>1. \A i \in 1 .. 1 - 1 : FALSE
    OBVIOUS
  <2> QED
    BY <2>1 DEF FirstKey
<1> HIDE DEF o
<1> DEFINE j == 1
<1>9. j \in 1 .. Len(ms) /\ FirstKey(ms, j)
  BY <1>5, <1>8
<1> HIDE DEF j
<1>10. Says(t, o, ms[j].key, ms[j].v)
  BY <1>5, <1>7, <1>9, SaysMember, Zenon
<1>11. Says(t, 1, "status", okay)
  BY <1>1, <1>5, <1>10 DEF j, o
<1>12. Value(t, 1, "status") # NoToken /\ TextOf(t, Value(t, 1, "status")) = okay
  BY <1>11, Zenon DEF Says
<1>13. Outcome(p) = [NoResult EXCEPT !.ok = TRUE]
  BY <1>6, <1>7, <1>12 DEF Outcome, okay, Query
<1> QED
  BY <1>4, <1>13, OkField

LEMMA OutcomeOk ==
  ASSUME NEW p
  PROVE  Outcome(p).ok \in BOOLEAN
<1> DEFINE fail(e) == [NoResult EXCEPT !.errno = e]
           t == p.tokens
           made == [NoResult EXCEPT !.ok = TRUE]
           err == fail(TextOf(t, Value(t, 1, "errno"))[1])
<1>1. fail("EIO").ok = FALSE /\ fail("ENOBUFS").ok = FALSE /\ err.ok = FALSE /\ made.ok = TRUE
  BY FailedField, OkField
<1>2. ListResult(t).ok \in BOOLEAN
  <2> DEFINE array == Value(t, 1, "entries")
             objects == EntryTokens(t, array)
             en == [i \in DOMAIN objects |-> Entry(t, objects[i])]
             got == [i \in DOMAIN en |-> [name |-> en[i].name, type |-> en[i].type]]
             lm == [NoResult EXCEPT !.ok = TRUE, !.entries = got]
  <2>1. lm.ok = TRUE
    BY EntriesField
  <2>2. ListResult(t) = fail("EIO") \/ ListResult(t) = fail("ENOBUFS") \/ ListResult(t) = lm
    BY Zenon DEF ListResult
  <2> HIDE DEF lm, fail
  <2> QED
    BY <1>1, <2>1, <2>2
<1>3. MetaResult(t).ok \in BOOLEAN
  <2> DEFINE meta == Value(t, 1, "meta")
             at(key) == Value(t, meta, key)
             mm == [NoResult EXCEPT !.ok = TRUE, !.type = TextOf(t, at("type")), !.nums = TextOf(t, at("size"))]
  <2>1. mm.ok = TRUE
    BY MetaField
  <2>2. MetaResult(t) = fail("EIO") \/ MetaResult(t) = mm
    BY Zenon DEF MetaResult
  <2> HIDE DEF mm, fail
  <2> QED
    BY <1>1, <2>1, <2>2
<1>4. WriteResult(t) = fail("EIO") \/ WriteResult(t) = made
  BY Zenon DEF WriteResult
<1>5. \/ Outcome(p) = fail("EIO") \/ Outcome(p) = err \/ Outcome(p) = made
      \/ Outcome(p) = ListResult(t) \/ Outcome(p) = MetaResult(t) \/ Outcome(p) = WriteResult(t)
  BY DEF Outcome
<1> HIDE DEF fail, err, made
<1> QED
  BY <1>1, <1>2, <1>3, <1>4, <1>5

(* Nothing is granted before it is asked for, and the request of a query    *)
(* on its way fitted endpoint[].                                            *)
Asked ==
    /\ stage = "start" => answer.ok = FALSE
    /\ stage \in {"sent", "decoded", "answered"} /\ call.op \in Query => Len(Endpoint(call)) < EndpointSize

LEMMA AskedStep ==
  ASSUME WireInv, Asked, [Next]_vars
  PROVE  Asked'
<1>1. call' = call => Endpoint(call)' = Endpoint(call)
  BY DEF Endpoint, QueryNumbers
<1>2. CASE SendQuery \/ SendBody
  <2>1. WireInv' /\ call' = call
    BY <1>2, SendInv DEF SendQuery, SendBody
  <2>2. stage' \in {"sent", "returned"}
    BY <1>2 DEF SendQuery, SendBody, Send, Fails, Return
  <2> QED
    BY <1>1, <2>1, <2>2 DEF Asked, WireInv
<1>3. CASE DecodeQueryC \/ DecodeBodyC \/ DecodeQueryLibrary \/ DecodeBodyLibrary
  <2>1. stage = "sent" /\ call' = call /\ stage' \in {"decoded", "answered"}
    BY <1>3 DEF DecodeQueryC, DecodeBodyC, DecodeQueryLibrary, DecodeBodyLibrary, Handle, Reject
  <2> QED
    BY <1>1, <2>1 DEF Asked
<1>4. CASE Succeed \/ Refuse
  <2>1. stage = "decoded" /\ call' = call /\ stage' = "answered"
    BY <1>4 DEF Succeed, Refuse, Reject
  <2> QED
    BY <1>1, <2>1 DEF Asked
<1>5. CASE ReadAnswer
  BY <1>5 DEF Asked, ReadAnswer, Return
<1>6. CASE UNCHANGED vars
  BY <1>1, <1>6 DEF Asked, vars
<1> QED
  BY <1>2, <1>3, <1>4, <1>5, <1>6 DEF Next, Returned

(* What the caller of a granted request is told *)
LEMMA GrantedOutcome ==
  ASSUME Fixed, Granted, call.op # "read", call.op \in Query => Len(Endpoint(call)) < EndpointSize, Answerable
  PROVE  /\ JsonResult.ok = TRUE
         /\ call.op = "meta" => JsonResult.type = <<MetaType>> /\ JsonResult.nums = <<MetaSize>>
<1>1. response = OkText /\ (call.op \in Query => SeenQuery)
  BY DEF Granted
<1>2. CASE call.op = "list"
  <2>1. response = ListText
    BY <1>1, <1>2 DEF OkText
  <2>2. JsonResult.ok
    BY <1>2, <2>1, ListOutcome
  <2>3. JsonResult.ok \in BOOLEAN
    <3> DEFINE p == jsmn_parse(response, Allowed(call.op))
    <3>1. JsonResult.ok = Outcome(p).ok
      BY JsonFields
    <3> HIDE DEF p
    <3> QED
      BY <3>1, OutcomeOk
  <2> QED
    BY <1>2, <2>2, <2>3
<1>3. CASE call.op = "meta"
  <2>1. response = MetaText /\ call.op \in Query
    BY <1>1, <1>3 DEF OkText, Query
  <2> QED
    BY <1>1, <1>3, <2>1, MetaOutcome
<1>4. CASE call.op = "write"
  <2>1. response = WriteText
    BY <1>1, <1>4 DEF OkText
  <2> QED
    BY <1>4, <2>1, WriteOutcome
<1>5. CASE call.op \notin Query
  <2>1. response = Line(<<StatusOk>>)
    BY <1>1, <1>5 DEF OkText, Query
  <2> QED
    BY <1>5, <2>1, BodyOutcome DEF Query
<1> QED
  BY <1>2, <1>3, <1>4, <1>5 DEF Query

(* The caller is told success exactly of a call that succeeded: an error is *)
(* never taken for success, nor the answer to an Answerable call for an     *)
(* error; a file's type and size are its own.                               *)
THEOREM OutcomeIsTold == Spec => []OutcomeTold
<1>1. ASSUME Init PROVE Asked /\ OutcomeTold
  BY <1>1 DEF Init, Asked, OutcomeTold
<1>2. ASSUME WireInv, Asked, OutcomeTold, [Next]_vars PROVE OutcomeTold'
  <2> SUFFICES ASSUME stage' = "returned"
               PROVE  /\ result'.ok => answer'.ok
                      /\ answer'.ok /\ Answerable' => result'.ok
                      /\ result'.ok /\ call'.op = "meta" /\ Answerable' =>
                            result'.type = <<MetaType>> /\ result'.nums = <<MetaSize>>
    BY DEF OutcomeTold, MetaType, MetaSize
  <2>0. UNCHANGED <<provider, dir, call>> => (Answerable' <=> Answerable)
    BY DEF Answerable, EscapedBy
  <2>1. CASE stage = "returned" /\ UNCHANGED vars
    BY <1>2, <2>0, <2>1 DEF OutcomeTold, vars
  <2>2. CASE /\ stage = "start" /\ UNCHANGED <<provider, dir, call, answer, response, seen>>
             /\ \E e \in {"ENAMETOOLONG", "EINVAL"} : result' = [NoResult EXCEPT !.errno = e]
    <3>1. result'.ok = FALSE /\ answer'.ok = FALSE
      BY <1>2, <2>2, FailedField DEF Asked
    <3> QED
      BY <3>1
  <2>3. CASE /\ stage = "answered" /\ UNCHANGED <<provider, dir, call, answer, response, seen>>
             /\ \/ call.op = "read" /\ answer.ok = TRUE /\ result' = [NoResult EXCEPT !.ok = TRUE]
                \/ (Refused \/ Granted) /\ ~(call.op = "read" /\ answer.ok) /\ result' = JsonResult
    <3>1. CASE call.op = "read" /\ answer.ok = TRUE /\ result' = [NoResult EXCEPT !.ok = TRUE]
      <4>1. result'.ok = TRUE /\ answer'.ok = TRUE /\ call'.op # "meta"
        BY <2>3, <3>1, OkField
      <4> QED
        BY <4>1
    <3>2. CASE Refused /\ result' = JsonResult
      <4>1. JsonResult.ok = FALSE /\ answer.ok = FALSE
        BY <3>2, ErrorOutcome DEF Refused
      <4>2. result'.ok = FALSE /\ answer'.ok = FALSE
        BY <2>3, <3>2, <4>1
      <4> QED
        BY <4>2
    <3>3. CASE Granted /\ ~(call.op = "read" /\ answer.ok) /\ result' = JsonResult
      <4>1. answer'.ok = TRUE /\ call.op # "read"
        BY <2>3, <3>3 DEF Granted
      <4>2. Fixed /\ (call.op \in Query => Len(Endpoint(call)) < EndpointSize)
        BY <1>2, <2>3 DEF WireInv, Asked
      <4>3. ASSUME Answerable
            PROVE  /\ result'.ok = TRUE
                   /\ call.op = "meta" => result'.type = <<MetaType>> /\ result'.nums = <<MetaSize>>
        <5>1. /\ JsonResult.ok = TRUE
              /\ call.op = "meta" => JsonResult.type = <<MetaType>> /\ JsonResult.nums = <<MetaSize>>
          BY <3>3, <4>1, <4>2, <4>3, GrantedOutcome
        <5> QED
          BY <3>3, <5>1
      <4> QED
        BY <2>0, <2>3, <4>1, <4>3
    <3> QED
      BY <2>3, <3>1, <3>2, <3>3
  <2> QED
    BY <1>2, <2>1, <2>2, <2>3, ResultStep
<1>3. ASSUME WireInv, Asked, [Next]_vars PROVE Asked'
  BY <1>3, AskedStep
<1> QED
  BY <1>1, <1>2, <1>3, WireInvariant, PTL DEF Spec

-----------------------------------------------------------------------------
(* What the parser has found stays found, whatever follows. *)

(* a token that was open is still open, or ended behind n *)
KeptToken(a, b, n) ==
    b.type = a.type /\ b.start = a.start /\ b.parent = a.parent /\ (b.end = a.end \/ (a.end = 0 /\ b.end > n))
Keeps(s, t, n) ==
    s \in Seq(Tokens) /\ t \in Seq(Tokens) /\ Len(s) <= Len(t) /\ \A j \in 1 .. Len(s) : KeptToken(s[j], t[j], n)

LEMMA KeepsSelf ==
  ASSUME NEW s \in Seq(Tokens), NEW n
  PROVE  Keeps(s, s, n)
<1>1. Len(s) <= Len(s)
  OBVIOUS
<1> QED
  BY <1>1 DEF Keeps, KeptToken

LEMMA KeepsOn ==
  ASSUME NEW n \in Nat, NEW s, NEW t, NEW u, Keeps(s, t, n), Keeps(t, u, n)
  PROVE  Keeps(s, u, n)
<1>1. Len(s) \in Nat /\ Len(t) \in Nat /\ Len(u) \in Nat /\ Len(s) <= Len(t) /\ Len(t) <= Len(u)
  BY DEF Keeps
<1>2. ASSUME NEW j \in 1 .. Len(s)
      PROVE  KeptToken(s[j], u[j], n)
  <2>1. j \in 1 .. Len(t)
    BY <1>1
  <2>2. KeptToken(s[j], t[j], n) /\ KeptToken(t[j], u[j], n)
    BY <2>1 DEF Keeps
  <2>3. t[j].end > n => t[j].end # 0
    OBVIOUS
  <2> QED
    BY <2>2, <2>3 DEF KeptToken
<1>3. Len(s) <= Len(u)
  BY <1>1
<1> QED
  BY <1>2, <1>3 DEF Keeps

LEMMA KeepsMore ==
  ASSUME NEW n, NEW s \in Seq(Tokens), NEW a \in Tokens
  PROVE  Keeps(s, Append(s, a), n)
<1> DEFINE t == Append(s, a)
<1>1. t \in Seq(Tokens) /\ Len(s) <= Len(t) /\ \A j \in 1 .. Len(s) : t[j] = s[j]
  OBVIOUS
<1> HIDE DEF t
<1> QED
  BY <1>1 DEF Keeps, KeptToken, t

LEMMA AddKeeps ==
  ASSUME NEW n, NEW max \in Nat, NEW p, Within(p, max), NEW type \in Kinds, NEW start \in Nat, NEW end \in Nat
  PROVE  Keeps(p.tokens, AddToken(p, type, start, end, max).tokens, n)
<1> DEFINE q == AddToken(p, type, start, end, max)
           a == Token(type, start, end, p.super)
<1>1. p \in Parsers /\ p.tokens \in Seq(Tokens) /\ Len(p.tokens) \in Nat /\ p.super \in Nat
  BY ParserFields DEF Within
<1>2. q.tokens = p.tokens \/ q.tokens = Append(p.tokens, a)
  <2>1. CASE Len(p.tokens) >= max
    <3>1. q = [p EXCEPT !.error = TRUE]
      BY <2>1 DEF AddToken, Stop
    <3> HIDE DEF q
    <3> QED
      BY <1>1, <3>1 DEF Parsers
  <2>2. CASE ~(Len(p.tokens) >= max)
    <3>1. q = [p EXCEPT !.tokens = Append(p.tokens, a)]
      BY <2>2 DEF AddToken, Token
    <3> HIDE DEF q, a
    <3> QED
      BY <1>1, <3>1 DEF Parsers
  <2> QED
    BY <2>1, <2>2
<1>3. a \in Tokens
  BY <1>1 DEF Token, Tokens
<1> HIDE DEF q, a
<1>6. Keeps(p.tokens, q.tokens, n)
  BY <1>1, <1>2, <1>3, KeepsSelf, KeepsMore
<1> QED
  BY <1>6 DEF q

LEMMA OpenKeeps ==
  ASSUME NEW n, NEW max \in Nat, NEW p, Within(p, max), NEW type \in Kinds, NEW pos \in Nat
  PROVE  Keeps(p.tokens, Open(p, type, pos, max).tokens, n)
<1> DEFINE q == AddToken(p, type, pos, 0, max)
<1>1. Keeps(p.tokens, q.tokens, n)
  BY AddKeeps
<1>2. Within(q, max)
  BY TokenAdded
<1>3. q \in Parsers /\ Len(q.tokens) \in Nat
  BY <1>2, ParserFields DEF Within
<1>4. Open(p, type, pos, max) = IF q.error THEN q ELSE [q EXCEPT !.super = Len(q.tokens)]
  BY Zenon DEF Open
<1> HIDE DEF q
<1>5. [q EXCEPT !.super = Len(q.tokens)].tokens = q.tokens
  BY <1>3, SetSuper
<1> QED
  BY <1>1, <1>4, <1>5

LEMMA CloseKeeps ==
  ASSUME NEW n \in Nat, NEW max \in Nat, NEW p, Within(p, max), NEW type, NEW pos \in Nat, pos > n
  PROVE  Keeps(p.tokens, Close(p, type, pos).tokens, n)
<1>1. p \in Parsers /\ Len(p.tokens) \in Nat /\ p.tokens \in Seq(Tokens) /\ Len(p.tokens) <= max
  BY ParserFields DEF Within
<1>2. Stop(p).tokens = p.tokens
  BY <1>1, SetError DEF Stop, SameTokens
<1> DEFINE i == CHOOSE i \in OpenTokens(p) : \A j \in OpenTokens(p) : j <= i
           t == [p.tokens[i] EXCEPT !.end = pos + 1]
           ts == [p.tokens EXCEPT ![i] = t]
           c == [p EXCEPT !.tokens = ts, !.super = p.tokens[i].parent]
<1>3. CASE OpenTokens(p) # {} /\ p.tokens[i].type = type
  <2>1. i \in OpenTokens(p)
    BY <1>1, <1>3, LastOpen
  <2>2. Close(p, type, pos) = [p EXCEPT !.tokens[i].end = pos + 1, !.super = p.tokens[i].parent]
    BY <1>3 DEF Close
  <2> HIDE DEF i
  <2>3. i \in 1 .. Len(p.tokens) /\ i \in DOMAIN p.tokens /\ p.tokens[i] \in Tokens /\ p.tokens[i].end = 0
    BY <1>1, <2>1 DEF OpenTokens
  <2>4. Close(p, type, pos) = c
    BY <1>1, <2>2, <2>3 DEF Parsers
  <2>5. /\ t \in Tokens /\ p.tokens[i].parent \in Nat
        /\ t.type = p.tokens[i].type /\ t.start = p.tokens[i].start /\ t.parent = p.tokens[i].parent
        /\ t.end = pos + 1 /\ pos + 1 > n
    BY <2>3 DEF Tokens
  <2> HIDE DEF t
  <2>6. ts \in Seq(Tokens) /\ Len(ts) = Len(p.tokens) /\ ts[i] = t /\ \A j \in 1 .. Len(p.tokens) : j # i => ts[j] = p.tokens[j]
    BY <1>1, <2>3, <2>5, ExceptSeq
  <2> HIDE DEF ts
  <2>7. c.tokens = ts
    BY <1>1, <2>5, <2>6 DEF Parsers
  <2> HIDE DEF c
  <2>8. \A j \in 1 .. Len(p.tokens) : KeptToken(p.tokens[j], ts[j], n)
    <3> SUFFICES ASSUME NEW j \in 1 .. Len(p.tokens) PROVE KeptToken(p.tokens[j], ts[j], n)
      OBVIOUS
    <3>1. CASE j = i
      BY <2>3, <2>5, <2>6, <3>1 DEF KeptToken
    <3>2. CASE j # i
      BY <2>6, <3>2 DEF KeptToken
    <3> QED
      BY <3>1, <3>2
  <2>9. Len(p.tokens) <= Len(ts)
    BY <1>1, <2>6
  <2> QED
    BY <1>1, <2>4, <2>6, <2>7, <2>8, <2>9 DEF Keeps
<1>4. CASE ~ (OpenTokens(p) # {} /\ p.tokens[i].type = type)
  <2>1. Close(p, type, pos) = Stop(p)
    BY <1>4, Zenon DEF Close
  <2> QED
    BY <1>1, <1>2, <2>1, KeepsSelf
<1> QED
  BY <1>3, <1>4

LEMMA TopKeeps ==
  ASSUME NEW n \in Nat, NEW max \in Nat, NEW p, Within(p, max), NEW ch, NEW pos \in Nat, pos > n
  PROVE  Keeps(p.tokens, Top(p, ch, pos, max).tokens, n)
<1>1. p \in Parsers /\ p.tokens \in Seq(Tokens)
  BY ParserFields DEF Within
<1>2. Stop(p).tokens = p.tokens
  BY <1>1, SetError DEF Stop, SameTokens
<1>4. /\ [p EXCEPT !.mode = "string", !.start = pos].tokens = p.tokens
      /\ [p EXCEPT !.mode = "primitive", !.start = pos].tokens = p.tokens
  BY <1>1 DEF Parsers
<1>5. /\ Keeps(p.tokens, Open(p, "object", pos, max).tokens, n)
      /\ Keeps(p.tokens, Open(p, "array", pos, max).tokens, n)
  BY OpenKeeps, Zenon DEF Kinds
<1>6. /\ Keeps(p.tokens, Close(p, "object", pos).tokens, n)
      /\ Keeps(p.tokens, Close(p, "array", pos).tokens, n)
  BY CloseKeeps
<1>7. \/ Top(p, ch, pos, max) \in {Open(p, "object", pos, max), Open(p, "array", pos, max)}
      \/ Top(p, ch, pos, max) \in {Close(p, "object", pos), Close(p, "array", pos)}
      \/ Top(p, ch, pos, max) = [p EXCEPT !.mode = "string", !.start = pos]
      \/ Top(p, ch, pos, max) = [p EXCEPT !.mode = "primitive", !.start = pos]
      \/ Top(p, ch, pos, max) \in {p, Stop(p)}
  BY DEF Top
<1>8. Keeps(p.tokens, p.tokens, n)
  BY <1>1, KeepsSelf
<1> QED
  BY <1>2, <1>4, <1>5, <1>6, <1>7, <1>8, Zenon

LEMMA ConsumeKeeps ==
  ASSUME NEW n \in Nat, NEW max \in Nat, NEW p, Within(p, max), NEW ch, NEW pos \in Nat, pos > n
  PROVE  Keeps(p.tokens, Consume(p, ch, pos, max).tokens, n)
<1>1. p \in Parsers /\ p.tokens \in Seq(Tokens) /\ p.mode \in Modes /\ p.start \in Nat /\ p.start + 1 \in Nat
  BY ParserFields DEF Within
<1>2. Stop(p).tokens = p.tokens
  BY <1>1, SetError DEF Stop, SameTokens
<1>3. Keeps(p.tokens, p.tokens, n)
  BY <1>1, KeepsSelf
<1>4. Keeps(p.tokens, InString(p, ch, pos, max).tokens, n)
  <2> DEFINE a == AddToken(p, "string", p.start + 1, pos, max)
             b == [a EXCEPT !.mode = "top"]
             c == [p EXCEPT !.mode = "escape"]
             d == [p EXCEPT !.skip = @ - 1]
  <2>1. Keeps(p.tokens, a.tokens, n) /\ Within(a, max)
    BY <1>1, AddKeeps, TokenAdded DEF Kinds
  <2>2. \/ InString(p, ch, pos, max) = d \/ InString(p, ch, pos, max) = b
        \/ InString(p, ch, pos, max) = c \/ InString(p, ch, pos, max) = p
    BY DEF InString
  <2>3. c.tokens = p.tokens /\ d.tokens = p.tokens
    BY <1>1 DEF Parsers
  <2> HIDE DEF a, c, d
  <2>4. b.tokens = a.tokens
    BY <2>1 DEF Within, Parsers
  <2> HIDE DEF b
  <2> QED
    BY <1>3, <2>1, <2>2, <2>3, <2>4
<1>5. Keeps(p.tokens, AfterBackslash(p, ch).tokens, n)
  <2> DEFINE b == [p EXCEPT !.mode = "string"]
             c == [p EXCEPT !.mode = "string", !.skip = 4]
  <2>1. AfterBackslash(p, ch) \in {b, Stop(p), c}
    BY DEF AfterBackslash
  <2>2. b.tokens = p.tokens /\ c.tokens = p.tokens
    BY <1>1 DEF Parsers
  <2> HIDE DEF b, c
  <2> QED
    BY <1>2, <1>3, <2>1, <2>2
<1>6. Keeps(p.tokens, InPrimitive(p, ch, pos, max).tokens, n)
  <2> DEFINE q == AddToken(p, "primitive", p.start, pos, max)
             r == [q EXCEPT !.mode = "top"]
             u == Top(r, ch, pos, max)
  <2>1. Keeps(p.tokens, q.tokens, n) /\ Within(q, max)
    BY <1>1, AddKeeps, TokenAdded DEF Kinds
  <2>2. InPrimitive(p, ch, pos, max) \in {q, u, p, Stop(p)}
    BY DEF InPrimitive
  <2> HIDE DEF q
  <2>3. Within(r, max) /\ r.tokens = q.tokens
    BY <2>1 DEF Within, Parsers, Modes
  <2> HIDE DEF r
  <2>4. Keeps(r.tokens, u.tokens, n)
    BY <2>3, TopKeeps
  <2> HIDE DEF u
  <2>5. Keeps(p.tokens, u.tokens, n)
    BY <2>1, <2>3, <2>4, KeepsOn
  <2> QED
    BY <1>2, <1>3, <2>1, <2>2, <2>5
<1>7. \/ Consume(p, ch, pos, max) = Top(p, ch, pos, max)
      \/ Consume(p, ch, pos, max) = InString(p, ch, pos, max)
      \/ Consume(p, ch, pos, max) = AfterBackslash(p, ch)
      \/ Consume(p, ch, pos, max) = InPrimitive(p, ch, pos, max)
  BY <1>1 DEF Consume, Modes
<1> QED
  BY <1>4, <1>5, <1>6, <1>7, TopKeeps, Zenon

LEMMA ParsedKeeps ==
  ASSUME NEW max \in Nat, NEW text, Len(text) \in Nat, NEW n \in 0 .. Len(text)
  PROVE  Keeps(Parsed(text, max)[n].tokens, Parsed(text, max)[Len(text)].tokens, n)
<1> DEFINE f == Parsed(text, max)
           T == {k \in Nat : n + k <= Len(text) => Keeps(f[n].tokens, f[n + k].tokens, n)}
<1>1. \A m \in 1 .. Len(text) : f[m] = Turn(f[m - 1], text, m, max)
  BY ParsedTurns, Zenon
<1>2. \A m \in 0 .. Len(text) : Within(f[m], max)
  BY ParsedWithin, Zenon
<1>3. n \in Nat
  OBVIOUS
<1> HIDE DEF f
<1>4. 0 \in T
  <2>1. f[n].tokens \in Seq(Tokens)
    BY <1>2, ParserFields DEF Within
  <2>2. Keeps(f[n].tokens, f[n].tokens, n) /\ n + 0 = n
    BY <1>3, <2>1, KeepsSelf
  <2> QED
    BY <2>2
<1>5. ASSUME NEW k \in Nat, k \in T
      PROVE  k + 1 \in T
  <2> SUFFICES ASSUME n + (k + 1) <= Len(text) PROVE Keeps(f[n].tokens, f[n + (k + 1)].tokens, n)
    OBVIOUS
  <2> DEFINE m == n + k
             o == n + (k + 1)
  <2>1. m \in 0 .. Len(text) /\ o \in 1 .. Len(text) /\ o - 1 = m /\ o > n /\ o \in Nat /\ n + k <= Len(text)
    BY <1>3
  <2>2. Keeps(f[n].tokens, f[m].tokens, n)
    BY <1>5, <2>1
  <2> HIDE DEF m, o
  <2>3. f[o] = Turn(f[m], text, o, max) /\ Within(f[m], max)
    BY <1>1, <1>2, <2>1
  <2> DEFINE p == f[m]
  <2>4. Keeps(p.tokens, f[o].tokens, n)
    <3>1. Keeps(p.tokens, Consume(p, text[o], o, max).tokens, n) /\ Keeps(p.tokens, p.tokens, n)
      <4>1. Within(p, max) /\ p.tokens \in Seq(Tokens)
        BY <2>3, ParserFields DEF Within
      <4> HIDE DEF p
      <4> QED
        BY <1>3, <2>1, <4>1, ConsumeKeeps, KeepsSelf
    <3> QED
      BY <2>3, <3>1, Zenon DEF Turn
  <2>5. Keeps(f[n].tokens, f[o].tokens, n)
    BY <1>3, <2>2, <2>4, KeepsOn
  <2> QED
    BY <2>5 DEF o
<1>6. \A k \in Nat : k \in T
  <2> HIDE DEF T
  <2>1. \A k \in Nat : k \in T => k + 1 \in T
    BY <1>5, Zenon
  <2> QED
    BY <1>4, <2>1, SetInduction, Zenon
<1>7. Len(text) - n \in Nat /\ n + (Len(text) - n) = Len(text) /\ Len(text) <= Len(text)
  OBVIOUS
<1>8. Len(text) - n \in T
  BY <1>6, <1>7
<1> QED
  BY <1>7, <1>8 DEF f

(* ... and in a text that is read to its end no token is left open. *)
LEMMA ParseKeeps ==
  ASSUME NEW max \in Nat, NEW text, Len(text) \in Nat, NEW n \in 0 .. Len(text),
         jsmn_parse(text, max).error = FALSE
  PROVE  LET t == jsmn_parse(text, max).tokens IN
         Keeps(Parsed(text, max)[n].tokens, t, n) /\ \A j \in 1 .. Len(t) : t[j].end # 0
<1> DEFINE last == Parsed(text, max)[Len(text)]
           a == AddToken(last, "primitive", last.start, Len(text) + 1, max)
           done == IF last.error \/ last.mode # "primitive" THEN last ELSE a
           e == done.error \/ done.mode \in {"string", "escape"} \/ OpenTokens(done) # {}
           p == jsmn_parse(text, max)
<1>1. Within(last, max) /\ Keeps(Parsed(text, max)[n].tokens, last.tokens, n)
  BY ParsedWithin, ParsedKeeps
<1>0. p = [done EXCEPT !.error = e]
  BY DEF jsmn_parse
<1> HIDE DEF last
<1>2. last.start \in Nat /\ Len(text) + 1 \in Nat /\ last.tokens \in Seq(Tokens)
  BY <1>1 DEF Within, Parsers
<1>3. Within(a, max) /\ Keeps(last.tokens, a.tokens, n)
  BY <1>1, <1>2, TokenAdded, AddKeeps DEF Kinds
<1> HIDE DEF a
<1>4. Within(done, max) /\ Keeps(last.tokens, done.tokens, n)
  BY <1>1, <1>2, <1>3, KeepsSelf
<1> HIDE DEF done
<1>5. p.tokens = done.tokens /\ p.error = e
  BY <1>0, <1>4 DEF Within, Parsers
<1>6. OpenTokens(done) = {}
  BY <1>5
<1>7. \A j \in 1 .. Len(done.tokens) : done.tokens[j].end # 0
  <2>1. DOMAIN done.tokens = 1 .. Len(done.tokens)
    BY <1>4 DEF Within, Parsers
  <2> QED
    BY <1>6, <2>1 DEF OpenTokens
<1>8. Keeps(Parsed(text, max)[n].tokens, done.tokens, n)
  <2>1. n \in Nat
    OBVIOUS
  <2> QED
    BY <1>1, <1>4, <2>1, KeepsOn
<1> QED
  BY <1>5, <1>7, <1>8

(* The client finds the status of an answer that begins with it, if it can *)
(* parse the answer at all.                                                *)
StatusFound(text, t) ==
    /\ t # <<>> /\ t[1].type = "object" /\ find_object_value(text, t, 1, "status") = 3
    /\ TokenText(text, t[3]) = <<"ok">>

LEMMA StatusKept ==
  ASSUME NEW max \in Nat, max >= 4, NEW key, key \notin {"quote", "bslash"}, NEW v, IsText(v),
         NEW text, text = Line(FirstParts(key, v)), jsmn_parse(text, max).error = FALSE
  PROVE  StatusFound(text, jsmn_parse(text, max).tokens)
<1> DEFINE t == jsmn_parse(text, max).tokens
           ok == <<"ok">>
           n == 13
<1>1. PICK tk : FirstOpened(text, max, key, v, tk)
  BY StatusFirst
<1>2. /\ IsText(text) /\ At(text, max, 13, 1, tk) /\ Outer(tk) /\ Len(tk) = 4
      /\ Pair(text, tk, 2, 1, "status", "string", ok, 1, 8)
  BY <1>1 DEF FirstOpened
<1>3. PICK start \in Nat : Reads(text, max, n, "top", start, 0, 1, tk)
  BY <1>2 DEF At
<1>4. n \in 0 .. Len(text) /\ Parsed(text, max)[n].tokens = tk
  BY <1>2, <1>3 DEF Reads, Is
<1>5. Len(text) \in Nat
  BY <1>2 DEF IsText
<1>6. Keeps(Parsed(text, max)[n].tokens, t, n) /\ \A j \in 1 .. Len(t) : t[j].end # 0
  <2> HIDE DEF n
  <2> QED
    BY <1>4, <1>5, ParseKeeps
<1> HIDE DEF t, ok
<1>7. /\ tk \in Seq(Tokens) /\ tk[1] = Top1 /\ Finished(tk, 1)
  BY <1>2 DEF Outer
<1>8. t \in Seq(Tokens) /\ 4 <= Len(t) /\ \A j \in 1 .. 4 : KeptToken(tk[j], t[j], 13)
  BY <1>2, <1>4, <1>6 DEF Keeps
<1>9. /\ 2 + 1 = 3 /\ tk[2].type = "string" /\ tk[2].parent = 1 /\ TokenText(text, tk[2]) = <<"status">>
      /\ TokenText(text, tk[3]) = ok /\ tk[2].start < tk[2].end /\ tk[2].end <= tk[3].start
      /\ tk[3].start <= tk[3].end /\ tk[3].end <= 8 + 1
      /\ tk[2].start \in Nat /\ tk[2].end \in Nat /\ tk[3].start \in Nat /\ tk[3].end \in Nat
  <2>1. 2 + 1 = 3
    OBVIOUS
  <2> QED
    BY <1>2, <1>7, <2>1, PairFacts
<1>10. t[1].type = "object" /\ t[1].end > 13
  <2>1. KeptToken(tk[1], t[1], 13) /\ t[1].end # 0
    <3>1. 1 \in 1 .. 4 /\ 1 \in 1 .. Len(t)
      BY <1>8
    <3> QED
      BY <1>6, <1>8, <3>1
  <2> QED
    BY <1>7, <2>1, Top1Fields DEF KeptToken
<1>11. /\ t[2].type = "string" /\ t[2].parent = 1 /\ t[2].start = tk[2].start
       /\ TokenText(text, t[2]) = <<"status">> /\ TokenText(text, t[3]) = ok
  <2>1. tk[2].end # 0 /\ tk[3].end # 0
    BY <1>2, <1>7 DEF Finished
  <2>2. KeptToken(tk[2], t[2], 13) /\ KeptToken(tk[3], t[3], 13)
    <3>1. 2 \in 1 .. 4 /\ 3 \in 1 .. 4
      OBVIOUS
    <3> QED
      BY <1>8, <3>1
  <2>3. /\ t[2].type = tk[2].type /\ t[2].parent = tk[2].parent /\ t[2].start = tk[2].start /\ t[2].end = tk[2].end
        /\ t[3].start = tk[3].start /\ t[3].end = tk[3].end
    BY <2>1, <2>2 DEF KeptToken
  <2> QED
    BY <1>9, <2>3 DEF TokenText
<1>12. KeyAt(text, t, 1, 2, "status")
  <2> DEFINE a == tk[2].start
             b == tk[2].end
             d == tk[3].start
             e == tk[3].end
  <2>2. a \in Nat /\ b \in Nat /\ d \in Nat /\ e \in Nat /\ a < b /\ b <= d /\ d <= e /\ e <= 8 + 1
    BY <1>9
  <2>3. t[2].start = a
    BY <1>11
  <2> HIDE DEF a, b, d, e
  <2>0. a < 10
    BY <2>2
  <2>4. t[1].end \in Nat
    <3>1. t[1] \in Tokens
      BY <1>8
    <3> QED
      BY <3>1 DEF Tokens
  <2>1. ~ (t[2].start >= t[1].end)
    BY <1>10, <2>0, <2>2, <2>3, <2>4
  <2>5. 2 \in 1 .. Len(t) /\ 2 + 1 \in 1 .. Len(t)
    BY <1>8
  <2> QED
    BY <1>11, <2>1, <2>5 DEF KeyAt
<1>13. find_object_value(text, t, 1, "status") = 3
  <2>1. Scan(text, t, 1, "status")[2] = 2 + 1
    BY <1>8, <1>12, ScanFound
  <2>2. 1 + 1 = 2 /\ 2 + 1 = 3
    OBVIOUS
  <2> QED
    BY <2>1, <2>2 DEF find_object_value
<1>14. t # <<>>
  BY <1>8
<1>15. StatusFound(text, t)
  BY <1>10, <1>11, <1>13, <1>14 DEF StatusFound, ok
<1> QED
  BY <1>15 DEF t

(* Whatever a path does to the metadata stat_to_json writes, the client is  *)
(* told of no error but its own.                                            *)
LEMMA MetaErrno ==
  ASSUME provider = "c", Fixed, SeenQuery, call.op = "meta", response = MetaText
  PROVE  ~JsonResult.ok => JsonResult.errno = "EIO"
<1> DEFINE max == Allowed(call.op)
           p == jsmn_parse(response, max)
           t == p.tokens
           key == "meta"
           path == Member("path", Quoted(seen.path))
           type == Member("type", Quoted(<<MetaType>>))
           mode == Member("mode", <<"1">>)
           size == Member("size", <<MetaSize>>)
           v == Object(<<path, type, mode, size>>)
           eio == [NoResult EXCEPT !.errno = "EIO"]
<1>1. IsText(v)
  <2>1. IsText(seen.path)
    BY SeenText
  <2>2. IsText(path) /\ IsText(type) /\ IsText(mode) /\ IsText(size)
    BY <2>1, WordText, QuotedText, AnyMemberText
  <2> HIDE DEF path, type, mode, size
  <2> QED
    BY <2>2, ObjectOfFour
<1>2. response = Line(FirstParts(key, v))
  BY Zenon DEF MetaText, Answer, FirstParts
<1>3. max \in Nat /\ max >= 4
  <2>1. max \in Nat /\ max >= 7
    BY Rooms
  <2> HIDE DEF max
  <2> QED
    BY <2>1
<1>4. JsonResult.ok = Outcome(p).ok /\ JsonResult.errno = Outcome(p).errno
  BY JsonFields
<1>5. key \notin {"quote", "bslash"}
  OBVIOUS
<1>6. eio.errno = "EIO"
  BY FailedField
<1>7. p.error \in BOOLEAN
  <2>1. IsText(response)
    BY <1>1, <1>2, <1>3, <1>5, StatusFirst DEF FirstOpened
  <2>2. Within(p, max)
    BY <1>3, <2>1, ParseWithin DEF IsText
  <2> HIDE DEF p
  <2> QED
    BY <2>2, ParserFields DEF Within
<1> HIDE DEF max, key, v, eio
<1>8. CASE p.error = TRUE
  <2>1. Outcome(p) = eio
    BY <1>8, Zenon DEF Outcome, eio
  <2> QED
    BY <1>4, <1>6, <2>1
<1>9. CASE p.error = FALSE
  <2>1. StatusFound(response, t)
    BY <1>1, <1>2, <1>3, <1>5, <1>9, StatusKept
  <2> HIDE DEF p
  <2>2. t # <<>> /\ t[1].type = "object" /\ Value(t, 1, "status") = 3 /\ TextOf(t, 3) = <<"ok">>
    BY <2>1, Zenon DEF StatusFound, Value, TextOf
  <2>3. Value(t, 1, "status") # NoToken /\ TextOf(t, Value(t, 1, "status")) = <<"ok">>
    BY <2>2 DEF NoToken
  <2>4. Outcome(p) = MetaResult(t)
    BY <1>9, <2>2, <2>3 DEF Outcome
  <2> DEFINE meta == Value(t, 1, "meta")
             at(k) == Value(t, meta, k)
             made == [NoResult EXCEPT !.ok = TRUE, !.type = TextOf(t, at("type")), !.nums = TextOf(t, at("size"))]
  <2>5. made.ok = TRUE
    BY MetaField
  <2>6. MetaResult(t) = eio \/ MetaResult(t) = made
    BY Zenon DEF MetaResult, eio
  <2> HIDE DEF made
  <2> QED
    BY <1>4, <1>6, <2>4, <2>5, <2>6
<1> QED
  BY <1>7, <1>8, <1>9

-----------------------------------------------------------------------------
(* Text that is UTF-8 stays so when it is escaped and quoted. *)

Clear(t) == IsText(t) /\ \A i \in 1 .. Len(t) : t[i] # "latin"

LEMMA ClearUtf8 ==
  ASSUME NEW t, IsText(t)
  PROVE  Utf8(t) <=> Clear(t)
<1>1. DOMAIN t = 1 .. Len(t)
  BY DEF IsText
<1> QED
  BY <1>1 DEF Utf8, Clear

LEMMA ClearWord ==
  ASSUME NEW w, w # "latin"
  PROVE  Clear(<<w>>)
<1>1. IsText(<<w>>) /\ Len(<<w>>) = 1 /\ <<w>>[1] = w
  BY WordText
<1> QED
  BY <1>1 DEF Clear

LEMMA ClearEmpty == Clear(<<>>)
BY EmptyText DEF Clear

LEMMA ClearConcat ==
  ASSUME NEW a, NEW b, Clear(a), Clear(b)
  PROVE  Clear(a \o b)
<1> DEFINE c == a \o b
<1>1. IsText(a) /\ IsText(b) /\ Len(a) \in Nat /\ Len(b) \in Nat
  BY DEF Clear, IsText
<1>2. Joined(c, a, b)
  BY <1>1, ConcatJoined, Zenon
<1> HIDE DEF c
<1>3. ASSUME NEW i \in 1 .. Len(c)
      PROVE  c[i] # "latin"
  <2>1. CASE i \in 1 .. Len(a)
    <3>1. c[i] = a[i]
      BY <1>2, <2>1 DEF Joined
    <3> QED
      BY <2>1, <3>1 DEF Clear
  <2>2. CASE ~ (i <= Len(a))
    <3> DEFINE j == i - Len(a)
    <3>1. j \in 1 .. Len(b) /\ Len(a) + j = i
      BY <1>1, <1>2, <2>2 DEF Joined
    <3> HIDE DEF j
    <3>2. c[Len(a) + j] = b[j]
      BY <1>2, <3>1 DEF Joined
    <3> QED
      BY <3>1, <3>2 DEF Clear
  <2> QED
    BY <1>1, <2>1, <2>2
<1>4. Clear(c)
  BY <1>2, <1>3 DEF Clear, Joined
<1> QED
  BY <1>4 DEF c

LEMMA ClearFlatten ==
  ASSUME NEW s, IsText(s), \A i \in 1 .. Len(s) : Clear(s[i])
  PROVE  Clear(FlattenSeq(s))
<1>0. Len(s) \in Nat
  BY DEF IsText
<1>1. CASE Len(s) = 0
  <2>1. s = <<>>
    BY <1>1 DEF IsText
  <2>2. FlattenSeq(s) = <<>>
    BY <2>1 DEF FlattenSeq
  <2> QED
    BY <2>2, ClearEmpty
<1>2. CASE Len(s) # 0
  <2>1. PICK f : /\ FlattenSeq(s) = f[Len(s)] /\ f[1] = s[1]
                 /\ \A i \in 2 .. Len(s) : f[i] = f[i - 1] \o s[i]
    BY <1>0, <1>2, FlattenTurns
  <2> DEFINE T == {i \in Nat : i + 1 <= Len(s) => Clear(f[i + 1])}
  <2>2. 0 \in T
    BY <1>0, <1>2, <2>1
  <2>3. ASSUME NEW i \in Nat, i \in T
        PROVE  i + 1 \in T
    <3> SUFFICES ASSUME (i + 1) + 1 <= Len(s) PROVE Clear(f[(i + 1) + 1])
      OBVIOUS
    <3>1. i + 1 <= Len(s) /\ (i + 1) + 1 \in 2 .. Len(s) /\ (i + 1) + 1 \in 1 .. Len(s)
          /\ ((i + 1) + 1) - 1 = i + 1
      BY <1>0
    <3>2. Clear(f[i + 1]) /\ Clear(s[(i + 1) + 1])
      BY <2>3, <3>1
    <3>3. f[(i + 1) + 1] = f[i + 1] \o s[(i + 1) + 1]
      BY <2>1, <3>1
    <3> QED
      BY <3>2, <3>3, ClearConcat
  <2>4. \A i \in Nat : i \in T
    <3> HIDE DEF T
    <3>1. \A i \in Nat : i \in T => i + 1 \in T
      BY <2>3, Zenon
    <3> QED
      BY <2>2, <3>1, SetInduction, Zenon
  <2>5. Len(s) - 1 \in T
    BY <1>0, <1>2, <2>4
  <2> QED
    BY <1>0, <1>2, <2>1, <2>5
<1> QED
  BY <1>0, <1>1, <1>2

LEMMA ClearQuoted ==
  ASSUME NEW v, Clear(v)
  PROVE  Clear(Quoted(v))
<1> DEFINE q == <<"quote">>
<1>1. Clear(q)
  BY ClearWord
<1>2. Quoted(v) = (q \o v) \o q
  BY DEF Quoted
<1> HIDE DEF q
<1>3. Clear(q \o v)
  BY <1>1, ClearConcat, Zenon
<1> QED
  BY <1>1, <1>2, <1>3, ClearConcat, Zenon

LEMMA ClearMember ==
  ASSUME NEW key, key # "latin", NEW v, Clear(v)
  PROVE  Clear(Member(key, v))
<1> DEFINE w == <<key>>
           k == Quoted(w)
           c == <<"colon">>
<1>1. Clear(w) /\ Clear(c)
  BY ClearWord
<1>2. Member(key, v) = (k \o c) \o v
  BY DEF Member
<1> HIDE DEF w, c
<1>3. Clear(k)
  BY <1>1, ClearQuoted, Zenon
<1> HIDE DEF k
<1>4. Clear(k \o c)
  BY <1>1, <1>3, ClearConcat, Zenon
<1> QED
  BY <1>2, <1>4, ClearConcat, Zenon

LEMMA ClearObject ==
  ASSUME NEW ms, IsText(ms), \A i \in 1 .. Len(ms) : Clear(ms[i])
  PROVE  Clear(Object(ms))
<1> DEFINE c == <<"comma">>
           s == [i \in DOMAIN ms |-> IF i = 1 THEN ms[i] ELSE c \o ms[i]]
           l == <<"lbrace">>
           r == <<"rbrace">>
           b == Commas(ms)
<1>1. Clear(c) /\ Clear(l) /\ Clear(r)
  BY ClearWord
<1>2. b = FlattenSeq(s) /\ Object(ms) = (l \o b) \o r
  <2>1. b = FlattenSeq(s)
    BY Zenon DEF Commas
  <2> QED
    BY <2>1 DEF Object
<1>3. DOMAIN ms = 1 .. Len(ms) /\ Len(ms) \in Nat
  BY DEF IsText
<1> HIDE DEF c, l, r, b
<1>4. s \in Seq({s[i] : i \in 1 .. Len(ms)}) /\ Len(s) = Len(ms)
  BY <1>3
<1>5. \A i \in 1 .. Len(ms) : s[i] = IF i = 1 THEN ms[i] ELSE c \o ms[i]
  BY <1>3
<1> HIDE DEF s
<1>6. IsText(s)
  BY <1>4, SeqIsText
<1>7. ASSUME NEW i \in 1 .. Len(s)
      PROVE  Clear(s[i])
  <2>1. Clear(ms[i])
    BY <1>4
  <2>2. Clear(c \o ms[i])
    BY <1>1, <2>1, ClearConcat, Zenon
  <2> QED
    BY <1>4, <1>5, <2>1, <2>2
<1>8. Clear(b)
  BY <1>2, <1>6, <1>7, ClearFlatten, Zenon
<1>9. Clear(l \o b)
  BY <1>1, <1>8, ClearConcat, Zenon
<1> QED
  BY <1>1, <1>2, <1>9, ClearConcat, Zenon

LEMMA ClearCut ==
  ASSUME NEW t, Clear(t), NEW size \in Nat
  PROVE  Clear(Cut(t, size))
<1> DEFINE X == {t[i] : i \in 1 .. Len(t)}
           n == IF Len(t) < size THEN Len(t) ELSE size - 1
           u == SubSeq(t, 1, n)
<1>1. Cut(t, size) = u
  BY DEF Cut
<1>2. t \in Seq(X) /\ Len(t) \in Nat /\ \A i \in 1 .. Len(t) : t[i] # "latin"
  BY DEF Clear, IsText
<1> HIDE DEF X
<1>3. n \in Int /\ n <= Len(t)
  BY <1>2
<1> HIDE DEF n
<1>4. u \in Seq(X) /\ \A i \in 1 .. Len(u) : i \in 1 .. Len(t) /\ u[i] = t[i]
  BY <1>2, <1>3
<1> HIDE DEF u
<1>5. IsText(u)
  BY <1>4, SeqIsText
<1> QED
  BY <1>1, <1>2, <1>4, <1>5 DEF Clear

LEMMA EscapedClear ==
  ASSUME NEW s, Clear(s), NEW size \in Nat, json_escape_string(s, size).ok
  PROVE  Clear(json_escape_string(s, size).text)
<1> DEFINE p == EscapeParts(s)
<1>1. /\ IsText(p) /\ Len(p) = Len(s) /\ IsText(s)
      /\ \A i \in 1 .. Len(s) : p[i] = EscapeChar(s[i])
  BY EscapePartsText DEF Clear
<1>2. json_escape_string(s, size).text = FlattenSeq(p)
  BY <1>1, EscapeWhole
<1> HIDE DEF p
<1>3. ASSUME NEW ch, ch # "latin"
      PROVE  Clear(EscapeChar(ch))
  <2>0. IsText(EscapeChar(ch))
    BY EscapeCharClean, Zenon DEF Clean
  <2>1. CASE ch \in DOMAIN Letter
    <3>1. EscapeChar(ch) = <<"bslash", Letter[ch]>> /\ Letter[ch] # "latin"
      BY <2>1 DEF EscapeChar, Letter
    <3>2. EscapeChar(ch) = <<"bslash">> \o <<Letter[ch]>>
      BY <3>1
    <3>3. Clear(<<"bslash">>) /\ Clear(<<Letter[ch]>>)
      BY <3>1, ClearWord
    <3> QED
      BY <3>2, <3>3, ClearConcat, Zenon
  <2>2. CASE ch \notin DOMAIN Letter /\ ch \in Control
    <3>1. EscapeChar(ch) = <<"bslash", "u", "0", "0", "0", "1">>
      BY <2>2 DEF EscapeChar, Unicode, ControlCode
    <3>2. \A i \in 1 .. Len(EscapeChar(ch)) : EscapeChar(ch)[i] # "latin"
      BY <3>1
    <3> QED
      BY <2>0, <3>2 DEF Clear
  <2>3. CASE ch \notin DOMAIN Letter /\ ch \notin Control
    <3>1. EscapeChar(ch) = <<ch>>
      BY <2>3 DEF EscapeChar
    <3> QED
      BY <1>3, <3>1, ClearWord
  <2> QED
    BY <2>1, <2>2, <2>3
<1>4. \A i \in 1 .. Len(p) : Clear(p[i])
  BY <1>1, <1>3 DEF Clear
<1> QED
  BY <1>1, <1>2, <1>4, ClearFlatten, Zenon

LEMMA KeysClear ==
  ASSUME NEW op, NEW i \in 1 .. Len(Keys(op))
  PROVE  Keys(op)[i] # "latin"
<1>1. CASE op = "read"
  BY <1>1 DEF Keys
<1>2. CASE op = "write"
  BY <1>2 DEF Keys
<1>3. CASE op \in {"create-file", "create-dir"}
  BY <1>3 DEF Keys
<1>4. CASE op = "truncate"
  BY <1>4 DEF Keys
<1>5. CASE op = "utimens"
  <2>1. i \in {1, 2, 3, 4}
    BY <1>5 DEF Keys
  <2> QED
    BY <1>5, <2>1 DEF Keys
<1>6. CASE op \notin {"read", "write", "create-file", "create-dir", "truncate", "utimens"}
  BY <1>6 DEF Keys
<1> QED
  BY <1>1, <1>2, <1>3, <1>4, <1>5, <1>6

LEMMA BodyClear ==
  ASSUME NEW c, GoodCall(c), NEW path, Clear(path), NEW to, Clear(to)
  PROVE  Clear(Body(c, path, to))
<1>1. CASE c.op = "rename"
  <2> DEFINE a == Member("old_path", Quoted(path))
             b == Member("new_path", Quoted(to))
             ms == <<a, b>>
  <2>1. Clear(a) /\ Clear(b)
    BY ClearQuoted, ClearMember
  <2>2. Body(c, path, to) = Object(ms)
    BY <1>1 DEF Body
  <2> HIDE DEF a, b
  <2>3. IsText(ms) /\ Len(ms) = 2 /\ ms[1] = a /\ ms[2] = b
    BY TwoText
  <2> HIDE DEF ms
  <2>4. \A i \in 1 .. Len(ms) : Clear(ms[i])
    <3>1. \A i \in 1 .. 2 : i = 1 \/ i = 2
      OBVIOUS
    <3> QED
      BY <2>1, <2>3, <3>1
  <2> QED
    BY <2>2, <2>3, <2>4, ClearObject, Zenon
<1>2. CASE c.op # "rename"
  <2> DEFINE ms == PathMembers(c, path)
  <2>1. Body(c, path, to) = Object(ms)
    BY <1>2 DEF Body, PathMembers, NumberMember
  <2>2. /\ IsText(ms) /\ Len(ms) = 1 + Len(c.nums) /\ ms[1] = Member("path", Quoted(path))
        /\ \A i \in 1 .. Len(c.nums) : ms[1 + i] = NumberMember(c, i)
    BY PathMembersAre
  <2> HIDE DEF ms
  <2>3. ASSUME NEW i \in 1 .. Len(ms)
        PROVE  Clear(ms[i])
    <3>1. CASE i = 1
      <4>1. Clear(Quoted(path))
        BY ClearQuoted
      <4>2. Clear(Member("path", Quoted(path)))
        BY <4>1, ClearMember
      <4> QED
        BY <2>2, <3>1, <4>2
    <3>2. CASE i # 1
      <4> DEFINE j == i - 1
      <4>1. j \in 1 .. Len(c.nums) /\ 1 + j = i
        <5>1. Len(c.nums) \in Nat
          BY DEF GoodCall, IsText
        <5> QED
          BY <2>2, <3>2, <5>1
      <4> HIDE DEF j
      <4>2. ms[i] = NumberMember(c, j) /\ c.nums[j] \in Digit /\ Len(c.nums) = Len(Keys(c.op))
        BY <2>2, <4>1 DEF GoodCall
      <4>3. Keys(c.op)[j] # "latin"
        BY <4>1, <4>2, KeysClear
      <4>4. Clear(<<c.nums[j]>>)
        <5>1. c.nums[j] # "latin"
          BY <4>2 DEF Digit
        <5> QED
          BY <5>1, ClearWord
      <4> QED
        BY <4>2, <4>3, <4>4, ClearMember DEF NumberMember
    <3> QED
      BY <3>1, <3>2
  <2> QED
    BY <2>1, <2>2, <2>3, ClearObject, Zenon
<1> QED
  BY <1>1, <1>2

(* A request whose paths are UTF-8 is UTF-8. *)
LEMMA BodyUtf8 ==
  ASSUME call \in Calls, SendBody, stage' = "sent", AllUtf8
  PROVE  Utf8(request'.body)
<1> DEFINE path == json_escape_string(call.path, EscapedSize)
           to   == json_escape_string(call.to, EscapedSize)
           size == EscapedSize * (IF call.op = "rename" THEN 2 ELSE 1)
                     + BodySlack * (IF call.op = "utimens" THEN 4 ELSE 1)
           b    == Body(call, path.text, to.text)
<1>1. GoodCall(call) /\ IsText(call.path) /\ IsText(call.to)
  BY CallIsGood DEF GoodCall
<1>2. Clear(call.path) /\ Clear(call.to)
  BY <1>1, ClearUtf8 DEF AllUtf8
<1>3. EscapedSize \in Nat /\ BodySlack \in Nat
  BY WireAssumption
<1>4. size \in Nat
  BY <1>3
<1>5. path.ok /\ to.ok /\ request'.body = Cut(b, size)
  BY DEF SendBody, Fails, Return, Send
<1>6. Clear(path.text) /\ Clear(to.text)
  BY <1>2, <1>3, <1>5, EscapedClear
<1> HIDE DEF path, to, size
<1>7. Clear(b)
  BY <1>1, <1>6, BodyClear, Zenon
<1> HIDE DEF b
<1>8. Clear(Cut(b, size))
  BY <1>4, <1>7, ClearCut
<1>9. IsText(request'.body) /\ Clear(request'.body)
  BY <1>5, <1>8 DEF Clear
<1> QED
  BY <1>9, ClearUtf8

(* A provider reports 400 only of a body that is no UTF-8. *)
Blamed ==
    /\ stage = "sent" /\ call.op \notin Query /\ AllUtf8 => Utf8(request.body)
    /\ stage = "answered" /\ answer.ok = FALSE =>
          \E e \in ErrorCodes : response = ErrorText(e) /\ (e = "400" => provider = "python" /\ ~AllUtf8)

LEMMA RejectBlames ==
  ASSUME NEW e \in ErrorCodes, Reject(e), UNCHANGED <<provider, call>>, e = "400" => provider = "python" /\ ~AllUtf8
  PROVE  Blamed'
<1>1. stage' = "answered" /\ response' = ErrorText(e)' /\ (AllUtf8' <=> AllUtf8)
  BY ErrorKept DEF Reject, AllUtf8, Utf8
<1> QED
  BY <1>1 DEF Blamed

LEMMA BlamedStep ==
  ASSUME WireInv, Blamed, [Next]_vars
  PROVE  Blamed'
<1>0. call' = call => (AllUtf8' <=> AllUtf8)
  BY DEF AllUtf8, Utf8
<1>1. CASE SendQuery
  <2>1. call' = call /\ stage' \in {"sent", "returned"} /\ call.op \in Query
    BY <1>1 DEF SendQuery, Send, Fails, Return
  <2> QED
    BY <2>1 DEF Blamed
<1>2. CASE SendBody
  <2>1. call' = call /\ stage' \in {"sent", "returned"} /\ call \in Calls
    BY <1>2 DEF SendBody, Send, Fails, Return, WireInv, Fixed
  <2>2. stage' = "sent" /\ AllUtf8 => Utf8(request'.body)
    BY <1>2, <2>1, BodyUtf8
  <2>3. AllUtf8' <=> AllUtf8
    BY <1>0, <2>1
  <2>4. stage' = "sent" /\ AllUtf8' => Utf8(request.body)'
    BY <2>2, <2>3 DEF Utf8
  <2> QED
    BY <2>1, <2>4 DEF Blamed
<1>3. CASE DecodeQueryC \/ DecodeBodyC \/ DecodeQueryLibrary \/ DecodeBodyLibrary
  <2>1. UNCHANGED <<provider, call>> /\ stage = "sent"
    BY <1>3 DEF DecodeQueryC, DecodeBodyC, DecodeQueryLibrary, DecodeBodyLibrary
  <2>2. \/ stage' = "decoded" \/ Reject("EINVAL")
        \/ Reject("400") /\ provider = "python" /\ ~Utf8(request.body) /\ call.op \notin Query
    BY <1>3 DEF DecodeQueryC, DecodeBodyC, DecodeQueryLibrary, DecodeBodyLibrary, Handle
  <2>3. CASE stage' = "decoded"
    BY <2>3 DEF Blamed
  <2>4. CASE Reject("EINVAL")
    <3> DEFINE e == "EINVAL"
    <3>1. e \in ErrorCodes /\ e # "400" /\ Reject(e)
      BY <2>4 DEF ErrorCodes
    <3> HIDE DEF e
    <3> QED
      BY <2>1, <3>1, RejectBlames
  <2>5. CASE Reject("400") /\ provider = "python" /\ ~Utf8(request.body) /\ call.op \notin Query
    <3> DEFINE e == "400"
    <3>1. e \in ErrorCodes /\ Reject(e)
      BY <2>5 DEF ErrorCodes
    <3>2. ~AllUtf8
      BY <2>1, <2>5 DEF Blamed
    <3> HIDE DEF e
    <3> QED
      BY <2>1, <2>5, <3>1, <3>2, RejectBlames
  <2> QED
    BY <2>2, <2>3, <2>4, <2>5
<1>4. CASE Succeed \/ Refuse
  <2>1. UNCHANGED <<provider, call>> /\ stage = "decoded"
    BY <1>4 DEF Succeed, Refuse
  <2>2. \/ stage' = "answered" /\ answer'.ok = TRUE
        \/ \E e \in {"EIO", "ENOENT"} : Reject(e)
    BY <1>4 DEF Succeed, Refuse
  <2>3. CASE stage' = "answered" /\ answer'.ok = TRUE
    BY <2>3 DEF Blamed
  <2>4. ASSUME NEW e \in {"EIO", "ENOENT"}, Reject(e)
        PROVE  Blamed'
    <3>1. e \in ErrorCodes /\ e # "400"
      BY <2>4 DEF ErrorCodes
    <3> QED
      BY <2>1, <2>4, <3>1, RejectBlames
  <2> QED
    BY <2>2, <2>3, <2>4
<1>5. CASE ReadAnswer
  BY <1>5 DEF Blamed, ReadAnswer, Return
<1>6. CASE UNCHANGED vars
  <2>1. \A e \in ErrorCodes : ErrorText(e)' = ErrorText(e)
    BY <1>6, ErrorKept DEF vars
  <2>2. (AllUtf8' <=> AllUtf8) /\ (Utf8(request.body)' <=> Utf8(request.body))
    BY <1>0, <1>6 DEF vars, Utf8
  <2> QED
    BY <1>6, <2>1, <2>2 DEF Blamed, vars
<1> QED
  BY <1>1, <1>2, <1>3, <1>4, <1>5, <1>6 DEF Next, Returned

(* The error a caller is told is a POSIX error number, filled in, whichever *)
(* part of the program it comes from.  (Python answers a body that is no    *)
(* UTF-8 with 400.)                                                         *)
THEOREM ErrorIsPosix == Spec => []ErrnoIsPosix
<1> DEFINE Posix == {"EINVAL", "ENOENT", "EIO", "ENAMETOOLONG", "ENOBUFS"}
<1>1. ASSUME Init PROVE Asked /\ Blamed /\ ErrnoIsPosix
  BY <1>1 DEF Init, Asked, Blamed, ErrnoIsPosix
<1>2. ASSUME WireInv, Asked, Blamed, ErrnoIsPosix, [Next]_vars PROVE ErrnoIsPosix'
  <2> SUFFICES ASSUME stage' = "returned", ~result'.ok, provider' = "python" => AllUtf8'
               PROVE  result'.errno \in Posix
    BY DEF ErrnoIsPosix
  <2>0. call' = call => (AllUtf8' <=> AllUtf8)
    BY DEF AllUtf8, Utf8
  <2>1. CASE stage = "returned" /\ UNCHANGED vars
    BY <1>2, <2>0, <2>1 DEF ErrnoIsPosix, vars
  <2>2. CASE \E e \in {"ENAMETOOLONG", "EINVAL"} : result' = [NoResult EXCEPT !.errno = e]
    BY <2>2, FailedField
  <2>3. CASE /\ stage = "answered" /\ UNCHANGED <<provider, dir, call, answer, response, seen>>
             /\ \/ call.op = "read" /\ answer.ok = TRUE /\ result' = [NoResult EXCEPT !.ok = TRUE]
                \/ (Refused \/ Granted) /\ ~(call.op = "read" /\ answer.ok) /\ result' = JsonResult
    <3>1. CASE call.op = "read" /\ answer.ok = TRUE /\ result' = [NoResult EXCEPT !.ok = TRUE]
      BY <3>1, OkField
    <3>2. CASE Refused /\ result' = JsonResult
      <4>1. answer.ok = FALSE
        BY <3>2 DEF Refused
      <4>2. PICK e \in ErrorCodes : response = ErrorText(e) /\ (e = "400" => provider = "python" /\ ~AllUtf8)
        BY <1>2, <2>3, <4>1 DEF Blamed
      <4>3. JsonResult.errno = e
        BY <4>2, ErrorOutcome
      <4>4. e # "400"
        BY <2>0, <2>3, <4>2
      <4> QED
        BY <3>2, <4>3, <4>4 DEF ErrorCodes
    <3>3. CASE Granted /\ ~(call.op = "read" /\ answer.ok) /\ result' = JsonResult
      <4>1. call.op # "read" /\ response = OkText /\ (call.op \in Query => SeenQuery) /\ ~JsonResult.ok
        BY <3>3 DEF Granted
      <4>2. Fixed /\ (call.op \in Query => Len(Endpoint(call)) < EndpointSize)
        BY <1>2, <2>3 DEF WireInv, Asked
      <4>3. ~Answerable
        <5>1. Answerable => JsonResult.ok = TRUE
          BY <3>3, <4>1, <4>2, GrantedOutcome
        <5> QED
          BY <4>1, <5>1
      <4>4. CASE call.op = "list"
        <5>1. response = ListText
          BY <4>1, <4>4 DEF OkText
        <5>2. JsonResult.errno \in {"EIO", "ENOBUFS"}
          BY <4>1, <4>2, <4>4, <5>1, ListOutcome
        <5> QED
          BY <3>3, <5>2
      <4>5. CASE call.op = "meta"
        <5>1. response = MetaText /\ SeenQuery
          BY <4>1, <4>5 DEF OkText, Query
        <5>2. provider = "c"
          BY <4>3, <4>5 DEF Answerable
        <5>3. JsonResult.errno = "EIO"
          BY <4>1, <4>2, <4>5, <5>1, <5>2, MetaErrno
        <5> QED
          BY <3>3, <5>3
      <4>6. CASE call.op \notin {"list", "meta"}
        BY <4>3, <4>6 DEF Answerable
      <4> QED
        BY <4>4, <4>5, <4>6
    <3> QED
      BY <2>3, <3>1, <3>2, <3>3
  <2> QED
    BY <1>2, <2>1, <2>2, <2>3, ResultStep
<1>3. ASSUME WireInv, Asked, Blamed, [Next]_vars PROVE Asked' /\ Blamed'
  BY <1>3, AskedStep, BlamedStep
<1> QED
  BY <1>1, <1>2, <1>3, WireInvariant, PTL DEF Spec

-----------------------------------------------------------------------------
(* What the server sees *)

(* snprintf cuts nothing off a body: each escaped path is shorter than its  *)
(* buffer, and BodySlack has room for the keys.                             *)
LEMMA BodyNotCut ==
  ASSUME call \in Calls, SendBody, stage' = "sent"
  PROVE  request'.body = PostedBody(call)
<1> DEFINE path == json_escape_string(call.path, EscapedSize)
           to   == json_escape_string(call.to, EscapedSize)
           size == EscapedSize * (IF call.op = "rename" THEN 2 ELSE 1)
                     + BodySlack * (IF call.op = "utimens" THEN 4 ELSE 1)
           P == Flattened(call.path)
           T == Flattened(call.to)
<1>1. call.op \notin Query /\ path.ok /\ to.ok /\ request'.body = Cut(Body(call, path.text, to.text), size)
  <2>1. stage = "start"
    BY DEF SendBody
  <2>2. call.op \notin Query /\ path.ok /\ to.ok
    BY <2>1 DEF SendBody, Fails, Return
  <2>3. request' = [method |-> "POST", uri |-> Endpoint(call), body |-> Cut(Body(call, path.text, to.text), size)]
    BY <2>1, <2>2 DEF SendBody, Fails, Return, Send
  <2> QED
    BY <2>2, <2>3
<1>2. /\ GoodCall(call) /\ call.op \in Query \cup Bodied /\ IsText(call.to)
      /\ (call.to # <<>> <=> call.op = "rename")
  BY CallIsGood
<1>3. IsText(call.path) /\ EscapedSize \in Nat /\ BodySlack \in Nat /\ BodySlack >= 14
  BY <1>2, WireAssumption DEF GoodCall
<1>4. /\ path.text = P /\ IsText(P) /\ Len(P) < EscapedSize
      /\ to.text = T /\ IsText(T) /\ Len(T) < EscapedSize
  <2>1. path.text = P /\ IsText(P) /\ Len(P) < EscapedSize
    BY <1>1, <1>3, EscapeWhole DEF Flattened
  <2>2. to.text = T /\ IsText(T) /\ Len(T) < EscapedSize
    BY <1>1, <1>2, <1>3, EscapeWhole DEF Flattened
  <2> QED
    BY <2>1, <2>2
<1> HIDE DEF path, to, P, T
<1>5. IsText(Body(call, P, T)) /\ Len(Body(call, P, T)) < size
  <2>0. Len(P) \in Nat /\ Len(T) \in Nat
    BY <1>4 DEF IsText
  <2>1. CASE call.op = "rename"
    <3>1. PathsLaid(Body(call, P, T), P, T)
      BY <1>4, <2>1, RenameBodyLaid
    <3>2. IsText(Body(call, P, T)) /\ Len(Body(call, P, T)) = (15 + Len(P)) + Len(T)
      BY <3>1 DEF PathsLaid
    <3>3. size = EscapedSize * 2 + BodySlack
      BY <1>3, <2>1
    <3> HIDE DEF size
    <3> QED
      BY <1>3, <1>4, <2>0, <3>2, <3>3
  <2>2. CASE call.op # "rename"
    <3>1. PathLaid(Body(call, P, T), call, P)
      BY <1>2, <1>4, <2>2, PathBodyLaid
    <3>2. IsText(Body(call, P, T)) /\ Len(Body(call, P, T)) = (8 + Len(P)) + 6 * Len(call.nums)
      BY <3>1 DEF PathLaid
    <3>3. Len(call.nums) = Len(Keys(call.op))
      BY <1>2 DEF GoodCall
    <3>4. CASE call.op = "utimens"
      <4>1. Len(call.nums) = 4
        BY <3>3, <3>4 DEF Keys
      <4>2. size = EscapedSize + BodySlack * 4
        BY <1>3, <3>4
      <4> HIDE DEF size
      <4> QED
        BY <1>3, <1>4, <2>0, <3>2, <4>1, <4>2
    <3>5. CASE call.op # "utimens"
      <4>1. Len(call.nums) = 0 \/ Len(call.nums) = 1
        BY <1>1, <1>2, <3>3, <3>5 DEF Keys, Query, Bodied
      <4>2. size = EscapedSize + BodySlack
        <5>1. (IF call.op = "rename" THEN 2 ELSE 1) = 1
          BY <2>2
        <5>2. (IF call.op = "utimens" THEN 4 ELSE 1) = 1
          BY <3>5
        <5>3. size = EscapedSize * 1 + BodySlack * 1
          BY <5>1, <5>2
        <5>4. EscapedSize * 1 = EscapedSize /\ BodySlack * 1 = BodySlack
          BY <1>3
        <5> QED
          BY <5>3, <5>4
      <4> DEFINE k == Len(call.nums)
                 b == Body(call, P, T)
      <4>3. IsText(b) /\ Len(b) = (8 + Len(P)) + 6 * k /\ (k = 0 \/ k = 1)
        BY <3>2, <4>1
      <4> HIDE DEF size, k, b
      <4>4. Len(b) <= 14 + Len(P)
        BY <2>0, <4>3
      <4>5. IsText(b) /\ Len(b) < size
        BY <1>3, <1>4, <2>0, <4>2, <4>3, <4>4
      <4> QED
        BY <4>5 DEF b
    <3> QED
      BY <3>4, <3>5
  <2> QED
    BY <2>1, <2>2
<1> HIDE DEF size
<1>6. Cut(Body(call, P, T), size) = Body(call, P, T)
  BY <1>5, NotCut
<1> QED
  BY <1>1, <1>4, <1>6 DEF PostedBody, P, T

(* What a handler is to see *)
AsCalled(c) == [path |-> c.path, to |-> c.to, nums |-> c.nums]

LEMMA PostedLaid ==
  ASSUME call \in Calls, call.op \notin Query
  PROVE  /\ GoodCall(call) /\ IsText(call.path) /\ Len(call.path) # 0
         /\ IsText(Flattened(call.path)) /\ Guarded(Flattened(call.path)) /\ IsText(PostedBody(call))
         /\ call.op # "rename" => PathLaid(PostedBody(call), call, Flattened(call.path)) /\ call.to = <<>>
         /\ call.op = "rename" => /\ PathsLaid(PostedBody(call), Flattened(call.path), Flattened(call.to))
                                  /\ IsText(call.to) /\ Len(call.to) # 0 /\ IsText(Flattened(call.to))
                                  /\ Len(call.nums) = 0
<1> DEFINE P == Flattened(call.path)
           T == Flattened(call.to)
           B == PostedBody(call)
<1>1. /\ GoodCall(call) /\ IsText(call.to) /\ (call.to # <<>> <=> call.op = "rename")
      /\ IsText(call.path) /\ Len(call.path) # 0
  BY CallIsGood DEF GoodCall
<1>2. Guarded(P) /\ IsText(P)
  <2>1. Guarded(P)
    BY <1>1, GuardedEscaped DEF Flattened
  <2> QED
    BY <2>1 DEF Guarded
<1>3. B = Body(call, P, T)
  BY DEF PostedBody
<1> HIDE DEF P, T, B
<1>4. CASE call.op # "rename"
  <2>1. PathLaid(B, call, P)
    BY <1>1, <1>2, <1>3, <1>4, PathBodyLaid
  <2>2. IsText(B)
    BY <2>1 DEF PathLaid
  <2> QED
    BY <1>1, <1>2, <1>4, <2>1, <2>2 DEF P, B
<1>5. CASE call.op = "rename"
  <2>1. Len(call.to) # 0
    <3>1. call.to # <<>>
      BY <1>1, <1>5
    <3> QED
      BY <1>1, <3>1 DEF IsText
  <2>2. IsText(T)
    <3>1. Guarded(T)
      BY <1>1, <2>1, GuardedEscaped DEF T, Flattened
    <3> QED
      BY <3>1 DEF Guarded
  <2>3. PathsLaid(B, P, T)
    BY <1>2, <1>3, <1>5, <2>2, RenameBodyLaid
  <2>4. IsText(B)
    BY <2>3 DEF PathsLaid
  <2>5. Len(call.nums) = 0
    BY <1>1, <1>5 DEF GoodCall, Keys
  <2> QED
    BY <1>1, <1>2, <1>5, <2>1, <2>2, <2>3, <2>4, <2>5 DEF P, T, B
<1> QED
  BY <1>4, <1>5

(* The C provider's handlers act on what the caller named, or refuse.       *)
LEMMA BodySeenC ==
  ASSUME Fixed, call.op \notin Query, request.body = PostedBody(call), DecodeBodyC
  PROVE  \/ stage' = "decoded" /\ seen' = AsCalled(call) /\ UNCHANGED <<response, answer>>
         \/ Reject("EINVAL")
<1> DEFINE B == PostedBody(call)
           P == Flattened(call.path)
           T == Flattened(call.to)
           keys == Keys(call.op)
           n == Len(call.nums)
           key == IF call.op = "rename" THEN "old_path" ELSE "path"
           path == json_get_string(B, key, PathSize)
           to == IF call.op = "rename" THEN json_get_string(B, "new_path", PathSize) ELSE Made(<<>>)
           v == [i \in 1 .. n |-> json_get_long(B, keys[i])]
           w == [i \in 1 .. n |-> v[i].text[1]]
<1>1. call \in Calls /\ call.nums \in Seq(Digit)
  BY CallIsGood DEF Fixed
<1>2. /\ GoodCall(call) /\ IsText(call.path) /\ Len(call.path) # 0
      /\ IsText(P) /\ Guarded(P) /\ IsText(B)
      /\ call.op # "rename" => PathLaid(B, call, P) /\ call.to = <<>>
      /\ call.op = "rename" => /\ PathsLaid(B, P, T) /\ IsText(call.to) /\ Len(call.to) # 0 /\ IsText(T)
                               /\ n = 0
  BY <1>1, PostedLaid
<1>3. n \in Nat /\ DOMAIN keys = 1 .. n
  BY <1>2, KeysText DEF GoodCall, IsText
<1>4. path.ok => path.text = call.path
  <2>1. PathIn(B, key, P) /\ 7 + Len(P) <= Len(B)
    <3>0. Len(P) \in Nat
      BY <1>2 DEF IsText
    <3>1. CASE call.op = "rename"
      <4>1. PathsLaid(B, P, T) /\ Len(T) \in Nat
        BY <1>2, <3>1 DEF IsText
      <4>2. PathIn(B, "old_path", P) /\ Len(B) = (15 + Len(P)) + Len(T)
        BY <4>1 DEF PathsLaid
      <4>3. 7 + Len(P) <= Len(B)
        BY <3>0, <4>1, <4>2
      <4> QED
        BY <3>1, <4>2, <4>3
    <3>2. CASE call.op # "rename"
      <4>1. PathIn(B, "path", P) /\ Len(B) = (8 + Len(P)) + 6 * n
        BY <1>2, <3>2 DEF PathLaid
      <4>3. 7 + Len(P) <= Len(B)
        <5>1. n \in Nat /\ Len(P) \in Nat /\ Len(B) = (8 + Len(P)) + 6 * n
          BY <1>3, <3>0, <4>1
        <5> HIDE DEF n, P, B
        <5> QED
          BY <5>1
      <4> QED
        BY <3>2, <4>1, <4>3
    <3> QED
      BY <3>1, <3>2
  <2> HIDE DEF B, key
  <2>2. P = FlattenSeq(EscapeParts(call.path))
    BY DEF Flattened
  <2> QED
    BY <1>2, <2>1, <2>2, FirstRead
<1>5. to.ok => to.text = call.to
  <2>1. CASE call.op = "rename"
    <3>1. PathsLaid(B, P, T) /\ Guarded(P) /\ IsText(T) /\ IsText(call.to) /\ Len(call.to) # 0
      BY <1>2, <2>1
    <3>2. T = FlattenSeq(EscapeParts(call.to))
      BY DEF Flattened
    <3> HIDE DEF B, P, T
    <3>3. LET r == json_get_string(B, "new_path", PathSize) IN r.ok => r.text = call.to
      BY <3>1, <3>2, SecondRead
    <3> QED
      BY <2>1, <3>3
  <2>2. CASE call.op # "rename"
    BY <1>2, <2>2 DEF Made
  <2> QED
    BY <2>1, <2>2
<1>6. w = call.nums
  <2>1. \A i \in 1 .. n : json_get_long(B, keys[i]).text[1] = call.nums[i]
    <3> SUFFICES ASSUME NEW i \in 1 .. n PROVE json_get_long(B, keys[i]).text[1] = call.nums[i]
      OBVIOUS
    <3>1. call.op # "rename"
      BY <1>2
    <3>2. PathLaid(B, call, P) /\ Guarded(P) /\ GoodCall(call)
      BY <1>2, <3>1
    <3> HIDE DEF B, P
    <3>3. json_get_long(B, Keys(call.op)[i]) = Made(<<call.nums[i]>>)
      BY <3>2, NumberRead
    <3> QED
      BY <3>3 DEF Made
  <2>2. w = [i \in 1 .. n |-> call.nums[i]]
    BY <2>1
  <2> HIDE DEF w
  <2> QED
    BY <1>1, <2>2, SeqSame
<1>7. /\ DOMAIN v = 1 .. n
      /\ IF /\ path.ok /\ to.ok /\ All(v) /\ resolve_path(path.text)
            /\ (call.op = "rename" => resolve_path(to.text))
           THEN Handle(path.text, to.text, w) ELSE Reject("EINVAL")
  <2>1. DOMAIN v = 1 .. n
    OBVIOUS
  <2>2. [i \in DOMAIN keys |-> json_get_long(B, keys[i])] = v
    BY <1>3
  <2>3. [i \in DOMAIN v |-> v[i].text[1]] = w
    BY <2>1
  <2>4. request.body = B
    OBVIOUS
  <2> HIDE DEF v, w, B
  <2>5. IF /\ path.ok /\ to.ok /\ All(v) /\ resolve_path(path.text)
           /\ (call.op = "rename" => resolve_path(to.text))
          THEN Handle(path.text, to.text, w) ELSE Reject("EINVAL")
    BY <2>2, <2>3, <2>4, Zenon DEF DecodeBodyC, path, to, key, keys
  <2> QED
    BY <2>1, <2>5
<1> HIDE DEF path, to, w, v
<1>8. CASE path.ok /\ to.ok /\ Handle(path.text, to.text, w)
  <2>1. Handle(call.path, call.to, call.nums)
    BY <1>4, <1>5, <1>6, <1>8, Zenon
  <2> QED
    BY <2>1 DEF Handle, AsCalled
<1> QED
  BY <1>7, <1>8

(* Every member of the body is found under its key. *)
LEMMA BodyFound ==
  ASSUME NEW c, c = call, call \in Calls, call.op \notin Query, NEW B, B = PostedBody(c),
         NEW j \in 1 .. Len(BodyMembers(c))
  PROVE  LET t == jsmn_parse(B, Len(B)).tokens
         IN  TokenText(B, t[find_object_value(B, t, 1, BodyMembers(c)[j].key)]) = BodyMembers(c)[j].v
<1> DEFINE ms == BodyMembers(c)
           max == Len(B)
           P == Flattened(c.path)
           T == Flattened(c.to)
<1>1. /\ GoodCall(c) /\ IsText(c.path) /\ Len(c.path) # 0 /\ IsText(P) /\ IsText(B)
      /\ c.op # "rename" => PathLaid(B, c, P)
      /\ c.op = "rename" => /\ PathsLaid(B, P, T) /\ IsText(c.to) /\ Len(c.to) # 0 /\ IsText(T)
  BY PostedLaid
<1>2. GoodAll(ms) /\ B = Object(Pieces(ms)) /\ FirstKey(ms, j)
  <2>1. CASE c.op = "rename"
    BY <1>1, <2>1, RenameBodyMembers
  <2>2. CASE c.op # "rename"
    BY <1>1, <2>2, PathBodyMembers
  <2> QED
    BY <2>1, <2>2
<1>3. max \in Nat /\ 1 + 2 * Len(ms) <= max
  <2>0. Len(P) \in Nat /\ max \in Nat
    BY <1>1 DEF IsText
  <2>1. CASE c.op = "rename"
    <3>1. Len(ms) = 2
      BY <1>1, <2>1, RenameBodyMembers
    <3>2. max = (15 + Len(P)) + Len(T) /\ Len(T) \in Nat
      BY <1>1, <2>1 DEF PathsLaid, IsText
    <3> HIDE DEF ms, max, P, T
    <3> QED
      BY <2>0, <3>1, <3>2
  <2>2. CASE c.op # "rename"
    <3> DEFINE n == Len(c.nums)
    <3>1. Len(ms) = 1 + n /\ n \in Nat
      BY <1>1, <2>2, PathBodyMembers DEF GoodCall, IsText
    <3>2. max = (8 + Len(P)) + 6 * n
      BY <1>1, <2>2 DEF PathLaid
    <3> HIDE DEF ms, max, P, n
    <3> QED
      BY <2>0, <3>1, <3>2
  <2> QED
    BY <2>1, <2>2
<1> HIDE DEF ms, max
<1>4. PICK t : FlatAnswer(B, t, ms) /\ ParseIs(B, max, t)
  BY <1>2, <1>3, FlatBody
<1>5. t \in Seq(Tokens) /\ Len(t) = 1 + 2 * Len(ms)
  BY <1>4 DEF FlatAnswer
<1>6. jsmn_parse(B, max).tokens = t
  BY <1>3, <1>4, <1>5 DEF ParseIs
<1>7. MemberAt(B, t, 1, ms, j)
  <2>1. PICK hi \in Nat : t[1].end = hi + 1 /\ Flat(B, t, 1, ms, Len(ms), 1, hi)
    BY <1>4 DEF FlatAnswer
  <2> DEFINE o == 1
             k == Len(ms)
  <2>2. o \in Nat /\ o # 0 /\ Flat(B, t, o, ms, k, 1, hi) /\ t[o].end = hi + 1
    BY <2>1
  <2>3. k \in Nat /\ j \in 1 .. k
    BY <1>2 DEF GoodAll, IsText, ms
  <2> HIDE DEF o, k
  <2>4. MemberAt(B, t, o, ms, j)
    BY <1>2, <1>5, <2>2, <2>3, FlatFind
  <2> QED
    BY <2>4 DEF o
<1>8. TokenText(B, t[find_object_value(B, t, 1, ms[j].key)]) = ms[j].v
  BY <1>7 DEF MemberAt
<1> QED
  BY <1>6, <1>8 DEF ms, max

(* The handlers of Go and Python act on what the caller named, or refuse.   *)
LEMMA BodySeenLibrary ==
  ASSUME Fixed, call.op \notin Query, request.body = PostedBody(call), AllUtf8, DecodeBodyLibrary
  PROVE  \/ stage' = "decoded" /\ seen' = AsCalled(call) /\ UNCHANGED <<response, answer>>
         \/ Reject("400")
<1> DEFINE B == PostedBody(call)
           t == jsmn_parse(B, Len(B)).tokens
           value(key) == TokenText(B, t[find_object_value(B, t, 1, key)])
           keys == Keys(call.op)
           n == Len(call.nums)
           ms == BodyMembers(call)
           P == Flattened(call.path)
           T == Flattened(call.to)
           first == value(IF call.op = "rename" THEN "old_path" ELSE "path")
           path == Replaced(Unescape(first))
           to == IF call.op = "rename" THEN Replaced(Unescape(value("new_path"))) ELSE <<>>
           w == [i \in 1 .. n |-> value(keys[i])[1]]
<1>1. call \in Calls /\ call.nums \in Seq(Digit)
  BY CallIsGood DEF Fixed
<1>2. /\ GoodCall(call) /\ IsText(call.path) /\ Len(call.path) # 0
      /\ IsText(P) /\ IsText(B)
      /\ call.op # "rename" => call.to = <<>>
      /\ call.op = "rename" => /\ IsText(call.to) /\ Len(call.to) # 0 /\ IsText(T)
                               /\ n = 0
  BY <1>1, PostedLaid
<1>3. n \in Nat /\ DOMAIN keys = 1 .. n
  BY <1>2, KeysText DEF GoodCall, IsText
<1>4. \A j \in 1 .. Len(ms) : value(ms[j].key) = ms[j].v
  BY <1>1, BodyFound
<1>u. Utf8(call.path) /\ Utf8(call.to)
  BY DEF AllUtf8
<1> HIDE DEF value, ms, B
<1>5. first = P
  <2>1. CASE call.op = "rename"
    <3>1. ms[1] = R("old_path", "string", P) /\ 1 \in 1 .. Len(ms)
      BY <1>2, <2>1, RenameBodyMembers DEF ms
    <3>2. ms[1].key = "old_path" /\ ms[1].v = P
      BY <3>1 DEF R
    <3>3. value("old_path") = P
      BY <1>4, <3>1, <3>2
    <3> QED
      BY <2>1, <3>3
  <2>2. CASE call.op # "rename"
    <3>1. ms[1] = R("path", "string", P) /\ Len(ms) = 1 + n
      BY <1>2, <2>2, PathBodyMembers DEF ms
    <3>2. 1 \in 1 .. Len(ms)
      BY <1>3, <3>1
    <3>3. ms[1].key = "path" /\ ms[1].v = P
      BY <3>1 DEF R
    <3>4. value("path") = P
      BY <1>4, <3>2, <3>3
    <3> QED
      BY <2>2, <3>4
  <2> QED
    BY <2>1, <2>2
<1>6. path = call.path
  <2>1. P = FlattenSeq(EscapeParts(call.path))
    BY DEF Flattened
  <2> HIDE DEF P
  <2>2. Unescape(P) = call.path
    BY <1>2, <2>1, UnescapeWhole
  <2>3. Replaced(call.path) = call.path
    BY <1>2, <1>u, ReplacedSame
  <2> QED
    BY <1>5, <2>2, <2>3
<1>7. to = call.to
  <2>1. CASE call.op = "rename"
    <3>1. ms[2] = R("new_path", "string", T) /\ 2 \in 1 .. Len(ms)
      BY <1>2, <2>1, RenameBodyMembers DEF ms
    <3>2. ms[2].key = "new_path" /\ ms[2].v = T
      BY <3>1 DEF R
    <3>3. value("new_path") = T
      BY <1>4, <3>1, <3>2
    <3>4. T = FlattenSeq(EscapeParts(call.to)) /\ IsText(T) /\ IsText(call.to) /\ Len(call.to) # 0
      BY <1>2, <2>1 DEF Flattened
    <3> HIDE DEF T
    <3>5. Unescape(T) = call.to
      BY <3>4, UnescapeWhole
    <3>6. Replaced(call.to) = call.to
      BY <1>u, <3>4, ReplacedSame
    <3> QED
      BY <2>1, <3>3, <3>5, <3>6
  <2>2. CASE call.op # "rename"
    BY <1>2, <2>2
  <2> QED
    BY <2>1, <2>2
<1>8. w = call.nums
  <2>1. \A i \in 1 .. n : value(keys[i])[1] = call.nums[i]
    <3> SUFFICES ASSUME NEW i \in 1 .. n PROVE value(keys[i])[1] = call.nums[i]
      OBVIOUS
    <3> DEFINE j == 1 + i
    <3>1. call.op # "rename"
      BY <1>2
    <3>2. ms[1 + i] = NumberIs(call, i) /\ Len(ms) = 1 + n
      BY <1>2, <3>1, PathBodyMembers DEF ms
    <3>3. j \in 1 .. Len(ms) /\ ms[j] = NumberIs(call, i)
      BY <1>3, <3>2
    <3> HIDE DEF j
    <3>4. ms[j].key = keys[i] /\ ms[j].v = <<call.nums[i]>>
      BY <3>3 DEF NumberIs, R
    <3>5. value(keys[i]) = <<call.nums[i]>>
      BY <1>4, <3>3, <3>4
    <3> QED
      BY <3>5
  <2>2. w = [i \in 1 .. n |-> call.nums[i]]
    BY <2>1
  <2> HIDE DEF w
  <2> QED
    BY <1>1, <2>2, SeqSame
<1>9. Handle(path, to, w) \/ Reject("400")
  <2>1. [i \in DOMAIN keys |-> value(keys[i])[1]] = w
    BY <1>3
  <2>2. request.body = B
    BY DEF B
  <2> HIDE DEF w
  <2>3. \/ Reject("400")
        \/ Handle(path, to, [i \in DOMAIN keys |-> value(keys[i])[1]])
    <3>1. IF provider = "python" /\ ~Utf8(B) THEN Reject("400")
          ELSE Handle(path, to, [i \in DOMAIN keys |-> value(keys[i])[1]])
      BY <2>2, Zenon DEF DecodeBodyLibrary, value
    <3> HIDE DEF path, to
    <3> QED
      BY <3>1
  <2> QED
    BY <2>1, <2>3, Zenon
<1> HIDE DEF path, to, w
<1>10. CASE Handle(path, to, w)
  <2>1. Handle(call.path, call.to, call.nums)
    BY <1>6, <1>7, <1>8, <1>10, Zenon
  <2> QED
    BY <2>1 DEF Handle, AsCalled
<1> QED
  BY <1>9, <1>10

(* the calls with a body: what is sent, and what a handler has of it *)
Posted ==
    call.op \notin Query =>
        /\ stage = "sent" => request.body = PostedBody(call)
        /\ seen = Unseen \/ (provider = "c" \/ AllUtf8 => seen = AsCalled(call))

LEMMA PostedKept ==
  ASSUME Posted, UNCHANGED <<provider, call, seen>>, stage' # "sent" \/ UNCHANGED <<stage, request>>
  PROVE  Posted'
<1>1. (AllUtf8' <=> AllUtf8) /\ Unseen' = Unseen
  BY DEF AllUtf8, Utf8, Unseen
<1>2. AsCalled(call)' = AsCalled(call) /\ PostedBody(call)' = PostedBody(call)
  BY DEF AsCalled, PostedBody, Body, Flattened, EscapeParts
<1> QED
  BY <1>1, <1>2 DEF Posted

LEMMA PostedStep ==
  ASSUME WireInv, Posted, [Next]_vars
  PROVE  Posted'
<1>0. call' = call => (AllUtf8' <=> AllUtf8)
  BY DEF AllUtf8, Utf8
<1>1. CASE SendQuery
  <2>1. call' = call /\ call.op \in Query
    BY <1>1 DEF SendQuery
  <2> QED
    BY <2>1 DEF Posted
<1>2. CASE SendBody
  <2>1. UNCHANGED <<provider, call, seen>> /\ call \in Calls /\ stage = "start"
    BY <1>2 DEF SendBody, WireInv, Fixed
  <2>2. stage' = "sent" => request'.body = PostedBody(call)
    BY <1>2, <2>1, BodyNotCut
  <2>3. PostedBody(call)' = PostedBody(call)
    BY <2>1 DEF PostedBody, Body, Flattened, EscapeParts
  <2>4. seen = Unseen
    BY <2>1 DEF WireInv
  <2>5. seen' = Unseen'
    BY <2>1, <2>4 DEF Unseen
  <2> QED
    BY <2>2, <2>3, <2>5 DEF Posted
<1>3. CASE DecodeQueryC \/ DecodeQueryLibrary
  <2>1. call' = call /\ call.op \in Query
    BY <1>3 DEF DecodeQueryC, DecodeQueryLibrary
  <2> QED
    BY <2>1 DEF Posted
<1>4. CASE DecodeBodyC \/ DecodeBodyLibrary
  <2>1. UNCHANGED <<provider, call>> /\ stage = "sent" /\ call.op \notin Query
    BY <1>4 DEF DecodeBodyC, DecodeBodyLibrary
  <2>2. Fixed /\ request.body = PostedBody(call)
    BY <2>1 DEF WireInv, Posted
  <2>3. \/ stage' = "decoded" /\ (provider = "c" \/ AllUtf8 => seen' = AsCalled(call))
        \/ stage' = "answered" /\ seen' = seen
        \/ stage' = "decoded" /\ provider # "c" /\ ~AllUtf8
    <3>1. CASE DecodeBodyC
      <4>1. \/ stage' = "decoded" /\ seen' = AsCalled(call)
            \/ Reject("EINVAL")
        BY <2>1, <2>2, <3>1, BodySeenC
      <4> QED
        BY <4>1 DEF Reject
    <3>2. CASE DecodeBodyLibrary /\ AllUtf8
      <4>1. \/ stage' = "decoded" /\ seen' = AsCalled(call)
            \/ Reject("400")
        BY <2>1, <2>2, <3>2, BodySeenLibrary
      <4> QED
        BY <4>1 DEF Reject
    <3>3. CASE DecodeBodyLibrary /\ ~AllUtf8
      <4>1. provider # "c"
        BY <3>3 DEF DecodeBodyLibrary
      <4>2. stage' = "decoded" \/ Reject("400")
        BY <3>3 DEF DecodeBodyLibrary, Handle
      <4> QED
        BY <3>3, <4>1, <4>2 DEF Reject
    <3> QED
      BY <1>4, <3>1, <3>2, <3>3
  <2>4. CASE stage' = "answered" /\ seen' = seen
    BY <2>1, <2>4, PostedKept
  <2>5. CASE stage' = "decoded" /\ (provider = "c" \/ AllUtf8 => seen' = AsCalled(call))
    <3>1. provider' = "c" \/ AllUtf8' => seen' = AsCalled(call)'
      BY <1>0, <2>1, <2>5 DEF AsCalled
    <3> QED
      BY <2>5, <3>1 DEF Posted
  <2>6. CASE stage' = "decoded" /\ provider # "c" /\ ~AllUtf8
    BY <1>0, <2>1, <2>6 DEF Posted
  <2> QED
    BY <2>3, <2>4, <2>5, <2>6
<1>5. CASE Succeed \/ Refuse
  <2>1. UNCHANGED <<provider, call, seen>> /\ stage' = "answered"
    BY <1>5 DEF Succeed, Refuse, Reject
  <2> QED
    BY <2>1, PostedKept
<1>6. CASE ReadAnswer
  <2>1. UNCHANGED <<provider, call, seen>> /\ stage' = "returned"
    BY <1>6 DEF ReadAnswer, Return
  <2> QED
    BY <2>1, PostedKept
<1>7. CASE UNCHANGED vars
  <2>1. UNCHANGED <<provider, call, seen, stage, request>>
    BY <1>7 DEF vars
  <2> QED
    BY <2>1, PostedKept
<1> QED
  BY <1>1, <1>2, <1>3, <1>4, <1>5, <1>6, <1>7 DEF Next, Returned

(* Whatever characters the paths hold and however long they are: a handler  *)
(* that got anything got the caller's paths and numbers.                    *)
THEOREM ServerSeesAll == Spec => []ServerSeesCall
<1>1. ASSUME Init PROVE Posted
  BY <1>1 DEF Init, Posted
<1>2. ASSUME WireInv, Posted PROVE ServerSeesCall
  <2> SUFFICES ASSUME seen # Unseen, provider = "c" \/ AllUtf8 PROVE seen = AsCalled(call)
    BY DEF ServerSeesCall, AsCalled
  <2>1. CASE call.op \notin Query
    BY <1>2, <2>1 DEF Posted
  <2>2. CASE call.op \in Query
    <3>1. SeenQuery /\ call \in Calls
      BY <1>2, <2>2 DEF WireInv, Fixed
    <3>2. IsText(call.path) /\ call.to = <<>>
      <4>1. call.op # "rename"
        BY <2>2 DEF Query
      <4> QED
        BY <3>1, <4>1, CallIsGood DEF GoodCall
    <3>3. AllUtf8 => Replaced(call.path) = call.path
      BY <3>2, ReplacedSame DEF AllUtf8
    <3> QED
      BY <3>1, <3>2, <3>3 DEF SeenQuery, AsCalled
  <2> QED
    BY <2>1, <2>2
<1>3. ASSUME WireInv, Posted, [Next]_vars PROVE Posted'
  BY <1>3, PostedStep
<1> QED
  BY <1>1, <1>2, <1>3, WireInvariant, PTL DEF Spec

=============================================================================
