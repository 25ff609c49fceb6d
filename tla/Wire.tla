-------------------------------- MODULE Wire --------------------------------
(***************************************************************************)
(* One call on its way through the program: src/http_client.c builds a     *)
(* request, a service provider (C, Go or Python) decodes it, carries it    *)
(* out and encodes an answer, the client reads the answer and FUSE returns *)
(* it.  Texts are sequences of symbols, see JsonText; limits count symbols.*)
(* What the operations do to files is left to Namespace and ChunkIo: here  *)
(* it matters whether both sides mean the same path, numbers and entries.  *)
(***************************************************************************)
EXTENDS JsonText, SequencesExt, FiniteSets

CONSTANTS
    Calls,          \* records with fields op, path, to, nums
    Dirs,           \* contents a listed directory may have
    Providers,      \* a subset of {"c", "go", "python"}
    EndpointSize,   \* char endpoint[1024]
    UrlSize,        \* char url[1024]
    BaseUrl,        \* length of client->base_url
    EscapedSize,    \* char escaped_path[HTTPFS_MAX_PATH * 2]
    BodySlack,      \* 64: what body[] has beside the escaped paths (256 for utimens)
    RawUriSize,     \* char raw_uri[2048], query[2048], encoded[2048]
    PathSize,       \* char path[2048] of the handlers
    LocalSize,      \* char local_path[4096] less the root directory
    ListedSize,     \* char escaped[512] of handle_list
    NameSize,       \* char name[256] of httpfs_dir_entry
    MetaPathSize,   \* char path[HTTPFS_MAX_PATH] of httpfs_meta
    MaxTokens,      \* 512 in parse_ok_response
    MaxEntries      \* 512 in httpfs_readdir_impl

Query == {"meta", "list", "read", "write"}
Bodied == {"create-file", "create-dir", "remove-file", "remove-dir", "rename", "truncate", "utimens"}

(* the names of a call's numbers, in query or body *)
Keys(op) ==
    CASE op = "read" -> <<"offset", "size">>
      [] op = "write" -> <<"offset">>
      [] op \in {"create-file", "create-dir"} -> <<"mode">>
      [] op = "truncate" -> <<"size">>
      [] op = "utimens" -> <<"atime_sec", "atime_nsec", "mtime_sec", "mtime_nsec">>
      [] OTHER -> <<>>

(* what FUSE calls with: a path that is not empty, a second one to rename, *)
(* a value for each number                                                 *)
CallAssumption(c) ==
    /\ c \in [op : Query \cup Bodied, path : Seq(STRING), to : Seq(STRING), nums : Seq(Digit)]
    /\ c.path # <<>> /\ (c.to # <<>> <=> c.op = "rename")
    /\ Len(c.nums) = Len(Keys(c.op))

ASSUME WireAssumption ==
    /\ Providers \subseteq {"c", "go", "python"}
    /\ \A c \in Calls : CallAssumption(c)
    /\ \A d \in Dirs : d \in Seq([name : Seq(STRING), type : {"dir", "file"}])
    /\ {EndpointSize, UrlSize, BaseUrl, EscapedSize, BodySlack, RawUriSize, PathSize, LocalSize,
        ListedSize, NameSize, MetaPathSize, MaxTokens, MaxEntries} \subseteq Nat
    /\ UrlSize <= RawUriSize        \* 1024 and 2048
    /\ EndpointSize <= UrlSize
    /\ 3 * EndpointSize <= MetaPathSize    \* 1024 and 4096
    /\ BodySlack >= 14              \* 64, and the keys and quotes of a body
    /\ MaxTokens \div 4 >= 7        \* 128 and the tokens of an error

VARIABLES
    provider,
    dir,        \* the entries of the directory a list call names
    call,
    stage,      \* "start", "sent", "decoded", "answered", "returned"
    request,    \* method, uri, body
    seen,       \* path, to, nums as the handler got them
    answer,     \* what the handler found: ok, errno
    response,   \* the text of the answer
    result      \* what the caller gets: ok, errno, entries, nums, tokens

vars == <<provider, dir, call, stage, request, seen, answer, response, result>>

NoRequest == [method |-> "", uri |-> <<>>, body |-> <<>>]
Unseen    == [path |-> <<>>, to |-> <<>>, nums |-> <<>>]
Unknown   == "uninitialised"
NoResult  == [ok |-> FALSE, errno |-> Unknown, entries |-> <<>>, type |-> <<>>,
              nums |-> <<>>, tokens |-> 0]

Init ==
    /\ provider \in Providers
    /\ call \in Calls
    /\ dir \in IF call.op = "list" THEN Dirs ELSE {<<>>}
    /\ stage = "start"
    /\ request = NoRequest /\ seen = Unseen /\ response = <<>>
    /\ answer = [ok |-> FALSE, errno |-> Unknown]
    /\ result = NoResult

-----------------------------------------------------------------------------
(* The client builds a request *)

(* two hexadecimal digits of each character curl_easy_escape encodes *)
Hex == [quote |-> "22", bslash |-> "5C", bsp |-> "08", ctl |-> "01", nl |-> "0A",
        lt |-> "3C", amp |-> "26", plus |-> "2B", pct |-> "25", space |-> "20",
        eq |-> "3D", slash |-> "2F", qm |-> "3F", eacute |-> "C3A9", latin |-> "E9",
        tab |-> "09", ff |-> "0C", cr |-> "0D", fffd |-> "EFBFBD"]

curl_easy_escape(s) ==
    FlattenSeq([i \in DOMAIN s |-> IF s[i] \in DOMAIN Hex THEN <<"pct", Hex[s[i]]>>
                                   ELSE <<s[i]>>])

(* "&offset=%lld&size=%zu" *)
QueryNumbers(c) ==
    FlattenSeq([i \in DOMAIN c.nums |-> <<"amp", Keys(c.op)[i], "eq", c.nums[i]>>])

(* build_simple_get_endpoint, build_read_endpoint, build_write_endpoint *)
Endpoint(c) ==
    <<c.op>> \o (IF c.op \in Query
                   THEN <<"qm", "path", "eq">> \o curl_easy_escape(c.path) \o QueryNumbers(c)
                   ELSE <<>>)

Quoted(s) == <<"quote">> \o s \o <<"quote">>
Member(key, value) == Quoted(<<key>>) \o <<"colon">> \o value

(* members separated by commas *)
Commas(parts) ==
    FlattenSeq([i \in DOMAIN parts |-> IF i = 1 THEN parts[i] ELSE <<"comma">> \o parts[i]])
Object(members) == <<"lbrace">> \o Commas(members) \o <<"rbrace">>

(* the bodies of post_path_only, httpfs_rename_path, httpfs_truncate_file and *)
(* httpfs_update_times, of escaped paths                                      *)
Body(c, path, to) ==
    IF c.op = "rename"
      THEN Object(<<Member("old_path", Quoted(path)), Member("new_path", Quoted(to))>>)
      ELSE Object(<<Member("path", Quoted(path))>>
                    \o [i \in DOMAIN c.nums |-> Member(Keys(c.op)[i], <<c.nums[i]>>)])

(* snprintf into a buffer: what does not fit is cut off *)
Cut(text, size) == SubSeq(text, 1, IF Len(text) < size THEN Len(text) ELSE size - 1)

Return(r) == stage' = "returned" /\ result' = r
Fails(errno) == Return([NoResult EXCEPT !.errno = errno])

Send(method, uri, body) ==
    /\ stage' = "sent"
    /\ request' = [method |-> method, uri |-> uri, body |-> body]

(* http_request_ex: base_url and endpoint in url[] *)
UrlFits(endpoint) == BaseUrl + Len(endpoint) < UrlSize

(* Slip: snprintf's result is not compared with the size of url[] *)
SendQueryCut ==
    LET endpoint == Endpoint(call) IN
    /\ stage = "start" /\ call.op \in Query
    /\ IF Len(endpoint) >= EndpointSize
         THEN Fails("ENAMETOOLONG") /\ UNCHANGED request
         ELSE Send(IF call.op = "write" THEN "POST" ELSE "GET",
                   Cut(endpoint, UrlSize - BaseUrl), <<>>)
              /\ UNCHANGED result
    /\ UNCHANGED <<provider, dir, call, seen, answer, response>>

(* Slip: the error of a URL that is too long is not filled in *)
SendQueryNoError ==
    LET endpoint == Endpoint(call) IN
    /\ stage = "start" /\ call.op \in Query
    /\ IF Len(endpoint) >= EndpointSize \/ ~UrlFits(endpoint)
         THEN Return(NoResult) /\ UNCHANGED request
         ELSE Send(IF call.op = "write" THEN "POST" ELSE "GET", endpoint, <<>>)
              /\ UNCHANGED result
    /\ UNCHANGED <<provider, dir, call, seen, answer, response>>

SendQuery ==
    LET endpoint == Endpoint(call) IN
    /\ stage = "start" /\ call.op \in Query
    /\ IF Len(endpoint) >= EndpointSize \/ ~UrlFits(endpoint)
         THEN Fails("ENAMETOOLONG") /\ UNCHANGED request
         ELSE Send(IF call.op = "write" THEN "POST" ELSE "GET", endpoint, <<>>)
              /\ UNCHANGED result
    /\ UNCHANGED <<provider, dir, call, seen, answer, response>>

SendBody ==
    LET path == json_escape_string(call.path, EscapedSize)
        to   == json_escape_string(call.to, EscapedSize)
        size == EscapedSize * (IF call.op = "rename" THEN 2 ELSE 1)
                  + BodySlack * (IF call.op = "utimens" THEN 4 ELSE 1) IN
    /\ stage = "start" /\ call.op \notin Query
    /\ IF ~path.ok \/ ~to.ok THEN Fails("EINVAL") /\ UNCHANGED request
       ELSE IF ~UrlFits(Endpoint(call)) THEN Fails("ENAMETOOLONG") /\ UNCHANGED request
       ELSE /\ Send("POST", Endpoint(call), Cut(Body(call, path.text, to.text), size))
            /\ UNCHANGED result
    /\ UNCHANGED <<provider, dir, call, seen, answer, response>>

-----------------------------------------------------------------------------
(* The C provider decodes it *)

(* parse_request_line: the URI ends at a blank and after 2047 characters *)
RawUri(uri) ==
    LET blanks == {i \in DOMAIN uri : uri[i] \in Blank}
        end    == IF blanks = {} THEN Len(uri)
                  ELSE (CHOOSE i \in blanks : \A j \in blanks : i <= j) - 1
    IN  SubSeq(uri, 1, IF end < RawUriSize THEN end ELSE RawUriSize - 1)

(* what follows the first question mark *)
QueryOf(uri) == LET q == EndOfFirst(uri, <<"qm">>)
                IN  IF q = 0 THEN <<>> ELSE SubSeq(uri, q + 1, Len(uri))

(* url_decode into output[size], after each symbol; a + stands for a blank *)
url_decode(s, size) ==
    LET dec[i \in 0 .. Len(s)] ==
          IF i = 0 THEN Made(<<>>)
          ELSE LET before  == dec[i - 1]
                   coded   == {ch \in DOMAIN Hex : i < Len(s) /\ Hex[ch] = s[i + 1]}
                   put(ch) == Made(Append(before.text, ch)) IN
               IF ~before.ok THEN Failed
               ELSE IF i > 1 /\ s[i - 1] = "pct" THEN before
               ELSE IF Len(before.text) + 1 >= size THEN Failed
               ELSE IF s[i] = "pct"
                 THEN IF coded = {} THEN Failed ELSE put(CHOOSE ch \in coded : TRUE)
               ELSE put(IF s[i] = "plus" THEN "space" ELSE s[i])
    IN  dec[Len(s)]

(* the query's segments between ampersands *)
Segments(query) ==
    LET cuts == {0, Len(query) + 1} \cup {i \in DOMAIN query : query[i] = "amp"}
        next(i) == CHOOSE j \in cuts : j > i /\ \A k \in cuts : k > i => j <= k
    IN  {SubSeq(query, i + 1, next(i) - 1) : i \in cuts \ {Len(query) + 1}}

(* query_value; the client sends each key once *)
query_value(query, key, size) ==
    LET found == {s \in Segments(query) : Len(s) >= 2 /\ s[1] = key /\ s[2] = "eq"}
    IN  IF found = {} THEN Failed
        ELSE LET s == CHOOSE s \in found : TRUE
                 encoded == SubSeq(s, 3, Len(s))
             IN  IF Len(encoded) + 1 > RawUriSize THEN Failed
                 ELSE url_decode(encoded, size)

(* resolve_path: absolute, nothing empty or special between slashes, and it *)
(* fits behind the root                                                     *)
resolve_path(p) ==
    /\ p # <<>> /\ p[1] = "slash"
    /\ p = <<"slash">> \/
         /\ \A i \in 1 .. Len(p) - 1 : ~(p[i] = "slash" /\ p[i + 1] = "slash")
         /\ \A i \in 1 .. Len(p) - 2 :
               ~(p[i] = "slash" /\ p[i + 1] \in {"dot", "dotdot"} /\ p[i + 2] = "slash")
         /\ p \notin {<<"slash", "dot">>, <<"slash", "dotdot">>}
    /\ Len(p) < LocalSize

All(parts) == \A i \in DOMAIN parts : parts[i].ok

Handle(path, to, nums) ==
    /\ stage' = "decoded"
    /\ seen' = [path |-> path, to |-> to, nums |-> nums]
    /\ UNCHANGED <<response, answer>>

(* a JSON answer; the libraries end it with a newline *)
Line(members) == Object(members) \o (IF provider = "c" THEN <<>> ELSE <<"nl">>)

(* send_error_json, writeError, error_response; Flask sorts the members *)
ErrorText(errno) ==
    LET s == Member("status", Quoted(<<"error">>))
        e == Member("errno", <<errno>>)
        m == Member("message", Quoted(<<"text">>))
    IN  Line(IF provider = "python" THEN <<e, m, s>> ELSE <<s, e, m>>)

Reject(errno) ==
    /\ stage' = "answered"
    /\ answer' = [ok |-> FALSE, errno |-> errno]
    /\ response' = ErrorText(errno)
    /\ UNCHANGED seen

(* the first lines of the query handlers *)
DecodeQueryC ==
    LET query == QueryOf(RawUri(request.uri))
        path  == query_value(query, "path", PathSize)
        keys  == Keys(call.op)
        nums  == [i \in DOMAIN keys |-> query_value(query, keys[i], PathSize)] IN
    /\ stage = "sent" /\ provider = "c" /\ call.op \in Query
    /\ IF path.ok /\ All(nums) /\ resolve_path(path.text)
         THEN Handle(path.text, <<>>, [i \in DOMAIN nums |-> nums[i].text[1]])
         ELSE Reject("EINVAL")
    /\ UNCHANGED <<provider, dir, call, request, result>>

(* the first lines of the handlers with a JSON body *)
DecodeBodyC ==
    LET string(key) == json_get_string(request.body, key, PathSize)
        renames == call.op = "rename"
        path == string(IF renames THEN "old_path" ELSE "path")
        to   == IF renames THEN string("new_path") ELSE Made(<<>>)
        keys == Keys(call.op)
        nums == [i \in DOMAIN keys |-> json_get_long(request.body, keys[i])] IN
    /\ stage = "sent" /\ provider = "c" /\ call.op \notin Query
    /\ IF path.ok /\ to.ok /\ All(nums) /\ resolve_path(path.text)
             /\ (renames => resolve_path(to.text))
         THEN Handle(path.text, to.text, [i \in DOMAIN nums |-> nums[i].text[1]])
         ELSE Reject("EINVAL")
    /\ UNCHANGED <<provider, dir, call, request, result>>

-----------------------------------------------------------------------------
(* The Go and Python providers decode it, with their libraries *)

Utf8(s) == \A i \in DOMAIN s : s[i] # "latin"
Replaced(s) == [i \in DOMAIN s |-> IF s[i] = "latin" THEN "fffd" ELSE s[i]]

(* r.URL.Query() keeps bytes that are no UTF-8, request.args replaces them.  *)
(* resolvePath and resolve_path accept every path the kernel sends: absolute *)
(* and without ".."                                                          *)
DecodeQueryLibrary ==
    LET value(key) == query_value(QueryOf(request.uri), key, Len(request.uri) + 1)
        path == value("path").text
        keys == Keys(call.op) IN
    /\ stage = "sent" /\ provider # "c" /\ call.op \in Query
    /\ Handle(IF provider = "go" THEN path ELSE Replaced(path), <<>>,
              [i \in DOMAIN keys |-> value(keys[i]).text[1]])
    /\ UNCHANGED <<provider, dir, call, request, result>>

(* what a JSON decoder makes of a string, symbol by symbol *)
Unescape(s) ==
    LET dec[i \in 0 .. Len(s)] ==
          IF i = 0 THEN [text |-> <<>>, skip |-> 0]
          ELSE LET before == dec[i - 1]
                   put(ch, n) == [text |-> Append(before.text, ch), skip |-> n] IN
               IF before.skip > 0 THEN [before EXCEPT !.skip = @ - 1]
               ELSE IF s[i] # "bslash" THEN put(s[i], 0)
               ELSE IF s[i + 1] = "u" THEN put("ctl", 5)
               ELSE put(CHOOSE ch \in DOMAIN Letter : Letter[ch] = s[i + 1], 1)
    IN  dec[Len(s)].text

(* encoding/json replaces bytes that are no UTF-8; Python's json.loads fails, *)
(* and handle_http_error of app.py sends the HTTP status 400 as errno         *)
DecodeBodyLibrary ==
    LET body   == request.body
        tokens == jsmn_parse(body, Len(body)).tokens
        value(key) == TokenText(body, tokens[find_object_value(body, tokens, 1, key)])
        renames == call.op = "rename"
        keys   == Keys(call.op) IN
    /\ stage = "sent" /\ provider # "c" /\ call.op \notin Query
    /\ IF provider = "python" /\ ~Utf8(body) THEN Reject("400")
       ELSE Handle(Replaced(Unescape(value(IF renames THEN "old_path" ELSE "path"))),
                   IF renames THEN Replaced(Unescape(value("new_path"))) ELSE <<>>,
                   [i \in DOMAIN keys |-> value(keys[i])[1]])
    /\ UNCHANGED <<provider, dir, call, request, result>>

-----------------------------------------------------------------------------
(* The provider answers *)

(* encoding/json also escapes <, > and &; Flask's jsonify all but ASCII *)
EscapedBy(s) ==
    FlattenSeq([i \in DOMAIN s |->
        IF provider = "go" /\ s[i] = "lt" THEN <<"bslash", "u", "0", "0", "3", "c">>
        ELSE IF provider = "go" /\ s[i] = "amp" THEN <<"bslash", "u", "0", "0", "2", "6">>
        ELSE IF provider = "go" /\ s[i] = "latin" THEN <<"bslash", "u", "f", "f", "f", "d">>
        ELSE IF provider = "python" /\ s[i] \in {"eacute", "fffd"} THEN <<"bslash", "u", "0", "0", "e", "9">>
        ELSE IF provider = "python" /\ s[i] = "latin" THEN <<"bslash", "u", "d", "c", "e", "9">>
        ELSE EscapeChar(s[i])])

StatusOk == Member("status", Quoted(<<"ok">>))

(* C writes the status first; maps are written in the order of their keys *)
Answer(key, value) ==
    Line(IF provider = "c" THEN <<StatusOk, Member(key, value)>>
                           ELSE <<Member(key, value), StatusOk>>)

EntryText(e) ==
    Object(<<Member("name", Quoted(EscapedBy(e.name))), Member("type", Quoted(<<e.type>>))>>)

ListText == Answer("entries", <<"lbracket">> \o Commas([i \in DOMAIN dir |-> EntryText(dir[i])]) \o <<"rbracket">>)

(* the type and size of the file a meta call names *)
MetaType == "file"
MetaSize == "7"

(* stat_to_json inserts the path as it is; Flask sorts the members *)
MetaText ==
    LET path == Member("path", Quoted(IF provider = "c" THEN seen.path ELSE EscapedBy(seen.path)))
        type == Member("type", Quoted(<<MetaType>>))
        mode == Member("mode", <<"1">>)
        size == Member("size", <<MetaSize>>)
    IN  Answer("meta", Object(IF provider = "python" THEN <<mode, path, size, type>>
                              ELSE <<path, type, mode, size>>))

WriteText ==
    LET n == Member("bytes_written", <<"1">>)
        d == Member("content_md5", Quoted(<<"digest">>))
    IN  Line(IF provider = "c" THEN <<StatusOk, n, d>> ELSE <<n, d, StatusOk>>)

OkText ==
    CASE call.op = "list"  -> ListText
      [] call.op = "meta"  -> MetaText
      [] call.op = "write" -> WriteText
      [] call.op = "read"  -> <<"bytes">>
      [] OTHER -> Line(<<StatusOk>>)

(* handle_list escapes each name into escaped[512] *)
NamesFit ==
    provider = "c" /\ call.op = "list" =>
        \A i \in DOMAIN dir : json_escape_string(dir[i].name, ListedSize).ok

(* the operation succeeds *)
Succeed ==
    /\ stage = "decoded"
    /\ IF NamesFit
         THEN /\ stage' = "answered"
              /\ answer' = [ok |-> TRUE, errno |-> Unknown]
              /\ response' = OkText
              /\ UNCHANGED seen
         ELSE Reject("EIO")
    /\ UNCHANGED <<provider, dir, call, request, result>>

(* the operation fails *)
Refuse ==
    /\ stage = "decoded"
    /\ Reject("ENOENT")
    /\ UNCHANGED <<provider, dir, call, request, result>>

-----------------------------------------------------------------------------
(* The client reads the answer *)

(* Slip: a listing is parsed into an array of 256 *)
TokenArrayShort(op) ==
    CASE op \in {"list", "read", "write"} -> MaxTokens \div 2
      [] op = "meta" -> MaxTokens
      [] OTHER -> MaxTokens \div 4

(* jsmntok_t tokens[] of each call *)
TokenArray(op) ==
    CASE op = "list" -> 2 * MaxTokens
      [] op = "meta" -> MaxTokens
      [] op \in {"read", "write"} -> MaxTokens \div 2
      [] OTHER -> MaxTokens \div 4

(* parse_ok_response allows 512 whatever array it is given; read's            *)
(* parse_error_response allows what it has                                   *)
Allowed(op) == IF op = "read" THEN TokenArray(op) ELSE MaxTokens

Value(t, obj, key) == find_object_value(response, t, obj, key)
TextOf(t, i) == TokenText(response, t[i])

(* the objects in the entries array: tokens whose parent it is *)
EntryTokens(t, array) ==
    LET upto[i \in 0 .. Len(t)] ==
          IF i = 0 THEN <<>>
          ELSE IF /\ i > array /\ t[i].start < t[array].end
                  /\ t[i].parent = array /\ t[i].type = "object"
               THEN Append(upto[i - 1], i) ELSE upto[i - 1]
    IN  upto[Len(t)]

Entry(t, i) ==
    LET name == Value(t, i, "name")
        type == Value(t, i, "type")
    IN  IF name = NoToken \/ type = NoToken THEN Failed
        ELSE IF ~token_to_string(response, t[name], NameSize).ok THEN Failed
        ELSE [ok |-> TRUE, name |-> TextOf(t, name), type |-> TextOf(t, type)]

(* the rest of httpfs_list_dir *)
ListResult(t) ==
    LET array == Value(t, 1, "entries") IN
    IF array = NoToken THEN [NoResult EXCEPT !.errno = "EIO"]
    ELSE IF t[array].type # "array" THEN [NoResult EXCEPT !.errno = "EIO"]
    ELSE LET objects == EntryTokens(t, array)
             entries == [i \in DOMAIN objects |-> Entry(t, objects[i])]
         IN  IF \E i \in DOMAIN entries : i <= MaxEntries /\ ~entries[i].ok THEN [NoResult EXCEPT !.errno = "EIO"]
             ELSE IF Len(entries) > MaxEntries THEN [NoResult EXCEPT !.errno = "ENOBUFS"]
             ELSE [NoResult EXCEPT !.ok = TRUE,
                     !.entries = [i \in DOMAIN entries |->
                                    [name |-> entries[i].name, type |-> entries[i].type]]]

(* parse_meta_object *)
MetaResult(t) ==
    LET meta == Value(t, 1, "meta")
        at(key) == Value(t, meta, key)
        number(key) == TextOf(t, at(key))
    IN  IF \/ meta = NoToken
           \/ \E key \in {"path", "type", "mode", "size"} : at(key) = NoToken
           \/ ~token_to_string(response, t[at("path")], MetaPathSize).ok
           \/ \E key \in {"mode", "size"} : Len(number(key)) # 1 \/ number(key)[1] \notin Digit
        THEN [NoResult EXCEPT !.errno = "EIO"]
        ELSE [NoResult EXCEPT !.ok = TRUE, !.type = TextOf(t, at("type")),
                              !.nums = number("size")]

WriteResult(t) ==
    LET n == Value(t, 1, "bytes_written")
        d == Value(t, 1, "content_md5")
    IN  IF n = NoToken \/ d = NoToken THEN [NoResult EXCEPT !.errno = "EIO"]
        ELSE IF TextOf(t, n) # <<"1">> \/ TextOf(t, d) # <<"digest">>
          THEN [NoResult EXCEPT !.errno = "EIO"]
        ELSE [NoResult EXCEPT !.ok = TRUE]

(* parse_response_tokens and parse_status_or_error, then what the call needs *)
JsonResult ==
    LET p == jsmn_parse(response, Allowed(call.op))
        t == p.tokens
        status == Value(t, 1, "status")
        errno  == Value(t, 1, "errno")
        read ==
          IF p.error \/ t = <<>> THEN [NoResult EXCEPT !.errno = "EIO"]
          ELSE IF t[1].type # "object" \/ status = NoToken THEN [NoResult EXCEPT !.errno = "EIO"]
          ELSE IF TextOf(t, status) = <<"ok">>
            THEN CASE call.op = "list"  -> ListResult(t)
                   [] call.op = "meta"  -> MetaResult(t)
                   [] call.op = "write" -> WriteResult(t)
                   [] call.op = "read"  -> [NoResult EXCEPT !.errno = "EIO"]
                   [] OTHER             -> [NoResult EXCEPT !.ok = TRUE]
          ELSE IF TextOf(t, status) = <<"error">> /\ errno # NoToken
            THEN [NoResult EXCEPT !.errno = TextOf(t, errno)[1]]
          ELSE [NoResult EXCEPT !.errno = "EIO"]
    IN  [read EXCEPT !.tokens = Len(t)]

(* Slip: Content-Type is not looked at, so an error is read as data *)
ReadAnswerAsData ==
    /\ stage = "answered"
    /\ Return(IF call.op = "read" THEN [NoResult EXCEPT !.ok = TRUE] ELSE JsonResult)
    /\ UNCHANGED <<provider, dir, call, request, seen, answer, response>>

(* a read's data come as application/octet-stream, everything else as JSON *)
ReadAnswer ==
    /\ stage = "answered"
    /\ Return(IF call.op = "read" /\ answer.ok THEN [NoResult EXCEPT !.ok = TRUE]
              ELSE JsonResult)
    /\ UNCHANGED <<provider, dir, call, request, seen, answer, response>>

-----------------------------------------------------------------------------
Returned == stage = "returned" /\ UNCHANGED vars

Next ==
    \/ SendQuery \/ SendBody
    \/ DecodeQueryC \/ DecodeBodyC \/ DecodeQueryLibrary \/ DecodeBodyLibrary
    \/ Succeed \/ Refuse
    \/ ReadAnswer \/ Returned

Spec == Init /\ [][Next]_vars

-----------------------------------------------------------------------------
(* Properties *)

AllUtf8 == Utf8(call.path) /\ Utf8(call.to)

(* A handler acts on exactly the paths and numbers of the caller, whatever  *)
(* characters they hold and however long they are: nothing is cut off by    *)
(* snprintf or sscanf on the way, nothing in a path is taken for a          *)
(* separator, an escape, another parameter or another member of the body.   *)
(* (The libraries of Go and Python change bytes that are no UTF-8.)         *)
ServerSeesCall ==
    seen # Unseen /\ (provider = "c" \/ AllUtf8) =>
        seen = [path |-> call.path, to |-> call.to, nums |-> call.nums]

(* A listing the client accepts has one entry for each of the directory's,  *)
(* in order, with its own type and its own name as the provider wrote it,   *)
(* also when a name reads like a key, a bracket or a quote.                 *)
ListingFaithful ==
    stage = "returned" /\ call.op = "list" /\ result.ok =>
        result.entries = [i \in DOMAIN dir |-> [name |-> EscapedBy(dir[i].name),
                                                type |-> <<dir[i].type>>]]

(* What find_object_value can be asked of the answer to this call: a path   *)
(* that stat_to_json can insert as it is, a listing with at most MaxTokens  *)
(* tokens and names that fit name[].                                        *)
Answerable ==
    CASE call.op = "meta" ->
           provider = "c" => \A i \in DOMAIN call.path : call.path[i] \notin {"quote", "bslash"}
      [] call.op = "list" ->
           /\ 5 + 5 * Len(dir) <= MaxTokens /\ Len(dir) <= MaxEntries
           /\ \A i \in DOMAIN dir : Len(EscapedBy(dir[i].name)) < NameSize
      [] OTHER -> TRUE

(* The caller is told that its call succeeded exactly when the operation    *)
(* did: an error is never taken for success, nor (for an Answerable call) a *)
(* success for an error, wherever the provider puts the status and whatever *)
(* names the answer holds; a file's type and size are its own.              *)
OutcomeTold ==
    stage = "returned" =>
        /\ result.ok => answer.ok
        /\ answer.ok /\ Answerable => result.ok
        /\ result.ok /\ call.op = "meta" /\ Answerable =>
              result.type = <<MetaType>> /\ result.nums = <<MetaSize>>

(* jsmn never gets to write past the jsmntok_t array of the call, although  *)
(* parse_ok_response allows 512 tokens for arrays of 128 and 256.           *)
TokensFit == result.tokens <= TokenArray(call.op)

(* A call that fails leaves a POSIX error number in the httpfs_error that   *)
(* httpfs_fuse.c passes uninitialised and negates (docs/http-api.md: "The   *)
(* `errno` field maps directly to POSIX `errno` values").  (The Python      *)
(* provider sends 400 for a body that is no UTF-8.)                         *)
ErrnoIsPosix ==
    stage = "returned" /\ ~result.ok /\ (provider = "python" => AllUtf8) =>
        result.errno \in {"EINVAL", "ENOENT", "EIO", "ENAMETOOLONG", "ENOBUFS"}

(* Responses are JSON (docs/http-api.md: "Encoding: both requests and       *)
(* responses use `application/json; charset=utf-8`"), so metadata can be    *)
(* told of a file of any name.                                              *)
MetaOfAnyName ==
    stage = "returned" /\ call.op = "meta" /\ answer.ok => result.ok

=============================================================================
