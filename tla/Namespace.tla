----------------------------- MODULE Namespace ------------------------------
(***************************************************************************)
(* The directory tree end to end: the FUSE callbacks and the client        *)
(* library's metadata calls (src/httpfs_fuse.c, src/http_client.c) against *)
(* the handlers of the C, Go and Python service providers, which serve     *)
(* requests of several clients concurrently.                               *)
(*                                                                         *)
(* Each client makes one call.  A POSIX system call is atomic; a handler   *)
(* that makes several of them can be interrupted between any two.  Paths   *)
(* are sequences of names, absolute and normalised as FUSE passes them;    *)
(* the mount's root is never removed or renamed, and there are no links.   *)
(***************************************************************************)
EXTENDS Integers, Sequences, FiniteSets

CONSTANTS
    Client,
    Name,           \* the names a path is made of
    Providers,      \* which of "c", "go" and "python" may be serving
    Program,        \* the calls a client may make, see Call
    InitTree,       \* the tree at the start, see Node
    MaxListed       \* entries that fit the 512 tokens of parse_ok_response

VARIABLES
    provider,
    tree,       \* path |-> node, for every path that exists
    call,       \* the call each client has made
    st,         \* "idle", "wait" or "done"
    res,        \* "ok" or the errno the call returned
    got,        \* the entries a listing has returned
    rq,         \* the request of each client: its handler's progress and reply
    lst,        \* the open directory of a listing
    \* History
    effects,    \* how often the call's handler has changed the tree
    gone        \* nodes removed, or replaced by a rename

vars == <<provider, tree, call, st, res, got, rq, lst, effects, gone>>

Node(id, kind) == [id |-> id, kind |-> kind, atime |-> 0, mtime |-> 0]

Ids(t)     == {t[p].id : p \in DOMAIN t}
Parents(p) == {SubSeq(p, 1, k) : k \in 0 .. Len(p) - 1}

(* what stands for a node: one of the start, or the client that made it *)
Id    == Ids(InitTree) \cup Client \cup {"none"}
Nodes == [id : Id, kind : {"file", "dir"}, atime : Int, mtime : Int]

(* The disk holds a tree to begin with: a node for every path, of which no  *)
(* two are the same, in directories.                                        *)
ASSUME TreeAssumption ==
    /\ DOMAIN InitTree \subseteq Seq(Name)
    /\ InitTree \in [DOMAIN InitTree -> Nodes]
    /\ \A p \in DOMAIN InitTree : \A q \in Parents(p) :
          q \in DOMAIN InitTree /\ InitTree[q].kind = "dir"
    /\ \A p, q \in DOMAIN InitTree : InitTree[p].id = InitTree[q].id => p = q
    /\ Ids(InitTree) \cap Client = {}

UTIME_OMIT == -2
UTIME_NOW  == -1

Call(op, path, to, atime, mtime) ==
    [op |-> op, path |-> path, to |-> to, atime |-> atime, mtime |-> mtime]

(* FUSE passes absolute, normalised paths, and times as timespec values. *)
ASSUME CallAssumption ==
    /\ Providers \subseteq {"c", "go", "python"}
    /\ MaxListed \in Nat
    /\ Program \subseteq [op : {"meta", "create", "mkdir", "unlink", "rmdir", "rename",
                               "utimens", "list"},
                         path : Seq(Name), to : Seq(Name), atime : Int, mtime : Int]

NoCall == Call("none", <<>>, <<>>, UTIME_OMIT, UTIME_OMIT)

NoReq  == [pc |-> "none", err |-> "ok", entries |-> {}, old |-> Node("none", "file")]
NoList == [dir |-> "none", open |-> FALSE, failed |-> FALSE,
           always |-> {}, ever |-> {}, todo |-> {}, seen |-> {}]

Init ==
    /\ provider \in Providers
    /\ tree = InitTree
    /\ call = [c \in Client |-> NoCall]
    /\ st = [c \in Client |-> "idle"]
    /\ res = [c \in Client |-> "ok"]
    /\ got = [c \in Client |-> {}]
    /\ rq = [c \in Client |-> NoReq]
    /\ lst = [c \in Client |-> NoList]
    /\ effects = [c \in Client |-> 0]
    /\ gone = {}

-----------------------------------------------------------------------------
(* System calls: the errno and the tree they leave *)

Exists(p)    == p \in DOMAIN tree
IsDir(p)     == Exists(p) /\ tree[p].kind = "dir"
Above(p, q)  == Len(p) < Len(q) /\ SubSeq(q, 1, Len(p)) = p
Under(p)     == {q \in DOMAIN tree : Above(p, q)}

Fails(e)       == [err |-> e, tree |-> tree, gone |-> {}]
Leaves(t, ids) == [err |-> "ok", tree |-> t, gone |-> ids]
With(p, n)     == [q \in DOMAIN tree \cup {p} |-> IF q = p THEN n ELSE tree[q]]
Without(p)     == [q \in DOMAIN tree \ {p} |-> tree[q]]

(* what walking to the last component of p meets *)
Walk(p) ==
    IF \A q \in Parents(p) : IsDir(q) THEN "ok"
    ELSE IF \A q \in Parents(p) : Exists(q) => IsDir(q) THEN "ENOENT"
    ELSE "ENOTDIR"

(* open(O_CREAT | O_EXCL), mkdir: id names the new node *)
Make(p, id, kind) ==
    IF Walk(p) # "ok" THEN Fails(Walk(p))
    ELSE IF Exists(p) THEN Fails("EEXIST")
    ELSE Leaves(With(p, Node(id, kind)), {})

Lstat(p) == IF Walk(p) # "ok" THEN Walk(p) ELSE IF Exists(p) THEN "ok" ELSE "ENOENT"

Unlink(p) ==
    IF Lstat(p) # "ok" THEN Fails(Lstat(p))
    ELSE IF IsDir(p) THEN Fails("EISDIR")
    ELSE Leaves(Without(p), {tree[p].id})

Rmdir(p) ==
    IF Lstat(p) # "ok" THEN Fails(Lstat(p))
    ELSE IF ~IsDir(p) THEN Fails("ENOTDIR")
    ELSE IF Under(p) # {} THEN Fails("ENOTEMPTY")
    ELSE Leaves(Without(p), {tree[p].id})

(* the tree with p, and all below it, at q *)
Moved(p, q) ==
    LET at(r) == q \o SubSeq(r, Len(p) + 1, Len(r))
        from  == {p} \cup Under(p)
    IN  [r \in (DOMAIN tree \ from) \cup {at(s) : s \in from} |->
            IF r = q \/ Above(q, r) THEN tree[p \o SubSeq(r, Len(q) + 1, Len(r))]
            ELSE tree[r]]

Rename(p, q) ==
    CASE Lstat(p) # "ok"                    -> Fails(Lstat(p))
      [] Lstat(p) = "ok" /\ Walk(q) # "ok"  -> Fails(Walk(q))
      [] Lstat(p) = "ok" /\ Walk(q) = "ok"  ->
           IF p = q THEN Leaves(tree, {})
           ELSE IF Above(p, q) THEN Fails("EINVAL")
           ELSE IF Above(q, p) \/ Under(q) # {} THEN Fails("ENOTEMPTY")
           ELSE IF Exists(q) /\ IsDir(q) /\ ~IsDir(p) THEN Fails("EISDIR")
           ELSE IF Exists(q) /\ IsDir(p) /\ ~IsDir(q) THEN Fails("ENOTDIR")
           ELSE Leaves(Moved(p, q), IF Exists(q) THEN {tree[q].id} ELSE {})

(* the current time, later than any time a call sets *)
Now == 9

NewTime(old, t) == IF t = UTIME_OMIT THEN old ELSE IF t = UTIME_NOW THEN Now ELSE t

SetTimes(p, atime, mtime) ==
    IF Lstat(p) # "ok" THEN Fails(Lstat(p))
    ELSE Leaves([tree EXCEPT ![p].atime = atime, ![p].mtime = mtime], {})

-----------------------------------------------------------------------------
(* The handlers *)

ChildNames(t, id) ==
    {p[Len(p)] : p \in {q \in DOMAIN t : Len(q) > 0
                            /\ t[SubSeq(q, 1, Len(q) - 1)].id = id}}

(* The tree becomes t.  readdir promises an open directory's reader the     *)
(* names that stay there, and may or may not return those that come or go.  *)
SetTree(t) ==
    /\ tree' = t
    /\ lst' = [c \in Client |->
                 IF rq[c].pc # "list" THEN lst[c]
                 ELSE [lst[c] EXCEPT !.always = @ \cap ChildNames(t, lst[c].dir),
                                     !.ever = @ \cup ChildNames(t, lst[c].dir)]]

Respond(c, err) == rq' = [rq EXCEPT ![c].pc = "reply", ![c].err = err]

(* a system call that changes the tree, and the reply *)
Change(c, r, err) ==
    /\ SetTree(r.tree)
    /\ gone' = gone \cup r.gone
    /\ effects' = [effects EXCEPT ![c] = IF r.err = "ok" THEN @ + 1 ELSE @]
    /\ Respond(c, err)
    /\ UNCHANGED <<provider, call, st, res, got>>

(* ...with its errno *)
Apply(c, r) == Change(c, r, r.err)

Serve(c, op) == rq[c].pc = "sent" /\ call[c].op = op

Answer(c, err) ==
    /\ Respond(c, err)
    /\ UNCHANGED <<provider, tree, call, st, res, got, lst, effects, gone>>

HandleMeta(c) == Serve(c, "meta") /\ Answer(c, Lstat(call[c].path))

(* Slip: without O_EXCL an existing file is opened, and reported created *)
HandleCreateFileNoExcl(c) ==
    LET p == call[c].path IN
    /\ Serve(c, "create")
    /\ Apply(c, IF Lstat(p) = "ok" /\ ~IsDir(p) THEN Leaves(tree, {}) ELSE Make(p, c, "file"))

(* what closing a new file may report: the C provider does not look *)
CloseErrors == IF provider = "c" THEN {} ELSE {"EIO", "ENOSPC"}

(* The Go and Python providers answer with the error of close, and the file *)
(* stays.                                                                   *)
HandleCreateFile(c) ==
    LET r == Make(call[c].path, c, "file") IN
    /\ Serve(c, "create")
    /\ \/ Apply(c, r)
       \/ r.err = "ok" /\ \E e \in CloseErrors : Change(c, r, e)

HandleCreateDir(c) == Serve(c, "mkdir") /\ Apply(c, Make(call[c].path, c, "dir"))

(* os.Remove of Go: unlink, and rmdir if that fails *)
GoRemove(p) ==
    IF IsDir(p) THEN Rmdir(p) ELSE Unlink(p)

(* Slip: remove(3), which takes files and directories *)
HandleRemoveFileAny(c) == Serve(c, "unlink") /\ Apply(c, GoRemove(call[c].path))

HandleRemoveFile(c) ==
    /\ Serve(c, "unlink")
    /\ Apply(c, IF provider = "go" THEN GoRemove(call[c].path) ELSE Unlink(call[c].path))

HandleRemoveDir(c) ==
    /\ Serve(c, "rmdir")
    /\ Apply(c, IF provider = "go" THEN GoRemove(call[c].path) ELSE Rmdir(call[c].path))

(* os.Rename of Go looks at the new name first, and replaces no directory *)
GoLookAtNewName(c) ==
    LET p == call[c].path IN
    /\ provider = "go" /\ Serve(c, "rename")
    /\ IF IsDir(call[c].to)
         THEN Respond(c, IF Lstat(p) = "ok" THEN "EEXIST" ELSE Lstat(p))
         ELSE rq' = [rq EXCEPT ![c].pc = "rename"]
    /\ UNCHANGED <<provider, tree, call, st, res, got, lst, effects, gone>>

(* the system call is next *)
RenameDue(c) == IF provider = "go" THEN rq[c].pc = "rename" ELSE Serve(c, "rename")

(* Slip: link(old, new), and the old name stays *)
HandleRenameKeepsOld(c) ==
    LET r == Rename(call[c].path, call[c].to) IN
    /\ RenameDue(c)
    /\ Apply(c, [r EXCEPT !.tree =
                    [q \in DOMAIN tree \cup DOMAIN r.tree |->
                        IF q \in DOMAIN r.tree THEN r.tree[q] ELSE tree[q]]])

HandleRename(c) == RenameDue(c) /\ Apply(c, Rename(call[c].path, call[c].to))

(* handle_utimens passes both times, special values too, to one utimensat *)
HandleUtimens(c) ==
    LET k == call[c]
        n == tree[k.path] IN
    /\ provider = "c" /\ Serve(c, "utimens")
    /\ Apply(c, IF Lstat(k.path) # "ok" THEN Fails(Lstat(k.path))
                ELSE SetTimes(k.path, NewTime(n.atime, k.atime), NewTime(n.mtime, k.mtime)))

(* Slip: the C provider reads the times first, too *)
StatForUtimensAny(c) ==
    LET p == call[c].path IN
    /\ Serve(c, "utimens")
    /\ IF Lstat(p) = "ok"
         THEN rq' = [rq EXCEPT ![c].pc = "times", ![c].old = tree[p]]
         ELSE Respond(c, Lstat(p))
    /\ UNCHANGED <<provider, tree, call, st, res, got, lst, effects, gone>>

(* handleUtimens of Go, update_times of Python: the times are read first... *)
StatForUtimens(c) ==
    LET p == call[c].path IN
    /\ provider # "c" /\ Serve(c, "utimens")
    /\ IF Lstat(p) = "ok"
         THEN rq' = [rq EXCEPT ![c].pc = "times", ![c].old = tree[p]]
         ELSE Respond(c, Lstat(p))
    /\ UNCHANGED <<provider, tree, call, st, res, got, lst, effects, gone>>

(* ...and both are set, an omitted one to the value that was read *)
SetForUtimens(c) ==
    LET k == call[c]
        n == rq[c].old IN
    /\ rq[c].pc = "times"
    /\ Apply(c, SetTimes(k.path, NewTime(n.atime, k.atime), NewTime(n.mtime, k.mtime)))

(* opendir; os.ReadDir and os.listdir open the directory too *)
OpenDir(c) ==
    LET p == call[c].path IN
    /\ Serve(c, "list")
    /\ IF Lstat(p) # "ok" \/ ~IsDir(p)
         THEN Respond(c, IF Lstat(p) = "ok" THEN "ENOTDIR" ELSE Lstat(p)) /\ lst' = lst
         ELSE LET names == ChildNames(tree, tree[p].id) IN
              /\ rq' = [rq EXCEPT ![c].pc = "list"]
              /\ lst' = [lst EXCEPT ![c] =
                           [dir |-> tree[p].id, open |-> TRUE, failed |-> FALSE,
                            always |-> names, ever |-> names, todo |-> {}, seen |-> {}]]
    /\ UNCHANGED <<provider, tree, call, st, res, got, effects, gone>>

(* one readdir of the C provider; its buffer may hold names since removed *)
ReadEntry(c) ==
    /\ provider = "c" /\ rq[c].pc = "list" /\ lst[c].todo = {}
    /\ \E n \in lst[c].ever \ lst[c].seen :
          lst' = [lst EXCEPT ![c].todo = {n}, ![c].seen = @ \cup {n}]
    /\ UNCHANGED <<provider, tree, call, st, res, got, rq, effects, gone>>

(* Go and Python read all names before they look at the entries *)
ReadNames(c) ==
    /\ provider # "c" /\ rq[c].pc = "list" /\ lst[c].todo = {} /\ lst[c].seen = {}
    /\ \E names \in SUBSET lst[c].ever :
          /\ names # {} /\ lst[c].always \subseteq names
          /\ lst' = [lst EXCEPT ![c].todo = names, ![c].seen = names]
    /\ UNCHANGED <<provider, tree, call, st, res, got, rq, effects, gone>>

EntryType(p) == IF Lstat(p) = "ok" /\ IsDir(p) THEN "dir" ELSE "file"

AddEntry(c, n) ==
    /\ rq' = [rq EXCEPT ![c].entries = @ \cup {<<n, EntryType(Append(call[c].path, n))>>}]
    /\ lst' = [lst EXCEPT ![c].todo = @ \ {n}]
    /\ UNCHANGED <<provider, tree, call, st, res, got, effects, gone>>

(* Slip: an entry that lstat does not find is left out *)
StatEntryOrSkip(c) ==
    /\ rq[c].pc = "list"
    /\ \E n \in lst[c].todo :
          IF Lstat(Append(call[c].path, n)) = "ok" THEN AddEntry(c, n)
          ELSE /\ lst' = [lst EXCEPT ![c].todo = @ \ {n}]
               /\ UNCHANGED <<provider, tree, call, st, res, got, rq, effects, gone>>

(* Slip: an entry that lstat does not find fails the listing *)
StatEntryOrFail(c) ==
    /\ rq[c].pc = "list"
    /\ \E n \in lst[c].todo :
          LET e == Lstat(Append(call[c].path, n)) IN
          IF e = "ok" THEN AddEntry(c, n) ELSE Answer(c, e)

(* lstat of an entry, by path: the C and Python providers take what they    *)
(* do not find for a file                                                   *)
StatEntry(c) ==
    /\ provider # "go" /\ rq[c].pc = "list"
    /\ \E n \in lst[c].todo : AddEntry(c, n)

(* handleList of Go returns the error of lstat *)
GoStatEntry(c) ==
    /\ provider = "go" /\ rq[c].pc = "list"
    /\ \E n \in lst[c].todo :
          LET e == Lstat(Append(call[c].path, n)) IN
          IF e = "ok" THEN AddEntry(c, n) ELSE Answer(c, e)

(* every name that readdir owes has been looked at *)
EndList(c) ==
    /\ rq[c].pc = "list" /\ lst[c].todo = {} /\ lst[c].always \subseteq lst[c].seen
    /\ Answer(c, "ok")

(* readdir returns NULL for an error, too, and handle_list takes that for   *)
(* the end: what was read is sent as the listing                            *)
ReaddirFails(c) ==
    /\ provider = "c" /\ rq[c].pc = "list" /\ lst[c].todo = {}
    /\ lst' = [lst EXCEPT ![c].failed = TRUE]
    /\ Respond(c, "ok")
    /\ UNCHANGED <<provider, tree, call, st, res, got, effects, gone>>

(* no memory, no permission, no space, a name or a listing too long for the *)
(* handler's buffers, or - os.ReadDir, os.listdir - a directory that cannot *)
(* be read: the error reply, and nothing has changed                        *)
HandlerFails(c) ==
    /\ rq[c].pc \in {"sent", "times", "rename", "list"}
    /\ Answer(c, "EACCES")

-----------------------------------------------------------------------------
(* The client *)

(* a FUSE callback calls the library, which sends one request *)
Start(c) ==
    /\ st[c] = "idle"
    /\ \E k \in Program : call' = [call EXCEPT ![c] = k]
    /\ st' = [st EXCEPT ![c] = "wait"]
    /\ rq' = [rq EXCEPT ![c].pc = "sent"]
    /\ UNCHANGED <<provider, tree, res, got, lst, effects, gone>>

Return(c, err) ==
    /\ st' = [st EXCEPT ![c] = "done"]
    /\ res' = [res EXCEPT ![c] = err]

(* a call that sends nothing: a rename with flags, or a path that fits no  *)
(* URL or body                                                              *)
Refused(c) ==
    /\ st[c] = "idle"
    /\ \E k \in Program :
          /\ call' = [call EXCEPT ![c] = k]
          /\ Return(c, IF k.op = "rename" THEN "EINVAL" ELSE "ENAMETOOLONG")
    /\ UNCHANGED <<provider, tree, got, rq, lst, effects, gone>>

(* Slip: a request that fails is sent again *)
RequestFailsRetry(c) ==
    /\ st[c] = "wait" /\ rq[c].pc = "reply"
    /\ rq' = [rq EXCEPT ![c] = [NoReq EXCEPT !.pc = "sent"]]
    /\ UNCHANGED <<provider, tree, call, st, res, got, lst, effects, gone>>

(* Slip: the CURLcode is returned for an errno *)
RequestFailsCurlCode(c) ==
    /\ st[c] = "wait"
    /\ Return(c, "CURLE_OPERATION_TIMEDOUT")
    /\ UNCHANGED <<provider, tree, call, got, rq, lst, effects, gone>>

(* curl gives up: the request or its reply is lost, or late; its handler   *)
(* may have run, may be running, may run later or never                    *)
RequestFails(c) ==
    /\ st[c] = "wait"
    /\ Return(c, "EIO")
    /\ UNCHANGED <<provider, tree, call, got, rq, lst, effects, gone>>

(* Slip: HTTP status 200 is taken for success *)
ReplyPostStatusOnly(c) ==
    /\ st[c] = "wait" /\ rq[c].pc = "reply" /\ call[c].op \notin {"meta", "list"}
    /\ Return(c, "ok")
    /\ UNCHANGED <<provider, tree, call, got, rq, lst, effects, gone>>

(* post_path_only, httpfs_rename_path, httpfs_update_times *)
ReplyPost(c) ==
    /\ st[c] = "wait" /\ rq[c].pc = "reply" /\ call[c].op \notin {"meta", "list"}
    /\ Return(c, rq[c].err)
    /\ UNCHANGED <<provider, tree, call, got, rq, lst, effects, gone>>

(* httpfs_get_meta, for getattr and open *)
ReplyMeta(c) ==
    /\ st[c] = "wait" /\ rq[c].pc = "reply" /\ call[c].op = "meta"
    /\ Return(c, rq[c].err)
    /\ UNCHANGED <<provider, tree, call, got, rq, lst, effects, gone>>

(* httpfs_list_dir: more tokens than parse_ok_response allows are EIO *)
ReplyList(c) ==
    /\ st[c] = "wait" /\ rq[c].pc = "reply" /\ call[c].op = "list"
    /\ IF rq[c].err = "ok" /\ Cardinality(rq[c].entries) > MaxListed
         THEN Return(c, "EIO") /\ got' = got
         ELSE /\ Return(c, rq[c].err)
              /\ got' = [got EXCEPT ![c] = IF rq[c].err = "ok" THEN rq[c].entries ELSE {}]
    /\ UNCHANGED <<provider, tree, call, rq, lst, effects, gone>>

-----------------------------------------------------------------------------
Handler(c) ==
    \/ HandleMeta(c) \/ HandleCreateFile(c) \/ HandleCreateDir(c)
    \/ HandleRemoveFile(c) \/ HandleRemoveDir(c) \/ GoLookAtNewName(c) \/ HandleRename(c)
    \/ HandleUtimens(c) \/ StatForUtimens(c) \/ SetForUtimens(c)
    \/ OpenDir(c) \/ ReadEntry(c) \/ ReadNames(c) \/ StatEntry(c) \/ GoStatEntry(c)
    \/ EndList(c) \/ ReaddirFails(c) \/ HandlerFails(c)

Finished ==
    /\ \A c \in Client : st[c] = "done" /\ rq[c].pc \in {"none", "reply"}
    /\ UNCHANGED vars

Next ==
    \/ \E c \in Client :
          Start(c) \/ Refused(c) \/ RequestFails(c) \/ Handler(c)
          \/ ReplyPost(c) \/ ReplyMeta(c) \/ ReplyList(c)
    \/ Finished

Spec == Init /\ [][Next]_vars

-----------------------------------------------------------------------------
(* Properties *)

Errno == {"ok", "EIO", "ENOENT", "ENOTDIR", "EISDIR", "EEXIST", "ENOTEMPTY", "EINVAL",
          "EACCES", "ENAMETOOLONG", "ENOSPC"}

(* Every variable keeps its type; in particular a call only ever returns   *)
(* a POSIX errno to FUSE, also when http_request_ex fails, and a listing   *)
(* only looks at names that readdir has returned.                          *)
TypeOK ==
    /\ provider \in Providers
    /\ \A c \in Client : call[c] \in IF st[c] = "idle" THEN {NoCall} ELSE Program
    /\ st \in [Client -> {"idle", "wait", "done"}]
    /\ res \in [Client -> Errno]
    /\ \A c \in Client :
          /\ rq[c].pc \in {"none", "sent", "list", "times", "rename", "reply"}
          /\ rq[c].err \in Errno
          /\ lst[c].todo \subseteq lst[c].seen
    /\ \A p \in DOMAIN tree : tree[p].kind \in {"file", "dir"}

(* The tree stays one: everything in it is in a directory that exists, no   *)
(* file or directory has two names, and none vanishes but by a removal or   *)
(* by a rename that replaces it - whatever order the handlers run in and    *)
(* however renames of directories meet creations below them.                *)
TreeSound ==
    /\ \A p \in DOMAIN tree : \A q \in Parents(p) : IsDir(q)
    /\ \A p, q \in DOMAIN tree : tree[p].id = tree[q].id => p = q
    /\ Ids(tree) \cup gone = Ids(InitTree) \cup
          {c \in Client : effects[c] > 0 /\ call[c].op \in {"create", "mkdir"}}

(* Two clients that create the same path are not both told that they did:   *)
(* each acknowledged create-file and create-dir made a node of its own,     *)
(* which is there until somebody removes it (O_EXCL).                       *)
CreateExclusive ==
    \A c \in Client :
        st[c] = "done" /\ res[c] = "ok" /\ call[c].op \in {"create", "mkdir"} =>
            c \in Ids(tree) \cup gone

(* What a call returns is what happened: ok exactly when its change was     *)
(* made, once; an errno of the server only when nothing was changed.  Two   *)
(* errnos leave it open: EIO, which a timeout gives, and what the Go and    *)
(* Python providers pass on from closing a file they have created.  Even    *)
(* then the change is made at most once.                                    *)
ResultHonest ==
    \A c \in Client :
        /\ effects[c] <= 1
        /\ st[c] = "done" /\ call[c].op \notin {"meta", "list"} =>
              /\ res[c] = "ok" => effects[c] = 1
              /\ res[c] \notin {"ok", "EIO"} =>
                    effects[c] = 0 \/ (call[c].op = "create" /\ res[c] \in CloseErrors)

(* A listing that succeeds shows every entry that was in the directory all  *)
(* the time, also when the directory is renamed or replaced meanwhile - if  *)
(* the directory could be read: after an error of readdir handle_list of    *)
(* the C provider sends what it has, as a success.                          *)
ListComplete ==
    \A c \in Client :
        st[c] = "done" /\ res[c] = "ok" /\ call[c].op = "list" /\ ~lst[c].failed =>
            \A n \in lst[c].always : \E e \in got[c] : e[1] = n

(* Listing a directory that exists does not fail with ENOENT or ENOTDIR     *)
(* because of what happens to its entries.  (The Go provider does not keep  *)
(* this: handleList returns the error of the first entry it cannot lstat.)  *)
ListFailsOnlyIfMissing ==
    \A c \in Client :
        provider # "go" /\ st[c] = "done" /\ call[c].op = "list" /\ lst[c].open =>
            res[c] \notin {"ENOENT", "ENOTDIR"}

RequestDone(c, op) == call[c].op = op /\ rq[c].pc # "reply" /\ rq'[c].pc = "reply"

(* What no request asked for does not change.  remove-file removes no       *)
(* directory and remove-dir no file, even when another client has replaced  *)
(* one by the other since the caller looked.  (The Go provider does not     *)
(* keep this, although docs/http-api.md has "### 7. Remove File" and "### 8.*)
(* Remove Directory": os.Remove takes either.)                              *)
RemovesItsKind ==
    \A c \in Client : \A p \in DOMAIN tree \ DOMAIN tree' :
        provider # "go" =>
           /\ RequestDone(c, "unlink") => tree[p].kind = "file"
           /\ RequestDone(c, "rmdir") => tree[p].kind = "dir"

(* A file keeps its time, wherever renames take it, until an update-times   *)
(* that sets this time: one that omits it (UTIME_OMIT) cannot undo what     *)
(* another client has just set.  (The Go and Python providers do not keep   *)
(* this: they set an omitted time to the value they have read before.)      *)
KeepsOmittedTimes ==
    provider = "c" =>
        \A p \in DOMAIN tree, q \in DOMAIN tree' :
            tree[p].kind = "file" /\ tree'[q].id = tree[p].id =>
                /\ tree'[q].atime = tree[p].atime \/
                     \E c \in Client : RequestDone(c, "utimens") /\ call[c].atime # UTIME_OMIT
                /\ tree'[q].mtime = tree[p].mtime \/
                     \E c \in Client : RequestDone(c, "utimens") /\ call[c].mtime # UTIME_OMIT

(* No step changes what it was not asked to: the two together. *)
OnlyWhatIsAsked == [][RemovesItsKind /\ KeepsOmittedTimes]_vars

=============================================================================
