# A TLA+ model of HTTP User FileSystem

The repository mounts a directory that lives behind an HTTP API. A kernel FUSE
request becomes one or more HTTP requests (`src/src/httpfs_fuse.c`,
`src/src/http_client.c`), which a *service provider* carries out on a directory
of its own machine. Three providers are included, in C, Go and Python. This
directory holds a model of the program, the TLC runs that check it on small
instances, and proofs, checked by TLAPS, for instances of every size.

Paths below are relative to the repository, mounted as `src/`.

## 1. Inventory

| Component | State it keeps | Operations | Talks to | What is hard |
|---|---|---|---|---|
| C provider, threads (`httpfs_server.c` 946-1069, 1168-1412) | `g_stop_server`, queues of accepted descriptors under a mutex, notify pipes, epoll sets | accept loop, enqueue and wake, epoll loop, shutdown | clients, signals | interleaving of main and workers, recycled descriptors, signals between two instructions, partial start |
| C provider, connection (229-260, 876-944, 1030-1166) | the receive buffer, bytes received, header end, Content-Length | grow, receive, frame, process, close | one client | off-by-one at buffer ends, `size_t` wrap, any segmentation, a 0 from `recv` |
| Chunked I/O (`http_client.c` 672-849, `hash_utils.c`, `httpfs_server.c` 189-227, 539-678, 776-793) | bytes done so far; the file | read, write, truncate | providers, other clients | damage, loss, timeouts while the server goes on, concurrent writers, failure after some chunks |
| Directory tree (`httpfs_fuse.c`, `http_client.c` 466-670 and 851-1027, handlers of the three providers) | the tree | meta, list, create, mkdir, unlink, rmdir, rename, utimens | providers, other clients | handlers of several system calls, listing a directory that changes, late requests |
| Requests and answers (`http_client.c` 94-464, `json_utils.c`, `jsmn.h`, `httpfs_server.c` 52-187 and 262-515, handlers of Go and Python) | the texts of a request and its answer | escape, build, decode, tokenise, look up | client, providers | names that look like syntax, a dozen limits that differ, errors that come with status 200 |
| Answer arrays of the C provider (`httpfs_server.c` 93-187, 437-537) | arrays on stack and heap, `pos` | append entries, print header and body | client | `snprintf` returns more than it wrote |
| MD5 (`hash_utils.c`) | block buffer, bit count | update, final, sample | both sides must agree | the end of a message at every place of a block |
| Scripts and command lines | processes | mount, restart, test | providers | order of kill, wait and mount |

What makes each correct:

* threads: no connection is forgotten between the accept and a worker; while the
  server runs every open descriptor has exactly one holder, who closes it once;
  nothing freed is used; requests are answered; a stop reaches every worker, and
  leaves no connection that nobody had adopted;
* connection: the buffer is never overrun, requests are taken for complete
  exactly when they are, and a client is not dropped or refused without a reason;
* chunked I/O: what is acknowledged is stored, what is read was stored, what is
  refused changes nothing, and a call returns;
* directory tree: it stays a tree; a call's result is what happened; creation is
  exclusive; listings are complete; what no request asked for does not change;
* requests and answers: both sides mean the same path, numbers, entries, outcome
  and error, whatever characters a name has and however long it is; no array is
  overrun, and nothing is cut off without an error;
* MD5: the digest is that of the padded sampled bytes, as libraries compute it.

`PROJECT.json` lists the places in the code where these can go wrong
("hazards"), with the properties that would notice.

## 2. Modules

| Module | Models | Runs | Proofs |
|---|---|---|---|
| `WorkerPool` | threads of the C provider | `pool_safety`, `pool_liveness`, `pool_shutdown`, `pool_signal` | `WorkerPoolProofs` |
| `ConnectionService` | what those threads promise (abstract); `WorkerPoolService` has the mapping | `pool_liveness`, `pool_shutdown` | `WorkerPoolProofs` |
| `Connection` | one connection of the C provider | `connection` | `ConnectionProofs` |
| `ChunkIo` | reads, writes and truncates of a file, client and three providers | `chunk_io`, `chunk_service` | `ChunkIoProofs` |
| `FileService` | what they promise (abstract); `ChunkIoService` has the mapping | `chunk_service` | `ChunkIoProofs` |
| `Namespace` | directory operations, FUSE to file system, three providers | `namespace` | `NamespaceProofs` |
| `JsonText`, `Wire` | requests and answers as texts, three providers | `wire`, `wire_meta` | `WireTextProofs`, `WireProofs` |
| `AnswerBuffers` | lengths of the C provider's answers | `answer_buffers` | `AnswerBuffersProofs` |
| `SparseMd5` | MD5's buffering and padding, and the sampling | `sparse_md5` | `SparseMd5Proofs` |

`MC...` modules give the constants their values. Definitions introduced by
`Slip:` are deliberate mistakes; no specification uses them. Each is a change a
programmer might make to the definition below it, and makes some property fail,
which shows that the property depends on that code.

### WorkerPool

`mpc` is where `httpfs_server_run` is, `wpc[w]` where `worker_thread_main` of
worker `w` is. One action is one stretch of code without a visible interaction
with another thread: `EnqueuePendingFd` is the append under `queue_mutex`,
`WakeWorker` the write to the pipe after it, `DrainNotifyPipe` the reads until
the pipe is empty, `DequeuePendingFd` one removal under the mutex. `events[w]`
is what `epoll_wait` has returned and the loop has not handled, with the
hang-up flags *of that moment*. `open`, `reg` and `conn` are the kernel's view:
`Close` frees a descriptor number at once and `Accept` may return it again,
as the kernel does. `destroy_worker` closes the epoll set and with it its
registrations, but not the connections the worker had adopted: their descriptors
stay open, nobody holds them, and only the end of the process closes them. `left`
is the set of these (`JoinWorker`). Every call that may fail has an action for it: a worker that cannot
be started, the socket calls, `accept`, `fcntl`, `malloc`, `EPOLL_CTL_ADD`.

A connection is closed after one request. What a request does is left to the
other modules: here it is `RequestPieces` segments, after each of which `Recv`
goes on or reaches `process`; `RecvRejects` covers every request the framing
code refuses.

Signals: the code is built with `-std=c11` and `_POSIX_C_SOURCE`, so `signal()`
has System V semantics: calls are interrupted and not restarted, and the
handler is reset after the first signal (`SignalAgain` kills the process). The
signal may be delivered to main (`SignalMain`) or to any worker (`SignalWorker`), and
`signalled` says to which. Main is at `check` before the test of `g_stop_server`
(line 1379), at `enter` between the test and `accept` (1380), and at `accept` when it
sleeps there; `EnterAccept` goes from the second to the third. A signal that main
takes at `accept` interrupts the call, one at `enter` only sets the flag. `SendKilled` is the SIGPIPE
that `send` raises on a connection that was reset. The death of the process
(`Kill`) gives everything back to the kernel.

`ConnectionService` forgets epoll, pipes, locks and program counters. A
connection is at the door (`mfd`), in the line of one worker, among those it has
adopted, or the one it serves; when a worker is destroyed those it has adopted are
`abandoned`. `WorkerPoolService` says how the variables of
`WorkerPool` give this state: a descriptor that a worker has taken from its queue
and not yet added to epoll is still first in line, and `recv`, `process` and
`send` are the stages of a request. A step of a thread that is none of the
service's (waking, draining, waiting) leaves the mapped state alone.

### Connection

One connection from `add_client_to_worker` to `close_connection`. Bytes are
replaced by the numbers the code computes from them: where the header ends
(`req.header`, 0 for never), what `strtol` gives for Content-Length, and what it
gives when `process_request_buffer` looks again (`req.again`, which may differ
only when the header has no Content-Length and the body looks like one). The
client sends the bytes in any portions, may send more than it announced, and may
close or reset at any moment. `ensure_connection_capacity` is modelled loop
iteration by loop iteration, and `TotalRequired` and `RecvLength` are reduced
modulo `Word`, the number of values of a `size_t`.

### ChunkIo

Clients, each with one call on the same file. `SendRequest` is the head of the
loops of `httpfs_read_file` and `httpfs_write_file`, `ReplyWrite` and `ReplyRead`
the rest with its checks; `ArriveWrite`, `Pwrite` (once per `pwrite` of
`pwrite_full`) and `Verify` are the steps of `handle_write` between which other
workers run. The network may alter a byte, or lose a request; a client may give
up at any time (`RequestFails`) and its request be carried out later. An MD5 is
the sequence of sampled bytes, so there are no collisions, and damage at an
offset that is not sampled is not noticed, as documented. `cut`, `touched` and
`acked` are history variables for the properties. The providers differ in
`Verify`: of a file that has been truncated since, C and Go report an error,
Python compares the MD5 of what is left. `SparseMd5` says which bytes the loop of
`httpfs_sparse_md5_hex` takes, in order: byte `k` of the digest is the byte at the
`k`-th sampled place (`Picks`, `Nth`). `ProgramAssumption` is what FUSE passes:
offsets and sizes that are not negative, and a buffer of the size it says.

`FileService` forgets requests and messages: a call advances chunk by chunk; a
write may change its current chunk at any time until the call has succeeded, also
after it has failed (a late request), at sampled offsets only to the caller's
bytes; a positive answer exists only if the file held the sampled bytes of the
chunk at that moment. The mapping (`ChunkIoService`) takes a reply on its way to a
client that still waits for the answer.

### Namespace

Clients, each with one call. POSIX system calls are atomic operators on the tree
(external: modelled from how the handlers use them); each handler is an action
per system call. `handle_list` opens, reads a name, looks it up *by path*, and
so on; the Go and Python providers read all names first. `readdir` gives what
POSIX promises: a name that stays in the directory is returned, one that comes
or goes may be. It may also fail: the loop of the C provider takes the error for the end
of the directory and sends what it has as a success (`ReaddirFails`, which sets
`failed`); the others report it. `handle_utimens` of the C provider is one
`utimensat`; those of Go and Python read the times and write them. Go's `os.Rename`
looks at the new name before it renames (`GoLookAtNewName`). A handler may fail at
each of its system calls (`HandlerFails`), and the Go and Python providers pass on the
error of closing a file they have created (`Change` with one of `CloseErrors`): the
file is there all the same. Nodes carry the identity of the
call that made them. The disk at the start is any tree with nodes of different
identities (`TreeAssumption`), paths are sequences of names (`CallAssumption`: FUSE
passes absolute, normalised ones). `.` and `..`, links, ownership and modes are left out, and
truncation is in `ChunkIo`. A lost request is one whose handler never runs. Go's
`os.Remove` (unlink, then rmdir) is taken as atomic: only its second call can
act when the first has failed.

### JsonText and Wire

A text is a sequence of symbols: single characters that matter (`quote`,
`bslash`, `pct`, brackets), a character for each class that some step treats in its
own way (`nl` has a short escape all know, `bsp` one that the C provider does not,
`ctl` needs `\u00xx`, `lt` is escaped by Go only, `eacute` by Python only, `latin` is
no UTF-8), and words that are never split (a key, a number, a file type).
`JsonText` has the operators that work on texts: escaping in the client's and in
each provider's way, jsmn's tokeniser (whole, with its token limit and errors),
`token_to_string` and the walk over tokens that `find_object_value` makes.
`Wire` is one call: the client builds URL and body, the C provider cuts the request
line into its arrays, URL-decodes or looks for keys with `strstr`, the Go and
Python libraries decode by the standards (external), the handler succeeds or
fails, each provider writes its answer with members in its own order, and the
client tokenises it and takes out what it needs. A read's data come as
`application/octet-stream`; of headers only this is modelled. Which errno a handler
fails with, and what it does to files, is left to `Namespace` and `ChunkIo`.

Every loop over a text is a recursive function of the place in the text, so that the
state of `jsmn_parse`, `url_decode` or `json_get_string` after each symbol has a name
and can be reasoned about.

### AnswerBuffers

Texts are replaced by their lengths. `Written` is `snprintf`: it stores what fits
and returns what would have been needed. `AddEntry` is one turn of the loop of
`handle_list` with its test of `pos` against the array (`ListSlack`); `HandleMeta`,
`SendErrorJson`, `HandleWrite` and the two header functions print into arrays of fixed
or computed size. `whole` is the length the answer should have.

### SparseMd5

`md5_update` is a function on the context (bit count, buffer, and in place of the
digest's state the sequence `fed` of bytes given to `md5_transform`). The buffer
starts with bytes that stand for uninitialised memory. `Sample` is one turn of the
loop of `httpfs_sparse_md5_hex`, `Pad` and `AppendLength` are the two updates of
`md5_final`.

## 3. Runs, bounds and what they show

| Run | Bounds | States | Checks |
|---|---|---|---|
| `pool_safety` | 2 workers, 2 descriptors, pipe of 1 byte, 2 events, 1 segment | 1.4 M | `TypeOK`, `NoLostWakeup`, `FdOwnership`, `NoDanglingEvent`, `WorkerLifetime`, `NoOrphanAtReturn` |
| `pool_liveness` | 1 worker, 2 descriptors, 1 event, 2 segments | 128 k | `QueueServed`, `RequestServed`, `ImplementsService` |
| `pool_shutdown` | 2 workers, 1 descriptor, 2 events, 1 segment | 114 k | `WorkersStop`, `ShutdownCompletes`, `ImplementsService` |
| `pool_signal` | 1 worker, 1 descriptor | 2.9 k | `SignalLeadsToExit`, violated |
| `connection` | sizes 3 and 16, `size_t` of 64 values, 5 header lengths, 6 Content-Lengths | 389 k | `TypeOK`, `BufferSafe`, `ZeroRecvOnlyWhenFull`, `FramingSound`, `AnswerJustified`, `RequestEnds` |
| `chunk_io` | file of 4 bytes, chunks of 2, every second byte sampled; a writer of 2 chunks, a second writer or truncate, a reader; 3 providers | 2.0 M | `TypeOK`, `AckedChunksStored`, `StoredMismatchMeansOverlap`, `ReadAfterWrite`, `RejectedWriteLeavesFile` |
| `chunk_service` | a writer and any other call on the same bytes, also of size 0; 3 providers | 71 k | `ImplementsFile`, `CallReturns` |
| `namespace` | 3 clients, each with any of 10 calls on 4 nodes; 3 providers | 1.2 M | `TypeOK`, `TreeSound`, `CreateExclusive`, `ResultHonest`, `ListComplete`, `ListFailsOnlyIfMissing`, `OnlyWhatIsAsked` |
| `wire` | 65 paths and directories of up to 6 entries, every operation; scaled limits; 3 providers | 18 k | `ServerSeesCall`, `ListingFaithful`, `OutcomeTold`, `TokensFit`, `ErrnoIsPosix` |
| `wire_meta` | the same, C provider | - | `MetaOfAnyName`, violated |
| `answer_buffers` | the sizes of the code; shortest and longest names, paths, messages and numbers | 524 k | `RoomLeft`, `AnswerWhole` |
| `sparse_md5` | blocks of 5 bytes with a length of 2, every second byte, chunks of up to 12 bytes at several offsets | 369 k | `DigestOfPadded` |

Why the bounds are enough. *Pool*: with one-byte pipes every second wake-up
meets a full pipe; two descriptors are enough for one to be recycled while the
other is in a queue, a batch or a handler; `MaxEvents = 1` with three sources
makes epoll leave ready sources behind. Two segments make a request that arrives
in parts (`pool_liveness`); one is enough elsewhere. *Connection*: 3 doubles to
6, 12 and then 16, so the limit is reached by a doubling that would pass it; the
headers end before, at and beyond every capacity; the lengths are the extreme
values of a `long`, 0 and those that just fit and just do not fit with the NUL.
*Chunks*: two chunks, the second short; one sampled and one unsampled byte per
chunk; an overlapping and a neighbouring second writer. *Tree*: three calls are
enough for an operation, a change under it and a replacement. *Wire*: the limits
are small numbers of symbols, in the order of the code's (`EndpointSize` =
`UrlSize` <= `RawUriSize`, `PathSize` and `LocalSize` beyond what an endpoint can
carry, `EscapedSize` larger still), and the paths have every length around each
of them, plain and with characters that double when escaped; `MaxTokens` is half
of the largest token array and up to four times the others, as 512 is, and the directories go to
both sides of it. Every class of character occurs alone, in the middle of a name
and beside syntax. *MD5*: messages of 0 to 6 sampled bytes, blocks of 5, cover every
place a message can end at, with the second block of padding and without.

`pool_liveness` and `pool_shutdown` check the refinement with two connections and
with two workers; both at once are within reach only of the invariants of
`pool_safety`. That run takes states for the same that differ only in which thread took
the first signal (`SafetyView`): no action asks for it, and no invariant but
`TypeOK`, which allows both.

Model values are symmetric in `pool_safety` (descriptors) and in `namespace`
(clients); no liveness is checked there.

### Fairness

`WorkerPool!FairSpec`: threads run when they can (weak fairness of each worker
and of main), except that nobody has to connect: main's fairness leaves out
`accept`. The kernel's ready list rotates, so a source that is ready again and
again is returned by some `epoll_wait` (strong fairness of `Returns`). A blocking
`send` ends because the client reads or goes away; the code has no timeout there.
`Connection!FairSpec`: the worker handles the connection, and the client sends
its whole request; the code has no timeout for one that does not.
`ChunkIo!FairSpec`: only the client's own steps, among them curl's timeout
(`CURLOPT_TIMEOUT_MS`, 5000 in `httpfs_fuse_main`); nothing is assumed of
server and network.

### Where the code and what is said of it differ

* `pool_signal`: `scripts/run_provider_integration.sh` ends the server with
  `kill` and waits for it. A signal that main takes between the test of
  `g_stop_server` (line 1379) and `accept` (1380) stops the workers (`WorkersStop`
  holds) but not main, which sleeps in `accept` until somebody connects. This is the
  counterexample: `CheckStop`, `SignalMain` at `enter`, `EnterAccept`, and the worker
  ends. `SignalLeadsToExit` is about signals that main takes; one that is
  delivered to a worker does not interrupt main's `accept` either.
* `wire_meta`: `docs/http-api.md:8` says that responses are JSON. `stat_to_json` of
  the C provider inserts the path as it is: with a quote or a backslash in it the
  answer is not JSON, and `getattr` of an existing file fails with EIO.
  `OutcomeTold`, which holds, is about the other paths (`Answerable`).

The properties of the passing runs name, in their comments and conditions, other
places where a provider does not do what its siblings or the document say:

* `docs/http-api.md` has a request that removes files and one that removes
  directories; both handlers of the Go provider call `os.Remove`, which does either
  (`RemovesItsKind`, a part of `OnlyWhatIsAsked`, holds for C and Python).
* `docs/http-api.md` allows `UTIME_OMIT`; the Go and Python providers replace it by
  the value they have read, so that a concurrent change of that time is lost
  (`KeepsOmittedTimes`, the other part, holds for C).
* `docs/http-api.md` says that `errno` is a POSIX number; the Python provider answers
  a body that is no UTF-8 with 400 (`ErrnoIsPosix` leaves that case out).
* The client escapes control characters as `\b`, `\f` or `\u00xx`; `json_get_string`
  of the C provider does not know these and refuses the request with EINVAL.
* `token_to_string` does not undo escapes: listings show `a\"b` for `a"b`, and all
  accented names of the Python provider as `\u` escapes. `ListingFaithful` says that a
  name is shown exactly as the provider wrote it.
* `docs/http-api.md:11` has file contents in `data_hex`; all three providers and the client send
  file data as `application/octet-stream`.

Not promised anywhere, and so not listed there, but visible in the model: the Go
provider fails the listing of an existing directory with ENOENT when an entry
vanishes (the property `ListFailsOnlyIfMissing` holds for the others); the C
provider shows a subdirectory as a file when its directory is renamed during the
listing, and sends the part it has read as a complete listing when `readdir` fails
(`ListComplete` leaves that case out); the Go and Python providers report the error of
closing a file they have created, though it exists (`ResultHonest` allows it); Go's
rename onto a directory, also an empty one, is EEXIST; a client that resets its connection ends
the C provider by SIGPIPE; any error of `accept` stops it, and a stop leaves the adopted
connections to the end of the process.

## 4. Proofs

`WorkerPoolProofs`, for any number of workers and descriptors, any pipe capacity,
batch size and request length (`PoolAssumption`: they are positive, and the two
special values are no descriptors):

* `TypeCorrect`. `TypeOK` alone is not inductive: appending `mfd` to a queue of
  descriptors keeps the type only when it is one. `HoldsFd` says so for every
  place where main or a worker is about to use a descriptor.
* `LifetimeCorrect`. `Lifecycle` states which workers exist at each point of
  `httpfs_server_run`: before the loop those below `started`, all of them in the
  accept loop (so that indexing by `next_worker % worker_count` is safe), those
  at or above `target` while they are joined. It implies `WorkerLifetime`.
* `WakeupCorrect`. `NoLostWakeup` is inductive together with the two: main
  appends before it writes, a write leaves the pipe non-empty also when it was
  full, a worker leaves `drain .. add` only by finding its queue empty, and only
  `DrainNotifyPipe` empties a pipe, on its way to the queue. `Lifecycle` is
  needed for workers that start: their queue is empty.

* `OwnershipCorrect`, `EventsCorrect`, `ReturnCorrect`. `FdOwnership` counts the
  holders of a descriptor, and lets only `destroy_worker` leave one open that has
  none; the proof goes place by place. `Ownership` says that main's hand, the
  queues, the hands of the workers between queue and epoll, and the epoll sets
  share no descriptor, that no queue has one twice, and that together they have
  exactly the open ones, but for those in `left`, which are in none of them. A
  destroyed worker's epoll set is empty; that it drops no connection which the
  worker is still to handle is `Rounds`: a worker leaves its loop only between two
  batches. `JoinIndex` says that the worker joined is one of the array. `MainTidy`
  says at which points main holds one, and that the queue of a destroyed worker
  has been emptied. `EventsTidy` says that a worker's batch names connections of
  its own epoll set, each once, and none that is also in its hand: this is why
  `close` followed by `accept` of the same number cannot be mistaken for the old
  connection. Neither follows without the other: an event stays valid only because
  nobody else can close its descriptor, and a worker closes only what it holds
  because its events are valid.

* `ServiceImplemented`: `Spec => ImplementsService`. One lemma for each action: it is
  an action of `ConnectionService` on the mapped state (`Accept` is `Admit`,
  `EnqueuePendingFd` is `Assign`, `AddClientToWorker` is `Adopt`, `DispatchClient` is
  `Turn`, the last `Recv` and `Process` are `Advance`, `SendAll` is `Hangup`, and so on),
  or leaves it alone. Removing
  the head of a queue leaves it alone because the head stays first in line while it
  is in the worker's hand.

`ConnectionProofs`, for any sizes with 2 <= InitSize <= MaxSize <= LONG_MAX, any
width of `size_t`, any request (`SizeAssumption`, `InputAssumption`):

* `TypeCorrect`, `BufferCorrect`, `ZeroRecvCorrect`, `FramingCorrect`. The invariant `Inv` has
  three parts beside `TypeOK`: what the caller of `ensure_connection_capacity`
  has established while it runs (`EnsureInv`), that a byte is always free and a
  full buffer is the largest (`BufferInv`), and that once the header is found its
  numbers are the request's and the buffer is large enough for all of it
  (`FrameInv`). `NoWrap` shows that the sums do not wrap: a `long` that is not
  negative and a buffer index are together less than 2^w.
* `AnswerCorrect`. An answer is justified at the moment it is decided, and what
  justifies it (the request, a failed call, the client's leaving) does not go away
  until the connection is closed. When the header states a length the second search
  of `process_request_buffer` finds the same one, so that it refuses a request for its
  length only when the header has none and the body looks like one.

`ChunkIoProofs`, for any clients and calls, any chunk sizes and stride, the three
providers, and a network that alters, loses and delays (`ChunkAssumption`,
`ProgramAssumption`):

* `TypeCorrect`, `AckedCorrect`, `StoredCorrect`, `ReadCorrect`, `RejectedCorrect`. The
  invariant `Inv` has, for each client, what its call knows of itself (`CallInv`), what
  is true of the request under way, and so of a late one (`RequestInv`), and of its
  answer (`AnswerInv`). All else rests on this: a request carries the MD5 of the
  caller's chunk, its data have that MD5 once the handler has checked it
  (`RequestInv`), and so they agree with the caller's bytes at every sampled place,
  whatever the network did; the lemma is `SameMd5` (equal sampled sequences at equal
  offset and length mean equal sampled bytes). `StoredInv` says
  that what `pwrite_full` has stored so far is still in the file unless `touched` says
  that another request changed the range. `AckInv` covers the acknowledged chunks
  *and* the one whose positive answer is on its way: the client acknowledges it later,
  when it can no longer look at the file. `ReadInv` says, of a read that was started
  after the acknowledgement, that the chunks it has, and the one on its way, contain
  what was due. `RejectedWriteLeavesFile` is an action property; it follows from
  `RequestInv`.

* `FileImplemented`: `Spec => ImplementsFile`. `Pwrite` is `Patch`; `Verify` with the right MD5 and a client that still waits
  is `Confirm`; `HandleRead` is `Fetch`; `HandleTruncate` is `Cut`, or `LateCut` when the
  client has given up; `ReplyWrite`, `ReplyTruncate` and `ReplyRead` are `Acknowledge`,
  `Deliver` or `Fail`; a call of size 0 is `Trivial`; every other way a call ends is
  `Fail`, and the rest is invisible. That a `Patch` stays inside the chunk the call is
  at is `RequestInv` again, and that a call that has succeeded has no request left that
  could write is `CallInv`.

`NamespaceProofs`, for any initial tree, names, clients and calls, three providers
(`TreeAssumption`, `CallAssumption`):

* `TypeCorrect`, `TreeCorrect`, `ResultCorrect`, `CreateCorrect`, `ListingCorrect`,
  `ListingErrnoCorrect`, `OnlyWhatIsAskedCorrect`. For each client `CallInv` ties where its handler
  is to how often its change has been made (not before the system call that makes
  it, once after it; the reply is then ok or, for a created file, an error of its
  close), `ResultInv` ties a returned errno to the
  handler's, to a refusal or to a call given up, and `ListInv` says that a name that
  was read is still to be looked up or is in the answer, and that a successful answer
  has every name that was in the directory all the time, unless `readdir` failed. `Sound` is the shape of the tree and `Accounted` that every node there ever
  was is in it or gone. Each system call has a lemma that it keeps the tree sound;
  that of `Rename` needs that no directory is moved below itself, and that `Moved` maps
  different paths to different paths. That no other call changes a time follows from
  `KeepsNodes`, one lemma for each system call: a node that was in the tree before is
  the same one after it, and by `Sound` there is only one with its identity.

`AnswerBuffersProofs`, for any sizes of the arrays that keep the margins of
`BufferAssumption` (which the code's sizes do) and any lengths of names, paths and
messages:

* `RoomCorrect`, `WholeCorrect`. While entries are added nothing has been cut off
  and the tail of the listing still fits (`ListInv`): the head leaves room for it and
  an entry is accepted only if `ListSlack` bytes remain behind it. The other answers
  are one `snprintf` each, and fit by the sum of their parts.

`SparseMd5Proofs`, for any block size, stride, chunk lengths and offsets
(`Md5Assumption`; the bit count of the longest chunk fits the bytes kept for it):

* `DigestCorrect`. `Taken(c, s)` says what it means that a context has taken a message
  `s`: the count of bits is that of `s`, `fed` is a whole number of blocks and the start
  of `s`, and the buffer's used part is the rest. `UpdateTaken` is that `md5_update`
  takes a message to the message with the input appended, by induction on the bytes of
  the input (`UpdateKeeps`, `UpdateFeeds`). The invariant `TakenInv` says which message
  the context has taken at each step of `httpfs_sparse_md5_hex`; `SampledNext` is the
  sampling loop, and `PadLengthHolds` that the padding fills the last block up to the
  place of the length. No byte of the uninitialised buffer is ever in `fed`.

`WireTextProofs` and `WireProofs`, for any calls, directories and names, three
providers and any limits in the order of the code's (`WireAssumption`):

* The lemmas of `WireTextProofs` are about texts of any length. An induction over the
  symbols of a text is an induction over a set of places (`SetInduction`), which follows from
  the least-element theorem for the naturals; the library's induction theorems cannot be
  used. `Has(t, n, s)` says that text `t` has `s` after place `n`, and the parser's
  state is followed from place to place: `DecodeEscaped` (a path comes out of
  `url_decode` as it went into `curl_easy_escape`), `QueryRead` (each key of a query is
  found, and nothing in a path is taken for one), `FlatLine` (the exact tokens of an
  object of strings and numbers), and those of the nested answers and of an array of
  entries.
* `WireInvariant`. `WireInv` says who has what when: a request that is a query holds its
  call's path and numbers, a handler of a query has seen exactly these, and an answer is
  an error text or the text that was asked for.
* `TokensAlwaysFit`. Errors have 7 tokens, and so on for each answer; a listing is
  limited by `MaxTokens`, which is half of its array.
* `ListingIsFaithful`. The tokens of a listing are known exactly as long as they fit:
  five for each entry, with names and types at the places where they were written. A
  name is opaque to the parser because escaping leaves no quote without a backslash.
* `OutcomeIsTold`. Each answer has its status where `find_object_value` looks, whatever
  comes before it. That the path of a `meta` answer fits `path[4096]` needs
  3 * EndpointSize <= MetaPathSize: a symbol of a path that fits an endpoint is escaped by
  at most six.
* `ErrorIsPosix`. The errno the client reads is the one `Reject` wrote (`MetaErrno`, and
  the status of each other answer), and each early return fills one in. For Python it needs that a body is
  UTF-8 when the call's paths are (`BodyUtf8`, `EscapedClear`).
* `ServerSeesAll`. For a query this is part of `WireInv`; for a call with a body the
  invariant is `Posted`: a request holds the body that was built of the escaped paths,
  and the handler has seen the call. `snprintf` cuts nothing off it, as `BodySlack` has
  room for the keys (`BodyNotCut`). In an escaped path each quote follows a backslash
  (`Guarded`), so the C provider's `strstr` finds the body's own keys only
  (`PathKeys`), and `json_get_string` fails or reads what `json_escape_string` was given
  (`UnquoteWhole`). The decoders of Go and Python read the same (`UnescapeWhole`,
  `BodyFound`).

Only model-checked is what must happen in the end (`QueueServed`, `RequestServed`,
`WorkersStop`, `ShutdownCompletes`, `RequestEnds`, `CallReturns`): liveness under fairness
is out of the prover's reach. Every invariant and action property of the passing runs is
proved.

## 5. Not modelled

* HTTP headers, but for the Content-Type of a read's answer and the numbers that
  `Connection` takes from them; `normalize_base_url` and `header_callback`.
* `md5_transform`: arithmetic on 32-bit words, taken to be a function of the blocks it
  is given. `hex_encode` and `hex_decode`, which only a unit test calls.
* net/http, encoding/json, Flask and curl, beyond what they do with a call's
  characters.
* Memory: buffers that are not freed on error paths.
* The kernel's FUSE caches: calls reach `httpfs_fuse.c` in any order.
* Command lines and the Dockerfile: sequential and without state. The scripts: what
  `restart_mount.sh` does about a stale mount depends on how `mkdir -p`,
  `mountpoint` and `fusermount` treat a dead mount, which nothing in the repository
  shows. What the integration script expects of a signal is `SignalLeadsToExit`.

## 6. Plan

1. Done: `WorkerPool`, `Connection`, `ChunkIo`, `Namespace`, first proofs.
2. Done: the abstract specifications `ConnectionService` and `FileService` and the
   refinements; the Go and Python providers' reads and writes; encoding and limits
   (`JsonText`, `Wire`, `AnswerBuffers`); MD5's buffering (`SparseMd5`).
3. Done: the safety properties of `WorkerPool`, `Connection`, `ChunkIo` and `Namespace`
   and both refinements are proved.
4. Done: `DigestOfPadded` of `SparseMd5`, and the properties of `Wire` for texts of any
   length, with queries and with bodies. Nothing of the plan is left; what could come next is
   in section 5.
