# matlab-zmq in TLA+

Specifications of the MATLAB binding to ØMQ in this repository: what its objects do to the libzmq
handles they wrap, how messages of several parts travel through its methods, what polling an array
of sockets tells, what becomes of option values on their way through tables and conversions, and the
request/reply protocol `zmq.CommandSocket` builds on all of it. The modules are checked by TLC on
small instances; theorems about all five parts, the objects, the messages, the poll loop, the options
and the protocol, are proved by TLAPS for every instance.

Paths below are relative to the repository root.

## The system

| component | state | operations | talks to |
|---|---|---|---|
| `zmq.Context` (`lib/+zmq/Context.m`) | `pointer`, `spawnedSockets` | constructor, `socket`, `get`/`set`, `close`, `term`, `delete`, implicit `makeContext` | calls `close` of the sockets it spawned, MEX functions `ctx_*` |
| `zmq.Socket` (`lib/+zmq/Socket.m`) | `pointer`, `bindings`, `connections`, `items` | constructor, `bind`/`unbind`, `connect`/`disconnect`, `poll`, `get`/`set`, `send*`/`recv*`, `close`, `delete` | MEX functions |
| `zmq.CommandSocket` (`lib/+zmq/CommandSocket.m`) | `Context`, `Socket`, `Running`, handler maps, callbacks | `start`, `connect`, `stop`, `sendCommand`, `sendResponse`, `processRequests`, `processOneRequest`, `registerCommand/Response` | one socket; handlers and callbacks of the user; a peer process |
| core MEX functions (`src/core/*.c`) | none of their own | one libzmq call each, plus the translation of its arguments, result and errno | libzmq |
| utilities (`src/util/*.c`) | option and error tables | conversions between MATLAB arrays and C values | MEX functions |
| `src/core/poll.c` | none | polls an array of sockets (`poll.m` is an empty file) | libzmq |
| `JeroSocket.m`, `lib/+jzmq` | like Socket and Context | the same interface over the Java library JeroMQ | JeroMQ |
| build scripts, benchmarks, examples | none that lasts | | |

libzmq itself is not in the repository. It is modelled from how the code uses it: which calls
succeed, what they change, and which errno they leave.

What makes each part correct:

* **Context and Socket.** The MATLAB objects and libzmq keep two views of the same resources. They
  must agree: no freed handle is used, no open one is forgotten, everything bound is in the list
  that `close` walks through, and `zmq_ctx_term`, which blocks MATLAB until the last socket is
  closed, has nothing to wait for.
* **CommandSocket.** REQ and REP sockets accept `send` and `recv` only in turn. Callbacks and
  handlers are the user's and may fail, say nothing, answer twice, answer half, or stop the server.
  Still every command is served once and answered once, with its own and whole response, and what the
  server owes it answers.
* **Message methods.** `send_multipart` sends a message with several calls, any of which may fail or
  block; `recv_multipart` receives it with several calls. Still what is received is one message, whole
  and in order, and what the sender is told (a byte count, an exception) lets it know.
* **Poll.** What a result promises still holds when the program comes to it; no socket starves.
* **Options.** A value that is set is what `get` answers, `get` answers in every state, and what it
  answers can be set again, whatever types, widths and buffers lie between.
* **MEX functions.** Every errno becomes an exception.

What is hard: operations that fail half-way with the error swallowed (`close`, `term`, the
constructor, the error path of the server loop); a context that dies under its sockets; the blocking
`zmq_ctx_term`; parts that stay staged in libzmq after a failure; sends that block on a full pipe;
results that are acted upon later than they were taken; timers that run inside `pause`; I/O threads that carry a message late or not at all
(linger 0); clients that restart or time out between request and reply. The list, with lines, is
`hazards` in `PROJECT.json`.

## Modules

| module | what it is |
|---|---|
| `Container` | abstract: what a context promises. Sockets are open or not; ending closes all at once |
| `ContextSocket` | Context.m and Socket.m over libzmq's handles; implements `Container` |
| `ContextSocket_proofs` | theorems about `ContextSocket` |
| `Rpc` | abstract: a command is asked, served once, and returns |
| `CommandSocket` | CommandSocket.m: a server and its clients; implements `Rpc` |
| `CommandSocket_proofs` | theorems about `CommandSocket` |
| `Channel` | abstract: messages are handed over whole, and taken whole, oldest first |
| `Multipart` | the `send*` and `recv*` methods over `send.c` and `recv.c`: one sender, one receiver, one pipe; implements `Channel` |
| `Multipart_proofs`, `MultipartCount_proofs` | theorems about `Multipart`: its pipe and its results; its byte counts and strings |
| `Poll` | `poll.c` and the loop the comment at its head shows, over pipes that libzmq's threads fill and empty |
| `Poll_proofs` | theorems about `Poll` |
| `Options` | `get` and `set` of sockets and contexts: the tables of `sockopt.c`, the conversions of `conversions.c`, `setsockopt.c`, `getsockopt.c`, `ctx_set.c`, `ctx_get.c` |
| `Options_proofs` | theorems about `Options` |
| `Induction` | lemmas the proofs share: induction over numbers, recursion, powers of 2 |
| `MC...` | instances for TLC |

Operators whose comment starts with "Mutant:" are deliberate bugs in the operator that follows.
Nothing uses them; substituting one makes the property it is paired with in `PROJECT.json` fail,
which shows that the property depends on that piece of code.

### ContextSocket

MATLAB runs one statement at a time and a MEX call returns before the next statement, so a method
is one action. The exception is `term`: `TermBegin` goes up to the call of `zmq_ctx_term`, then
`TermReturn` or `TermInterrupted`.

| variable | code |
|---|---|
| `ctxPtr`, `spawned` | `Context.pointer`, `Context.spawnedSockets` |
| `ptr`, `item` | `Socket.pointer` (`null` is `[]`, `zero` is 0), `Socket.items.socket` |
| `bindings`, `connections` | the cell arrays, as sets: `unbind` removes all equal entries |
| `ctx`, `open`, `bound`, `conn`, `stopped` | libzmq: its context, open sockets, endpoints, and the sockets that have read the stop command of a shut down context |
| `proc` | whether MATLAB runs, blocks in `zmq_ctx_term`, or has crashed |

Things worth knowing before reading it:

* The constructor's `try` without `catch` swallows every failure, its own `error` included:
  `Construct(s, FALSE)` leaves an object with pointer `[]`. `zmq_socket` may always fail (unknown
  type, no file descriptors), and must at the limit or without a live context (`MayOpen`).
* `Socket.close` (`CloseAll`) ends all bindings, then all connections, sets linger, closes, and only
  then clears the pointer, which no error path skips. `set('linger', 0)` throws on a socket that has
  read the stop command (`LingerRefused`); the `catch` then skips `zmq.core.close`.
* libzmq does not ask whether an endpoint was bound or connected: `zmq_unbind` and `zmq_disconnect`
  end both (`Endable`). So it is for tcp and ipc. Of an inproc endpoint that a socket has both bound
  and connected one call ends only one of the two; this is not modelled, and `EndpointsTracked` says
  nothing of that case.
* The help texts of `term` and `delete` disagree about the sockets of the context: `term` "does not
  cleanup the associated sockets" (`Context.m:105`), `delete`, which only calls `term`, is said to
  (120-121). `TermBegin` is the code, which closes them (111): see "What the documentation says and the
  code does not do".
* Pointers to memory that is not a socket (`[]`, or the handle in `items` after `close`) are
  undefined behaviour: `UseNull` and `Poll` either change nothing (an error) or crash.
* `Spec` mixes the classes with the core functions on the pointer `getPointer` exposes (`RawSocket`,
  `RawShutdown`). `ApiSpec` uses the classes alone and adds the one fairness assumption of the
  module, that `zmq_ctx_term` returns once no socket is open. Users are never assumed to act.

### CommandSocket

Client and server are MATLAB processes of their own. The model steps between the calls they make on
their sockets; a message travels `sent[c]` (client's pipe) → `queue` → `cur` (REP owes a reply) →
`outgoing[c]` (server's pipe) → `replies[c]` → `got[c]`. REP may send exactly while `cur` is not
empty; REQ may send exactly while `expecting` is false. A call out of turn throws EFSM.

| `spc` | where the server is |
|---|---|
| `out` | not in a call |
| `test` | the `while` condition, CommandSocket.m:274 |
| `recv` | `receiveObject`, 312 |
| `serve` | `OnMessage`, `OnCommand`, the lookup of the handler and the handler, 314-337 |
| `pause` | 280; timers may run here |
| `catch` | 281-298: `OnError`, then the error response |

What callbacks and handlers do is a *script*, the sequence of things they do to the server they run in:
`reply` (sendResponse), `refuse` (sendResponse of an error), `more` (a part sent with sndmore), `throw`,
`quit` (`Running = false`) and `stop` (`stop()`). A request is served by what the callbacks do
(`CallbackScripts`) followed by what the handler does (`Scripts` for those users register, `<<"reply">>` and
`<<"reply", "quit">>` for the built-in ones, `<<"refuse">>` for a command without a handler). A move that
throws, a send out of turn among them, ends the script and leads to `catch`, where `OnError` runs
(`ErrorScripts`), outside any try: if it throws, `processRequests` is left with the reply owed. `mode` tells
`processRequests()`, `processRequests(timeout)` and `processOneRequest()`, which has no catch, apart.
`start` may be called again: it replaces the context, and the one before, to which nothing refers any
more, closes its socket when it is deleted, as `stop` would.

`ServiceSpec` is a server that serves and clients that wait: fairness of the loop (MATLAB runs it,
a blocked recv wakes up when a request is there), of the I/O threads and of the clients' recv, and
the owner starts the server and calls `processRequests` again if it was left. `Spec` adds all its owners may do:
stop, kill, a second start, a failed bind (`start` ignores the status), timeouts on either side, restarts,
`processOneRequest`; only the loop is fair there. `DemoSpec` is `examples/command_socket_demo.m`: start, process,
and stop when `processRequests` has returned.

### Multipart

A message is a sequence of parts, a part the call that sent it, its number in that call and its length.

| variable | code |
|---|---|
| `calls` | per send: whether each part but the last has a `try` around it (`send_multipart` of a cell), the pieces it was asked to send, `nbytes`, and how it ended |
| `next` | the loop variable `m` of `send_multipart` |
| `staged` | libzmq: parts sent with SNDMORE whose message is not complete |
| `sent`, `taken`, `read` | libzmq's pipe: all messages accepted, how many of them were received, how many parts of the one after those |
| `receiving`, `buf`, `got` | the receiving method in progress, its buffer length, its variable `message` |
| `answer`, `received` | what the one that returned last returned, and all messages returned so far |

* `CountTells` and `ReturnedIsWhole` compare a count with `Total`, the sum of the lengths, and the parts
  of a call in a message with those it was to send. Both are recursive functions (`Sums`, `Selections`)
  rather than RECURSIVE operators, so that they can be proved about.
* A piece is a length and whether `send.c` accepts it (a uint8 row). `Chunks` is how `send_multipart`
  cuts an array: a column is cut into columns, which `send.c` refuses unless they have one element;
  the rest after the last full part is a part too, an empty one if the length is a multiple of the
  buffer length. Whether an empty part can be sent depends on what `mxCalloc(0)` returns: both happen.
* `SendFails` is every exception of `send.c`: a piece that is refused, an allocation, EAGAIN after
  SNDTIMEO on a full pipe. In a cell it is swallowed for all parts but the last; elsewhere the method
  throws. Either way what is staged stays staged: libzmq offers no way to take it back.
* libzmq asks for room in the pipe at the first part of a message only (`Full`).
* `RecvFails` is the end of a wait for a message: -1 for EAGAIN, which `recv_multipart` turns into `{}`
  (an empty `answer`; in `Channel` it is a `Miss`, a take from an empty channel) and on which `recv_string`
  fails, or an exception. libzmq delivers a message whole, so it cannot happen between two parts.
* Buffer lengths are positive (`BuffersAssumption`). With 0, the loop of `send_multipart` over the parts
  of an array is `1:Inf` (`Socket.m:299-300`) and sends an empty part for good; nothing here says more of it.

`Spec` assumes that MATLAB goes on with the method it is in: a part that can be sent is sent, one that
is refused throws, one that is there is received. It does not assume that a send on a full pipe ever
times out, as SNDTIMEO is -1 unless set. `ListeningSpec` adds a receiver that receives in a loop.

### Poll

The program in the comment at the head of `poll.c` (`poll.m` is empty): `place` is where it is (the array is filled, the
call is in progress, it looks at result `i`), `patient` that the timeout is -1. `Deliver` and `Drain`
are libzmq's threads, which may act at any time. `nitems` is `mxGetM`, hence `Shapes`. The program
receives one message from a socket that is ready for reading and sends one to a socket that is ready
for writing, with calls that block. Fairness: the program runs on (weak fairness of `Poll` and `Look`);
`PollReturns` has strong fairness because `PollThrows` (EINTR) may come between, and signals do not
come for ever.

### Options

The state is libzmq's: the options of one context and of one socket at a time; `asked` remembers the
values users set. `get` changes nothing, so `Get` and `CtxGet` are operators on the state, and so is
`Refused`, when `set` throws. The way of a value: `find_sockopt_by_name` (a row of `sockOptLookup`), the
row's type in `sockOptTypeLookup` with its size and conversions, `from_m` (`scalar_from_m`: a double,
then a cast; `str_from_m`; `id_from_m` by a table of names), libzmq, and back through `to_m`. All rows
of the tables are modelled, with what libzmq 4.0, built with CURVE, does with each option (`Accepts`,
`Kept`, `Seen`, `Fits`): limits, texts, filters, keys in binary or Z85, switches that are views of one
another, options that can only be read, and those that can only be set (`SetOnly`: `ZMQ_SUBSCRIBE`,
`ZMQ_ROUTER_MANDATORY`, `ZMQ_REQ_RELAXED` and others), which the table offers to `get` as well, where
`zmq_getsockopt` always refuses them. `Traffic` is all that changes what a socket reports of itself
(`ZMQ_EVENTS`, `ZMQ_RCVMORE`, `ZMQ_LAST_ENDPOINT`, ...). A cast of a value that the C type does not hold is
undefined: any value of the type. Widths are constants, so that the edges are within reach of TLC.

## What is checked

| run | instance | shows |
|---|---|---|
| `api_lifecycle` | `ApiSpec`, 2 sockets, 2 endpoints (one wildcard), limit 2; 4,112 states | nothing leaks, `term` returns, the objects implement `Container` |
| `raw_lifecycle` | `Spec`, 3 sockets with symmetry, 2 endpoints, limit 2; 439,516 states | no use after close, no forgotten context, endpoints tracked, leaks only after a shutdown |
| `raw_leak` | `Spec`, 2 sockets | **violation** of `ClosedIsReleased` |
| `cmd_service` | `ServiceSpec`, 2 clients, 3 commands each, five handlers, three callbacks, an `OnError` that may answer; 61,840 states | every command is served once and answered with one whole response; implements `Rpc` |
| `cmd_lifecycle` | `Spec`, 2 clients, 2 commands each, four handlers, callbacks and an `OnError` that may stop the server or throw; 590,222 states | no double or foreign reply, nobody stuck but after half a reply, the server answers what it owes, the loop honours quit and stop |
| `cmd_quit_lost` | `DemoSpec`, 1 command | **violation** of `SentRepliesArrive` |
| `cmd_max_time` | `Spec`, 1 command | **violation** of `TimeoutEndsLoop` |
| `multipart` | `ListeningSpec`, 3 sends of cells and arrays, pipe of 1; 311,264 states | messages are received whole and in order, the byte count tells and where nothing is swallowed is right, sends end; implements `Channel` |
| `string_parts` | `Spec`, one string of 3 in parts of 2 | **violation** of `StringsWhole` |
| `poll_loop` | `Spec`, 3 sockets, columns of 1 to 3 items, pipes of 2 | no receive or send waits, no socket starves |
| `poll_row` | `Spec`, the example's row of 2 items | **violation** of `NoneStarves` |
| `options` | `Spec`, 17 names, 11 values, 2 sets; 354,492 states | set values come back, `get` fails for exactly the options it should, saved values can be restored |

Bounds. Two sockets are what interference needs (one endpoint, one context, one limit between
them); the third in `raw_lifecycle` makes the limit of 2 bite while a socket is open outside the
context's list. One resolvable and one wildcard endpoint are the two behaviours `zmq_unbind` has;
both can be bound and connected by every socket. With two clients one may wait, restart or time out
while the other is served; `MaxCommands` bounds how often a client sends, and two commands suffice
for a reply to meet the wrong command (a third lets a request follow a repaired failure). The
scripts hold each way a handler or a callback can go wrong: silence, failure before and after the answer, two
answers, half an answer, `stop` in its middle; longer ones repeat them. The commands of
`cmd_lifecycle` are all `custom`; its scripts include what the handler of quit does, and unknown commands
are covered by `cmd_service`. Endpoint strings,
payloads and serialization are abstracted: no property depends on them.

`multipart`: a pipe of one message is full after one send, so every send but the first may block or time
out at its first part; three sends let parts that a failed one left behind meet the next message, and
that one's the one after. The cells have a piece that is refused first, in the middle and last, an
empty one, none at all, and one can be sent whole; the arrays' lengths are a multiple of the buffer length and one more,
so parts are full, short and empty, and the receiver's buffer cuts. `poll_loop`: with three sockets, one
that is not looked at yet, one that was, and one that writes; pipes of two are empty, full and neither.
`options`: ints of 3 bits, wide integers of 5 and doubles of 3 bits of mantissa give every relation
of a value to the two types and the double between them (held by all, rounded by the double, too large
for the one, for both); texts are empty, short, as long as the buffer (9), and long enough for a key in Z85
(40). The names are one or more of each type and behaviour, two that can only be set and one that is not in
the table among them; the proofs are about all of them. Two sets are what one option needs to disturb
another; a third would repeat it.

Deadlock is not checked: a crashed MATLAB, a `zmq_ctx_term` waiting for a leaked socket and a server
without clients really do stop, and so do the bounded senders of `multipart` and a `poll` on pipes that
stay as they are.

### What the documentation says and the code does not do

* **`raw_leak`.** After `zmq.core.ctx_shutdown(ctx.getPointer())`, `Socket.close` first unbinds,
  which makes the socket read the stop command; `set('linger', 0)` then throws ETERM, the `catch`
  skips `zmq.core.close`, and the pointer is cleared all the same. The libzmq socket stays open and
  `term` would wait for it for ever. Only mixed use gets there: `ClosedIsReleased` holds of `ApiSpec`.
* **`api_lifecycle`, which passes.** "This method does not cleanup the associated sockets", says the help text of
  `term` (`Context.m:105`). Line 111 calls `close(obj)` first, which closes every socket the context has
  spawned, as the help text of `delete` says (120-121). `ShutdownIsEmpty` and `ContainerSpec` (whose ending closes
  all sockets at once) hold because of that line; they follow the code and not line 105. Were line 105
  true, `TermBeginUnclosed` would be the model of `term`, for which `ShutdownIsEmpty` fails, and `term` would
  wait for the first open socket for good.
* **`cmd_quit_lost`.** The confirmation of `quit` is queued, the loop ends, `stop` closes with linger
  0: a confirmation the I/O thread has not carried yet is dropped and the client waits in `recv`.
* **`cmd_max_time`.** `processRequests(timeout)` looks at the clock between requests only.
* **`string_parts`.** "The received message as a string" (`Socket.m:253`) is its first part only
  (`message{1}`), and `send_string` itself makes several parts of a string that is not shorter than its
  buffer length, 2^20 unless given (`Socket.m:19`).
* **`poll_row`.** `items(1) = ...; items(2) = ...`, the example in `poll.c`, makes a 1x2 struct array;
  `poll.c` polls as many items as it has rows. The second socket is never reported.

## What is proved

`ContextSocket_proofs`, for every set of sockets and endpoints and every limit:

| theorem | of | states |
|---|---|---|
| `TypeCorrect` | `Spec` | `[]TypeOK` |
| `NoUseAfterClose` | `Spec` | `[]PointerIsOpen` |
| `PointerNeverForgets` | `Spec` | `[]ContextPointerAgrees` |
| `CloseReachesEndpoints` | `Spec` | `[]EndpointsTracked` |
| `LeaksOnlyStopped` | `Spec` | `[]LeakNeedsStop` |
| `CloseReleases` | `ApiSpec` | `[]ClosedIsReleased` |
| `TermHasNothingToWaitFor` | `ApiSpec` | `[]ShutdownIsEmpty` |
| `EveryOpenSocketIsSpawned` | `ApiSpec` | `[]OpenIsSpawned` |
| `ImplementsContainer` | `ApiSpec` | `ContainerSafety` |

The assumptions are the two named in `ContextSocket` (`Unresolvable` is a set of endpoints, the limit
a natural number); the proofs do not need them beyond typing.

The argument. None of the properties is inductive alone. `Inv` adds two facts: a socket takes its
endpoints and its stop mark with it (`ClosedIsClean`: a slot reused by a new object starts clean),
and a MATLAB inside `zmq_ctx_term` has shut its context down, which a context that does not exist
has no sockets of (`TermIsShutdown`). `CloseAllKeeps`, `ConstructKeeps` and `EndpointKeeps` carry the
socket part of `Inv` through the three kinds of steps that touch sockets; `NextInv` has one step per
action. `ApiInv` adds what only the classes guarantee; its core is `ApiCloseAll`: closing all spawned
sockets of a live context leaves nothing open, so a context that is shut down is empty, so no linger
is refused, so nothing leaks. The refinement maps each action to one of `Container` or to a stutter.

`Multipart_proofs`, for every set of cells and lengths, all buffer lengths and every high-water mark:

| theorem | states |
|---|---|
| `ChunksCover` | the parts of an array: all but the last as long as the buffer, the last shorter, together the array |
| `TypeCorrect` | `[]TypeOK` of `Spec` |
| `MessagesWhole` | `[]ReceivedWhole` of `Spec` |
| `PartsInOrder` | `[]MixedOnlyAfterThrow` of `Spec` |
| `ImplementsChannel` | `ChannelSafety` of `Spec` |

`Inv` adds to `TypeOK` that no message is empty, which the position `read` needs. `ReceivedWhole` is
then kept by every step. `MixedOnlyAfterThrow` is about messages in the pipe; to be inductive it must
know of the parts on their way there (`StagedInOrder`: in order, later than the last message, of calls
that threw or of the one in progress) and that the call a message ends with has returned
(`SentIsSettled`). The refinement maps `SendLast` to `Put`, the `RecvPart` that completes a message to
`Take`, all else to a stutter; that `Put` finds room rests on `RoomIsKept`, as libzmq looked for it at
the first part, maybe many steps earlier. The assumptions are those named in the module: buffers and the
mark are positive.

`MultipartCount_proofs`, under the same assumptions, for messages of any number of parts:

| theorem | states |
|---|---|
| `ChunksTotal` | the lengths of an array's parts add up to the array's |
| `CountsAreTrue` | `[]CountTells` of `Spec` |
| `ArraysAreWhole` | `[]ReturnedIsWhole` of `Spec` |
| `ShortStringsWhole` | `[]StringsWhole` of `Spec`, if strings are shorter than the buffer and cells have one element at most |

What a call returned says something of its message only because the two grow in step. The invariant
`Counted` adds `InStep` for the call in progress: it has counted at most the sum of the pieces it has come
past, and if exactly that, what is staged has every one of those that is not empty (`AcceptedCounts` takes
it over one more part). A piece of length 0 may fail unnoticed, as it changes neither side; that is why
`CountTells` does not speak of empty parts. That a call which stands at its first piece has nothing staged
of its own comes from `StagedInOrder`. `ShortStringsWhole` is the other side of the violation `string_parts`:
where nothing is split, what `Socket.m:253` says is true.

`Total` and the parts of a call are recursive functions over sequences of any length, and the equations
that define them (`SumsEquation`, `SelectionsEquation`) have to be proved from the existence of such
functions. The induction theorems of the TLAPS library take an operator, which the provers used here cannot
instantiate; `Induction` therefore states induction of a *set* of numbers (`SetInduction`: if it holds 0 and
with each number the next, it holds all, since a least missing one would contradict that `<` is well-founded
on the naturals), and derives from it that functions defined by recursion exist (`RecursionExists`), that
there is one only (`RecursionUnique`), and that powers of 2 are what they should be (`PowersOfTwo`, from the
number of subsets of a finite set).

`Poll_proofs`, for every set of sockets, items, shapes and every limit: `TypeCorrect` and `NoWait`
(`[]ReadyMeansNoWait`). That a result can be relied upon when the program comes to it is inductive only
together with the same of every result still ahead (`Ahead`), and only if no socket occurs in two
items: the module assumes it (`Distinct`), because with a socket twice the first result's receive may
empty what the second promises.

`CommandSocket_proofs`, for every set of clients and commands, any scripts of handlers, callbacks and `OnError`, and
any number of commands:

| theorem | of | states |
|---|---|---|
| `TypeCorrect` | `Spec` | `[]TypeOK` |
| `OnlyPartsLeaveStuck` | `Spec` | `[]StuckAfterHalfReply` |
| `ServedOnce` | `Spec` | `[]OneWhereabouts` |
| `AnswersTheCommand` | `Spec` | `[]ReplyMatches` |
| `ServiceLeavesReady` | `ServiceSpec` | `[]ReadyBetweenCalls` |
| `ServiceAnswersWhole` | `ServiceSpec` | `[]WholeReply` |
| `ImplementsRpc` | `ServiceSpec` | `RpcSafety` |

The four about `Spec` hold under everything the owners may do: timeouts, kills, restarts, `stop` from a
handler or a callback. The first two rest on `Base`, the types and the shape of replies (`Shapes`): whatever was
staged, failing or answered before, every reply is some parts of a handler followed by one text and one object, so that
`sendCommand`, which reads two parts, leaves something unread only if the first was such a part. That is
inductive with the replies on their way in it, and with what is staged, which a failed handler leaves behind
for the error response. The other two need `Inv`: `Base` and, for each client, `Tracked`: its request or
the reply to it is in one of five places at most
(`OnePlace`), bears the number of its last command (`Numbered`), and is nowhere unless the REQ socket is
expecting. The numbers are what makes `ReplyMatches` inductive: a reply that comes after its call timed
out still carries the last number, because the socket refused every `send` in between. A step either
takes something of a client away (`Fewer`: loop, restart, drop) or moves it from one place to the next
(`CarryRequestTracked`, `TakeTracked`, `ReplyTracked`, `CarryReplyTracked`).

The three about `ServiceSpec` assume `HandlersAreWhole`: handlers, callbacks and `OnError` answer, fail or set
`Running`, in any order, but stage no part and do not stop the server. `ServiceInv` adds to `Inv` what such code
keeps: nothing is staged, replies on the way are whole, a waiting client's request is somewhere (`Cared`).
Without the assumption `WholeReply` is false: a failed handler's part precedes the error response, and
`receiveObject` leaves the third part unread. So is `Cared`: `stop` drops the queue. In the refinement `Receive` is
`Serve`, and needs `OnePlace` and `Cared` to know that the client is waiting and has nothing else queued.

`Options_proofs`, for any widths of int and the wide integers, any precision of doubles, any buffer, any
names and values, and any number of sets:

| theorem | states |
|---|---|
| `TypeCorrect` | `[]TypeOK` of `Spec` |
| `SetIsReturned` | `[]GetReturnsSet` of `Spec` |
| `GettersFailExactly` | `[]GettersAnswer` of `Spec`: which options `get` throws for, and when |
| `SavedIsRestored` | `[]RestoredAsSaved` of `Spec` |
| `IntsComeBack` | `[](IntsReturned /\ IntsRestored)` of `Spec`, if `IntBits - 1 <= Mantissa` |
| `WideRounded` | 2^Mantissa + 1 fits a wide integer and is set as 2^Mantissa, if `2 <= Mantissa < WideBits` |

`TypeOK` is as strong as the getters need it: each option has a value of its C type within the limits
libzmq enforces (`Numbers`), so that each number kept of a socket type or a mechanism has a row in its table,
and each text a length that libzmq lets through (`KeptLengths`). It is inductive: a cast yields a value of the
type whatever it is given (`CastHolds`), `AcceptedIsAcceptable` is what remains after `from_m` and libzmq's own
test, `KeptSound` that this keeps the options legal, the views and the mechanism included. `GettersFailExactly` and
`SavedIsRestored` follow from it in each state: the table's type of an option is the one libzmq keeps it in
(`TableTypes`), so are the widths and the 41 bytes of a key (`BufferFits`), and a number of the type that a double
holds converts to itself (`NumberConverts`). `get` throws for the options that can only be set, which are rows of
the table all the same, and for a text that fills the buffer of 255 bytes, and for no other row. `GetReturnsSet` has a history: the
invariant `Returns` says of each remembered value that libzmq keeps what `get` makes it from, on closed sockets
and for texts `get` has no room for too; setting an option is seen in that option (`SeenAsSet`) and in those
`Related` to it only (`SeenAsBefore`); what a socket reports of itself is neither set nor part of a view
(`ReturnsTraffic`).

These theorems speak of values a double holds (`Exact`). `IntsComeBack` and `WideRounded` say which those are in
the code, where an int has 32 bits, a wide integer 64 and a double 53: all ints, so that the integer
options come back as they were set with no proviso; not all of the wide ones: uint64(2^53) + 1 given as
AFFINITY is set as 2^53 without a word. The assumptions: an int has 3 bits at least (it holds the defaults), the
other widths and the buffer are positive, values are numbers or texts, socket types are those of the table. Of the
names nothing is assumed.

Only model-checked: the liveness properties (`TermComesBack`, `OwedIsAnswered`, `LoopHonoursQuit`, `SendReturns`, `NoneStarves`,
the fairness parts of `ContainerSpec`, `RpcSpec` and `ChannelSpec`), as the provers do not reason about
fairness and ENABLED. Every invariant of a passing run has its theorem.

## What is not modelled

* **JeroMQ** (`JeroSocket`, `lib/+jzmq`): a second object layer over a Java library that is bundled as
  a binary. Its behaviour at limits, on close and on errors is not fixed by anything in the
  repository; a model would have to invent it.
* **libzmq's part in failures nobody here handles**: a peer that dies in the middle of a message
  (libzmq drops such a message whole), Ctrl-C between two parts.
* **Options**: ZMQ_FD on Windows (SOCKET, `pointer_to_m`); which socket types take which of the options that can
  only be set (the model's libzmq takes them all); other versions of libzmq than 4.0, and one built
  without CURVE. Names that are not in the tables throw (`ZMQ_NOSUCH`).
* **poll**: the second output, which reads `plhs[1]` before anything is assigned to it; file
  descriptors, which `poll.c` does not support; a closed socket among the items
  (`ContextSocket.Poll` has its outcome: nothing, or a crash).
* **Context**: the context that an interrupted `delete` leaves behind (its object is gone, so nothing
  can be said through it); several contexts in one process, which share nothing in this code. How
  many sockets a context allows is the constant `MaxSockets` of `ContextSocket`; that MAX_SOCKETS
  changes it before the first socket is not modelled.
* **Texts**: endpoint strings, error identifiers and messages, payloads, serialization. The scheduling of
  MATLAB timers other than that they run inside `pause`. Build scripts and benchmarks have no state
  that lasts.

## Plan

Done: `ContextSocket` and `Container`, `CommandSocket` and `Rpc`, `Multipart` and `Channel`, `Poll`, `Options`,
each with its proofs.

Left: that MAX_SOCKETS, set before the first socket, is the limit `ContextSocket` takes as a constant; and
proofs of liveness, which need a prover that reasons about fairness.
