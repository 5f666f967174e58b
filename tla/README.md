# Verification of CppNetworkProgramming

TLA+ models of the network programs of this repository, checked with TLC, and
proofs about them checked with TLAPS. The models are translated from the code
under `src/`; `PROJECT.json` maps every definition to its lines.

## The system

The repository is a set of small network programs on Boost.Asio and Boost.Beast,
written one after the other, each to try a way of doing things. They share no
code at run time; the echo servers of `asio/async` are stages of one design.

| Part | State | Operations | Interacts through | Hard behaviour | What makes it correct |
|---|---|---|---|---|---|
| `asio/async/00_session_api` client session | `send_queue_`, `send_pending_`, `recv_node_`, `recv_pending_`, `send_node_` | `WriteToSocket`, `WriteAllToSocket`, `ReadFromSocket`, `ReadAllFromSocket`, `WriteToSocketErr`, and their callbacks | socket, `io_context` | partial writes; writes and reads outstanding together; failed operations | the peer gets the bytes written, in order; the pending flags tell the truth; `send_node_` is alive while it is sent |
| `asio/async/01_bad_echo_server` | one `CSession` object per connection (raw pointer), its `data_`, the outstanding operations | accept, read and write handlers | socket, `delete this` | which handler deletes the session, and when | each session deleted once, after its last handler; what is echoed is what was read |
| `asio/async/02_good_echo_server` | the same, with `shared_ptr`s and `sessions_` | the same, and `ClearSession` | `shared_from_this()` | lifetime of a session between operations | an object exists as long as a handler can run on it; `sessions_` has exactly the live connections |
| `asio/async/03_full_duplex_server` | the same, and a `send_queue_` per session | `Send`, read and write handlers running independently | `sessions_`, queue, `data_` | two operations outstanding at once; errors of one while the other runs; queue against writes | one write at a time; each message sent whole, once, in order; no handler on a dead session |
| `asio/async/04_sticky_packs` | 03 with a length header per message | the same | the same | framing | message boundaries survive the stream |
| `asio/sync`, `basic/blocking_*` | one thread per connection, `thread_set`; the client's request and reply; TCP buffers | `accept`, `std::thread`, blocking `read_some`, `write`, `connect`, `read` | TCP | client and server both blocked in a write; a client gone while its thread waits; an exception in the accept loop | reply equals request; progress; a client's end is its thread's, and only its |
| `beast/http_server` | acceptor, one `HttpConnection` per request with timer, request, response; handler tables | accept, read, `HandleReq`, `WriteResponse`, `CheckDeadline`, `UrlEncode`/`UrlDecode` | `LogicSystem`, `Singleton`, signals | deadline against response; exceptions inside handlers | every request answered or closed; the accept loop survives; decode undoes encode |
| `basic`, `main.cpp`, `tests`, `xiaopeng` | none | demonstrations | — | — | — |

## Modules

| Module | Models |
|---|---|
| `EchoService` | Abstract specification: per connection, the bytes sent back are a prefix of the bytes received. |
| `EchoSockets` | What 01, 02 and 03 stand on: `data_`, the outstanding read and write of a socket, and what Asio and TCP do with them. |
| `BadEchoServer` | 01: accept loop and raw-pointer sessions. |
| `CServer` | The accept loop and `sessions_` map that 02 and 03 share. |
| `GoodEchoServer` | 02: who owns a session, with `shared_from_this()` as built and as meant. |
| `FullDuplexServer` | 03: the send queue, the full-duplex session, its destruction. |
| `ByteStream` | Abstract specification: the peer gets a growing piece of what the application wrote, from its first byte on, and nothing after a write that failed; the promise may end. |
| `SessionApi` | 00: the client session with its send queue, the `send_node_` of `WriteToSocketErr`, and its read node. |
| `SyncEcho` | The blocking server and its clients, of `asio/sync` and of `basic`: main thread, a thread per connection, client processes, and TCP with bounded buffers. |
| `StickyPack` | 04: the length header of a message node, as operators. |
| `HttpService` | Abstract specification: at most the one response a request asks for, none after the end. |
| `HttpServer` | `beast/http_server`: accept loop, connection, deadline, signal, and what exceptions leave half done. |
| `UrlCodec` | `UrlEncode`, `UrlDecode`, `PreParseGetParam` as operators on byte strings, over every short input. |
| `EchoSocketsProofs` | Lemmas about `EchoSockets` that the proofs of 01, 02 and 03 share. |
| `BadEchoServerProofs`, `GoodEchoServerProofs`, `FullDuplexServerProofs`, `SessionApiProofs`, `HttpServerProofs`, `SyncEchoProofs`, `CodecProofs` | The theorems. |
| `MC*` | Instances for TLC. |

### How state and actions correspond to the code

- *An asynchronous operation* is a record with a state: `pending` from the call
  that starts it, `ok` or `error` from its completion until its handler runs,
  `idle` when there is none. Between completion and handler other handlers may
  run, in any order. The buffer an operation was given is read or written when
  the operation makes progress: that is where a buffer reused too early shows.
- *A handler* is one action, with everything it calls (`Send`, `memset`, the next
  `async_read_some`, `ClearSession`, `StartAccept`): every `main` runs
  `ioc.run()` on one thread. For the same reason `send_mtx_` is left out.
- *`async_write`* may take the bytes in any pieces, and, in 03, some of them
  already at the call (Asio tries the socket before it waits for it).
- *A session object* is an address of `Session`. In 01 `heap` says whether an
  object is there. In 02 and 03 an object exists while a `shared_ptr` to it
  does: in the lambda of the outstanding accept, in `sessions_`, or (02) in the
  lambda of an operation (`self`).
- *Destroying a session* closes its socket; an operation that is still pending
  completes with an error, and its handler still runs (`Aborted`).
- *Bytes*: no server looks at what a byte is, so byte i of a client is the number
  i, zero is what `memset` writes, and in 03 `Garbage` is what lies behind an
  array. A byte lost, repeated, or out of place is then visible.
- *The HTTP server*: each lambda holds a `shared_ptr` to its object, so an object
  exists while an operation of it is outstanding (`Alive`). A request is its
  method, whether its url is registered, and whether the escapes of its query are
  well formed; a response is its status and how much of it TCP has taken.
  `expired` says that the 60 seconds of `deadline_`, counted from construction,
  are over, whether or not anything waits for them. Any call can throw
  `bad_alloc`; each `catch` block is an action that leaves its `try` block half
  done in the ways that make a difference (`HandleAcceptThrows`,
  `HandleReqThrows`). `xmake.lua` does not define `NDEBUG`: a failed `assert` of
  `UrlDecode` ends the process (`HandleReqAborts`).
- *A blocking call* of `SyncEcho` is an action that is not enabled while the call
  blocks: `write` while TCP has no room (`cap`), `read_some` and `read` while nothing
  has come, `accept` while nobody waits. `write` puts its bytes in in any pieces.
  The two pairs of programs differ in what becomes of a thread: `detached` is
  chosen once; if it is FALSE, a thread that has returned still counts
  (`ThreadsHeld`), for `thread_set` never lets go of it. `limit` is how many threads
  the system grants; `accept` may throw at any time; `exception` says which of the
  two `main` caught. A client leaves when it has
  its reply, or is killed before. The bytes on the way are not a variable: they
  are those written and not yet read (`sent - taken`, `Len(echoed) - replied`).
- *The node of 00*: `sendNode` is `send_node_`. The lambda that `WriteToSocketErr` passes
  to its write does not own the node, the continuation that `bind` makes does:
  `from` tells them apart, and `Dangling` which writes read freed memory. An
  application uses the queue or the node (`usesNode`), and may wait for each write
  (`waits`). TCP takes the bytes of several outstanding writes in the order these
  were started, but their callbacks run in any order; an empty message, whose write
  completes at once, is the easiest way for them to change places.
- *Strings* of `UrlCodec` are sequences of bytes 0..255. `char` is signed, as on
  x86: that decides what `ch >> 4` is (`ShiftRight4`).
- *Undefined behaviour* is a choice of outcomes: in 03 a handler on a destroyed
  session ends the server or does nothing (`StaleHandler`), and `max_len_`,
  which no constructor sets, has any value of `UninitLen`; in 00, `front()` of an
  empty queue ends the model, and a string the caller has dropped reads as
  `Garbage` (`keeps` is chosen once, for every caller).

### What the sources say and the models do not need

The comment at 01 `session.cpp:10-13` fears a double delete. In this server a
session has one operation at a time, so it cannot happen; `NoDanglingHandler`
and `OneHandlerPerSession` are checked and proved. It is in 03, where a session
reads while it writes, that the two error branches meet.

## Runs

| Run | Shows | Instance |
|---|---|---|
| `bad_echo` | 01 never uses or deletes a deleted session and leaks none; `data_` holds what is not yet sent, zeros behind; it implements `EchoService`; every byte read is sent back or the session ends | 3 addresses, 2-byte `data_`, 4 bytes per client |
| `good_echo` | the same of the handlers of 02, with `shared_from_this()` working; as built: the first completed read of any client ends the server; either way `sessions_` holds exactly the connections served | the same, `publicBase` chosen at the start |
| `good_echo_handled` | violated: data that arrives is handled (`session.cpp:18-19`) | 2 addresses |
| `full_duplex` | 03: a write is outstanding exactly when the queue is not empty; the queue holds the newest bytes, each once; reading never stops; every queued message is popped, or the session or the server ends | 2 addresses, 2-byte `data_`, 4 bytes, `max_len_` 0, 1 or 3 |
| `full_duplex_owner` | violated: a handler's session exists when it runs (`csession.cpp:24`) | 2 addresses |
| `full_duplex_sent` | violated: the head of the queue has been sent (`csession.cpp:51`) | 2 addresses |
| `session_api` | 00: until a read completes, one write at a time, resumed at the right byte; it implements `ByteStream`; the peer gets all that was written unless a write fails; a session receives one node: nothing read is dropped, and once the node is full no read is started again (`ReceivesOneNode`). With `WriteToSocketErr`: the newest write that is not complete is of a live node unless the last message is empty, in whatever order the callbacks run; and an application that waits for each write loses no byte | 3 messages of 0 to 2 bytes, 4 bytes, node of 2; 6 bytes on the wire with the node |
| `session_api_send_pending` | violated: `send_pending_` says whether the queue has nodes (`session_api.h:75`) | 3 messages |
| `http_server` | HTTP: implements `HttpService`; the deadline guards every response and no read; a response is whole unless deadline, TCP or an exception ended it; a connection ends after its request however slow its client | 2 connections, responses in 2 pieces, 4 kinds of request |
| `sync_echo` | client and thread never block each other; a client that connects gets its reply, is cut off or leaves, and is cut off only with its connection, by a failed `accept`, or by a failed `std::thread` after `limit` clients got one; a thread ends with its client; each thread implements `EchoService`; no line fills `data`, so its print ends in it | 2 clients, lines of 0 or 2 bytes (4 typed, cut to 2), 1 or 2 threads, buffers of 1 or 3 bytes to the server and 1 back |
| `codecs` | decoding undoes encoding for ASCII; encoded pairs survive the parser; a query whose escapes `UrlDecode` accepts is parsed as its segments say; messages of 04 are found again in the stream of their nodes | every byte, every string of up to 4 of 8 bytes; as three messages, and behind one of 1024 bytes |
| `url_codec_nibbles` | violated: `UrlEncode` writes both halves of every byte (`http_connection.cpp:61`) | every byte |

The violations, in words:

- **02**: `CSession` derives from `enable_shared_from_this` *privately*
  (`session.h:13`), so `shared_from_this()` throws in the first read lambda, and
  the exception leaves `ioc.run()`.
- **03, lifetime**: no lambda owns the session. A read is always outstanding, so
  when a write fails, `ClearSession` destroys the session under the lambda of the
  read; and the other way round when the client closes during a write.
- **03, contents**: `Send` starts the first write on `data_` itself, which
  `HandleRead` then clears and reads into; later writes take `max_len_` bytes,
  which nothing sets. Either way the head of the queue is popped as sent
  although something else was. (TLC reports the first cause, the shorter.)
- **00**: `ReadCallBack` resets `send_pending_` where it means `recv_pending_`. After
  a completed read, a second write can start beside the first; and no second
  read ever starts (`ReceivesOneNode`, which holds), although
  `session_api.cpp:165-167` says the flag is cleared.
- **HTTP**: `UrlEncode` shifts a signed `char`.

### Bounds, and why they are enough

- `Session`: one address is always taken by the session being accepted. Sessions
  share nothing but the accept loop, `sessions_` and (02, 03) the fact that an
  exception ends the server, so two served at once (three addresses) meet in
  every way there is; where the question is about one session, two addresses
  keep the instance small. In 03 an address is not reused while a handler of its
  last session has still to run (`Free`); reuse would only add ways for stale
  memory to look alive.
- `BufLen` 2: a message that fills `data_`, one that does not, and a write that
  TCP cuts in two. `MaxBytes` 4: two full buffers, or short messages after long
  ones; in 03 four messages in the queue. For 01 the proofs cover every size.
- `UninitLen` {0, 1, 3}: nothing, part of a two-byte message or all of a one-byte
  one, and more than there is.
- Three messages in `session_api`, of 0 to 2 bytes: one that TCP cuts, one that is
  empty, and one behind them; two writes outstanding and a third to change places
  with. The proofs are for any number.
- `RecvSize` 2: a node filled at once and in two reads.
- `RespLen` 2: a response not begun, begun and complete. Connections share only
  the accept loop and the process: two are enough for one to end while another
  is served. The four requests of `SomeRequests` are those the handlers
  distinguish; for other methods nothing of the request is looked at.
- `MaxWire` 6: the start of each message may come again. The bound stops only
  `WriteSome` with the node; no liveness is claimed of it.
- `SyncEcho`: threads meet only in `ThreadsHeld`, the accept loop and the end of the
  process, so two clients are enough: with one thread granted the second is too
  many, with two both are served. The longest line has 2 bytes, with buffers of 1
  byte each way: both writes can block. A typed line of 4 that is not
  cut to 2 would block both for ever: this is the mutant of `NeverBothBlocked`. `CapsAssumption` (the buffers hold a line and its echo between
  them, less the two bytes the ends have in hand) is the one thing asked of TCP,
  and `max_length` is 1024; without it `NeverBothBlocked` is false. The other `Caps`
  has room for the whole line in one direction, so that the client reads while
  the thread still has to.
- `MaxLen` 4: two keys and two values of a byte each, or an escape and a byte
  before or behind it; the eight bytes are all that mean something to the
  parsers, and two that are hex digits.
- `CHECK_DEADLOCK FALSE` is set where the program may stop: `main` returns after
  an exception (02 as built, 03) or a signal (HTTP), the bounded application has
  written all it may (00), the clients are done and the server has ended
  (`SyncEcho`), or the input has its full length (`UrlCodec`). Clients that never send again are pending operations, not deadlocks,
  in 01 and 02: there the check for deadlock is on.

### Fairness

`ioc.run()` runs the handler of every completed operation: weak fairness of each
session's handlers (`SessionHandler`, `ReadHandler`, `WriteHandler`,
`WriteCallBack`). TCP moves the bytes of an outstanding write or reports that it
cannot: weak fairness of `WriteSome \/ WriteFails`. This excludes a peer that
keeps its connection open and never reads, for which these servers promise
nothing. `HttpServer` does not ask it of TCP: its deadline is there for such a
peer; what it needs is that time passes (`Expire`). Nothing makes a client
connect, send, or close. In `SyncEcho` each process and thread runs when it can:
weak fairness of the steps of a client that has connected, of the accept loop
and of each session thread, and of the end of a process whose main has returned.
TCP's own steps are in those of the two ends. Nobody need start a client or end
one (`asio/sync`'s waits in `getchar` with its connection open), nor break a
connection.

## Proofs

Every safety invariant and every refinement that the runs check is also proved. For
the servers and clients each proof is of an inductive invariant that implies them; `Invariance` is that invariant in each module.

`EchoSocketsProofs` is the common ground of 01, 02 and 03. A session that has one
operation at a time goes from a fresh socket to reading, has read, writing, and
reading again; `SockFresh`, `SockReading`, `SockHasRead` and `SockWriting` say of each
which operation is outstanding, what `data_` holds, and that the bytes sent back
are the stream up to what `data_` still holds. Each part is needed by another: that
the echo is right needs the contents of `data_`, which need that nobody reads while
a write is outstanding. One lemma per step (`ReadSomeStep`, `WriteSomeStep`,
`EchoStep`, ...) says from which phase to which it goes, whoever owns the session.

`BadEchoServerProofs`, for every `Session`, every `BufLen > 0` and every
`MaxBytes` (the assumptions of `EchoSockets`):

- `Invariance`: `HalfDuplexInv`, one phase for each object, and who points to it.
- `TypeCorrect`, `MemorySafety` (`NoDanglingHandler`), `OneOwner`
  (`OneHandlerPerSession`: each live session is held by exactly one operation, or by
  the outstanding accept) and `NoStaleTailTheorem` follow from it.
- `Refinement`: `Spec => IsEchoService`. A read is `Receive`, a piece of a write is
  `Echo` (the next bytes of `data_` extend the stream), a new session is `Connect`,
  and every other step leaves the abstract state alone.

`GoodEchoServerProofs`, for the same constants and both values of `publicBase`:
`ServerInv` says that the session of the outstanding accept has a fresh socket and is
not in `sessions_`, that one in `sessions_` is in one of the three served phases, and
that of any other nothing is left, not even a `self_shared`.

- `LambdasFindTheirSession` (`NoDanglingHandler`), `MapIsExact` (`SessionsAreServed`) and
  `TypeCorrect` follow. That the lambda of `Start`, which holds only `this`, finds its
  object is because a session with an operation is in `sessions_`.
- `Refinement`: `Spec => IsEchoService`, as for 01; the exception that ends the server
  changes nothing a client has seen.

`FullDuplexServerProofs`, for every `UninitLen` too: `ServerInv` holds for each session
what its socket, its queue and its place in `sessions_` have to do with one another.

- `QueueProtocol` (`QueueDiscipline`) needs that a session being accepted has no
  operation and no message. That of the sessions that have left `sessions_` almost
  nothing is said is why it holds in spite of the stale handlers.
- `NewestQueued` (`QueueHoldsNewest`): the queue is a chain of runs (`Runs`), each going
  on where the one before it ends. Pushing needs what `HandleRead` finds in
  `data_` (`NewBytes`: only a read of this session writes it between completion and
  handler); popping keeps every run but the first. That what is *sent* is right is
  false (`full_duplex_sent`); that the copies are right does not depend on it.
- `ReadsAlways` (`AlwaysReading`) and `TypeCorrect`. The latter is not immediate: what a
  write takes has to be bytes, so a write from `data_` must be no longer than
  `data_`, and a write of a node must find one at the head of the queue.

`SessionApiProofs`, for every set of lengths, every `RecvSize > 0` and all bounds
(`SizesAssumption`). The invariant has five parts, each proved on the ones before it:

- `TypeInv`: stronger than `TypeOK`, a message, a write and `send_node_` end within what
  was written, and no more is sent than there is. `ReadInv`: a read is outstanding
  until the node is full and asks for no more than is free (`RecvNodeFills`), and
  a read that failed has read nothing. `ReadPath` (`ReceivesOneNode`) follows with
  `ReadMonotone`: bytes read stay, and a full node is never left, whatever is
  called. `ReadStep` also shows that `ReadDone`, once true, stays true.
- `QueueInv`, until a read completes: the messages follow one another up to the last
  byte written (`Chain`), the one write is of what is left of the first
  (`SendsHead`), and what the peer has ends where the write begins. `InOrder`, that
  what the peer has is right, is no invariant without these. After a failed write
  there is no other: the message that failed stays in the queue, so `send_pending_`
  stays true. `WritePath` (`WritePathSound`) and `PeerInOrder` follow.
- `Refinement`: `Spec => IsByteStream`. A call that writes is `Write`, a partial write
  `Deliver`, the callback of a failed write `Break`, and the read callback that fills
  the node `Lapse`: from then on `Afterwards` allows anything, and so it does from the
  start for an application that uses `send_node_`. `HeadIsNext` says that the bytes an
  outstanding write may send are the next of the stream, and gone only if the
  application dropped its string.
- `NodeInv`: every write comes from a `send_node_`, and the newest that is not
  complete from the one there is, unless that is empty. `NewestLives`
  (`NewestWriteLives`) follows. A callback that starts a write again takes
  `send_node_` as it is then, so the write it starts is right even when those before
  it are not; and its own write is complete, so that pending ones stay in their
  order. `NodeRemoved` is the step for the callback of *any* complete write. The exception is real: behind the empty message
  the newest write that is not complete may be of a node that is gone.
- `WaitInv`, of the application that waits: `send_node_` is the last message, no byte
  before it is missing (`Reached`), and a completed write sent up to the last byte
  the peer got. `ClimbsOn` says that bytes from the start of `send_node_` join on to
  what the peer has. `WaitingWorks` (`WaitingLosesNothing`) follows.

`HttpServerProofs`, for every `Conn`, every set of requests and every `RespLen > 0`
(the assumptions of `HttpServer`): `Invariance` shows that `IInv`, the type invariant
and the life of each connection (`ConnInv`), is inductive; `TypeCorrect`,
`DeadlineTheorem` and `AnswerTheorem` follow from it.

- `AnswerIsWhole` is not inductive: it speaks of connections that have ended, and
  what it says of them is decided earlier. `ConnInv` carries it through the life of
  a connection: one that reads has sent nothing; one that writes does so on an open
  socket, under the deadline, and what its request asks for; a GET whose write is
  over has one of the four reasons (`Done`).
- The deadline and the write lambda meet in two conjuncts: `wait[c] = "ok"` implies
  that the 60 seconds are over, so a socket the wait lambda closes has `expired`
  for its reason; and a cancelled wait (`"error"`) implies that no write is
  outstanding, so the lambda that does nothing leaves no response unguarded.
- `Refinement`: `Spec => IsHttpService`. A request read is `Take`, a piece of the
  response is `Answer`, a new connection is `Accept`; every other step of a
  connection can only end it (`EndOrStutter`). `Ended` is a formula used as a value:
  `EndedUpdate` and `EndedSame` say how the function of these values changes.

`SyncEchoProofs`, for every `Client`, `Typed`, `MaxLength > 0`, `MaxThreads`, and every `Caps`
that `CapsAssumption` admits: `Invariance` shows that `IInv`, the type invariant, three
formulas for each client and `MainInv` for the server, is inductive.

- `Places`: a line passes from typed to sent, taken, echoed and read back; each of
  these counts is at most the one before, and two differences are bounded by what
  TCP holds. `Contents`: what has been echoed is the line up to there, and `left` what
  comes next. `Phase`: what the thread does and how it got there.
- `NoDeadlock` (`NeverBothBlocked`) adds up `Places`: if both are blocked, both buffers
  are full and the thread has a byte in hand, so `up + down + 1` bytes have been
  sent, which by `CapsAssumption` is the longest line there is; but the client has
  a byte left.
- `Isolation` (`FailsOnlyWithServer`) needs of `Phase` why a thread has ended, and of
  `MainInv` why the loop has: `exception` is set, and if `std::thread` threw, at least
  `limit` clients had got a thread, for the threads the server holds are of clients
  it has served (`ServedStay`, `ThreadFailsMain`). In `asio/sync` these may all be gone:
  `thread_set` keeps their threads. That is how other clients can cut one off, and
  the property allows it.
- `Refinement`: `read_some` is `Receive`, a piece of `write` is `Echo` (`FromSplits`,
  `FromJoins`: the next bytes of `left` extend the line), all else leaves the abstract
  state alone.

`CodecProofs`, for every `Alphabet` of bytes and every `MaxLen` (`InputsAssumption`): these
are not about steps, but about what a recursion computes for an input of any length.

- `Induction` holds for a *set* of naturals, where the library's theorem has an
  operator for a parameter: what fails for some natural fails for a least one
  (`WFMin`). `InductionUpTo` and `InductionDown` are its forms for `0..n`.
- A recursive function is a `CHOOSE`, so that there is one needs a proof. `SumExists`
  and `WalkExists` give it for recursion on the position before, as in `FlattenSeq`,
  and on any later position, as in `Split` and `UrlDecode`. For `UrlDecode` this needs
  that no assert fails: only then does an escape end within the string.
- `Placed` says where each code, or node, is in what they are joined to; `WalkedBack`,
  that a walk that finds one item at each of these places gives all items back.
- `BoundariesAreKept` (`BoundariesSurvive`) needs of the header only `HeaderRead`, that its
  two bytes say the length; hence its assumption `MaxLen < 256 * 256`. The messages of
  04 have at most 1024 bytes. Its lemma `SplitUndoesStream` is for any number of messages.
- `DecodingUndoesEncoding` (`DecodeUndoesEncode`) rests on `EncodedByte`: a byte of an ASCII
  string becomes itself, a plus or an escape that is read back, and no digit of an
  escape is a percent sign.
- `QueriesAreParsed` (`ParsesSegments`): what `PreParseGetParam` finds from a segment on, by
  induction downward over the places where segments start (`OneMoreSegment`).
  `ParamsExist` says that its recursion, which jumps from ampersand to ampersand, is
  one; `FindsFirst`, that `find` returns the first place. `UrlDecode` stays a name in the
  whole argument. The property itself is only of queries whose escapes it accepts: of
  any other, the program aborts.
- `PairsAreKept` (`PairsSurvive`) puts the two together. What is encoded holds only bytes
  that no search stops at (`SafeString`); so the first `?` of the target ends the url
  (`TargetCut`), the query falls into two segments at the one `&` between them
  (`TwoSegments`), and each segment into key and value at its one `=` (`PairRead`).

Only model-checked:

- the liveness properties (`EveryByteAnswered`, `QueueDrains`, `AllSent`,
  `ConnectionEnds`, ...): fairness and `ENABLED` are out of the prover's reach;
- that the violations are violations.

## Not modelled

- `04_sticky_packs`, but for its `MsgNode`: it does not compile as committed
  (`csession.cpp:53` uses a member `max_len_` that `MsgNode` no longer has). Its
  handlers are otherwise the text of 03, with what `FullDuplexServer` says of them;
  in particular the first write of a burst is of the message without its header.
  `recv_head_node_`, `recv_msg_node_` and `b_head_parse_` are never used: the receiver
  of `StickyPack` (`Split`) is the format of `csession.h:20-21`, not code.
- `Singleton`: `call_once` around one allocation, used from one thread.
- What the servers print. In particular `cout << data_` of 01, 02 and 03 reads on
  past the array when a message fills it; for the blocking server and its own
  clients `TypeOK` shows that none does.
- The blocking programs: what the threads do while `main` of `asio/sync` unwinds (the
  `io_context` is destroyed under them, then `std::terminate` ends the process); an
  `accept` or `connect` that takes time; clients other than those of this repository.
- `basic/code_snippet.cpp`, `basic/main.cpp`, `main.cpp`, `tests/test.cpp` and
  `xiaopeng/server.cpp` are demonstrations without state of their own.
- In 00: an application that uses the queue and `WriteToSocketErr` on one session;
  `WriteAllCallBack` and `ReadAllCallBack`, which nothing passes to an operation.
  `WriteToSocketErr` used without waiting is modelled, but little can be said for it
  (`session_api.h:43-45` says as much): messages overlap, and a node may be freed
  under its write.

## Plan

Done: 00, 01, 02 and 03, the blocking programs, the HTTP server and its codecs, the
framing of 04; the proofs of all of them, with the refinements to `EchoService`,
`HttpService` and `ByteStream`. What is left:

1. What holds of 03 when the two causes of `full_duplex_sent` do not arise. A client
   that waits for its echo is not enough: the echo can be complete, and the next
   message read and handled, before `HandleWrite` has run, and then that message is
   sent with `max_len_`. It would take an order between the handlers of different
   operations, which Asio does not promise, and writes that TCP takes at once.
2. 04 once its receiver exists: then `Split` of `StickyPack` is its specification.
