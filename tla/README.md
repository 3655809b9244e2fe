# polymorph-websocket, verified

TLA+ models of the implementations of `polymorph:websocket`, the TLC runs that
check them on small instances, and TLAPS proofs that hold for every instance.
Paths are relative to the repository; `websocket.rs`, `host.rs` are those of
`rust/wasmtime/src`, `pump.rs`, `lib.rs`, `connect.rs` those of
`rust/guest-provider/src`.

## The system

The contract is a WIT world (`wit/websocket.wit`, prose in `wit/README.md`): a
guest `connect`s, `send`s, `receive`s or claims the inbound *stream*, `close`s,
asks for `state`, and awaits `wait-closed`. Four programs implement or use it.

| part | state it keeps | operations | talks to | hard because |
|---|---|---|---|---|
| Wasmtime host, connection (`websocket.rs`, `host.rs`) | state cell, close-info latch, two signals, command channel, inbound queue, byte budget; the pump's flags, deadline and write half | `send`, `receive`, `receive-via-stream`, `close`, drop, `wait-closed`, `state`; the pump's select loop | pump on another thread, through channels, atomics and a mutex; tungstenite socket | every cell is touched by two threads; writes stall; readers are cancelled; a deadline races a late write |
| Wasmtime host, `send-via-stream` (`host.rs` 414-507) | collected bytes, the item count | one call per stream | the guest's stream, `send` | partial failure in the middle of a stream |
| Wasmtime host, connect (`websocket.rs` 374-410, 419-554) | none that stays | `connect`, argument validation | DNS, TCP, TLS, handshake | timeouts, order of errors |
| in-guest provider, connection (`pump.rs`, `lib.rs`) | as the host's, plus a shared outbound buffer and a write lock | the same | `cmd_task`, `reader_task` and a feeder per claimed stream, on one cooperative thread | two tasks flush one buffer; a lock held across awaits |
| in-guest provider, connect (`connect.rs`) | none that stays | address walk, TLS, handshake | `wasi:sockets`, `polymorph:tls` | fallbacks, a timeout over all of it |
| JS polyengine host (`js/polyengine/websocket.ts`) | a platform WebSocket, flags, one waiter queue, the close timer | the same as the contract | the event loop | events arrive after the state they announce |
| JS componentize shim (`js/componentize/websocket.js`) | readyState, send queue, receive loop | the browser's WebSocket class over the contract | any of the hosts | deferred sends, order of events |
| conformance suite, web platform tests, examples, scripts | - | tests and callers | - | not modelled: no protocol of their own |

What makes each of them correct is the same list: the state only advances;
messages are received in order, each once, and none is lost unless a local close
or an overflow says so; memory for unread messages is bounded; an error tells
the truth; a send that succeeded was written, before any close frame; the close
outcome is latched before anything reports the end; closing ends in bounded
time whatever peer and transport do; nobody who waits is forgotten.

## Modules

| module | models |
|---|---|
| `WsContract` | what the contract promises of one open connection, without tasks or transports: the abstract specification |
| `CloseArgs` | `validate_close_args`, `close_info_from` (`websocket.rs` 374-410), which all implementations share |
| `HostConnection` | one open connection of the Wasmtime host |
| `HostProperties` | its properties, its inductive invariant, its refinement of `WsContract` |
| `MCHostConnection` | small instances for TLC |
| `HostTyping`, `HostSteps`, `HostKept`, `HostProofs` | its proofs: types; lemmas on sequences and sends; the inductive invariant; the theorems, with the one that it implements `WsContract` |
| `GuestProvider`, `ProviderProperties`, `MCGuestProvider` | the same for the in-guest provider |
| `ProviderProofs` | its proofs, and that it implements `WsContract` |
| `PolyengineHost`, `PolyengineProperties`, `MCPolyengineHost` | the same for the JS polyengine host, with its `connect` |
| `PolyengineProofs` | its proofs, and that it implements `WsContract` |
| `Implementations` | which of the two Rust implementations runs, where one module has both |
| `Connect` | one call of `connect`, of either Rust implementation |
| `StreamSend` | one call of `send-via-stream`, of either Rust implementation |
| `Session`, `MCSession` | the two composed: a stream over a connection that was connected; their properties; the instance |
| `SessionProofs` | their safety proofs |
| `ComponentizeShim`, `MCComponentizeShim` | the WebSocket class of `js/componentize`, over `WsContract` |
| `ShimProofs` | its proofs |

### HostConnection

Two threads. The guest's operations run one at a time, since they run in the
component's store; `op` is the control point of the running one and every other
guest action waits for `op = "idle"`. The pump is one task on another thread;
`pump` is its control point. A step is what happens between two touches of shared
state, so the two interleave wherever the program can.

| code | model |
|---|---|
| `StateCell::advance` | `Advance` |
| `InboundBudget::reserve`, check and add | `PumpData` (with `Fits`), then `PumpReserves` |
| `InboundBudget::release` after a reader took a message | `ReceiveTakes` or `StreamTakes`, then `ReaderReleases` |
| `Websocket::close`: advance, fire, enqueue | `Close`, `CloseFires`, `CloseEnqueues` |
| `receive`: `select_biased` over claim, close, queue | `Receive`, `ReceiveSignalled`, `ReceiveLocks`, `ReceiveTakes`, `ReceiveEnds` |
| `InboundStreamMessages::poll_produce` | `StreamRead`, `StreamLocks`, `StreamTakes`, `StreamEnds`; `StreamDropped` |
| `Pump::run`'s biased select | `PumpSend`, `PumpClose`, `PumpCmdsDone` before `PumpData` .. `PumpEnd` before `PumpDeadline` (guards `CmdReady`, `Reads`) |
| `bounded_write` | `StartWrite`, then one of `WriteAccepted`, `WriteFails`, `WriteSeesLocalClose`, `WriteTimesOut` |
| the end of `Pump::run`, line by line | `PumpPublishes`, `PumpEndsQueue`, `PumpClosesCmds`, `PumpDrains`, `PumpLatches`, `PumpFires` |

Data: a message is its number, its size comes from the constant `Offset`;
payload bytes, text against binary and reason texts are left out. Time exists
only as "the deadline passed". The peer and TCP are external and unrestricted
within the bounds: data, pings, an oversized message, one close frame, an end at
any moment; a write is taken, fails, or stalls.

### GuestProvider

One cooperative thread, so a step is what runs between two awaits; the
finalization of `reader_task` and most operations are one step each. `at[t]` is
where the command task and the reader task are: in their loop, waiting for the
write lock, writing, ending. `outbound` is the shared buffer both flush,
`writeLock` its lock, `bound` what bounds the write that runs. The `feeder` moves
messages from the queue to the guest's stream and holds the queue lock while it
lives. A write hands its frames to the transport one at a time, and may stall
after each; one that the deadline cancels may have handed one more.

`reply` is the pong or close frame tungstenite owes the peer. The comments at
`pump.rs` 463-469 take it to be in the buffer when the read returns. tungstenite only
keeps it back there, and writes it with its next read (`ReaderWritesReply`) or behind
the next frame that is sent (`SendsFrame`); the flush at 466 or 471 does not see it.
So a reply can stay in the buffer until something else is flushed, which the run
`ProviderReply` shows, and a pong can follow a close frame. `ReaderWritesReply` is a
step of its own although the code has no await before the next read: the model has
every behaviour of the code and some more.

### Connect, StreamSend, Session

The host's and the provider's `connect` are the same algorithm, and so are their
`send-via-stream`s; one module describes each pair and names where they differ.

`Connect` walks `step` from the checks of the arguments over trust anchors,
lookup, the address walk (`untried`, `tried`), TLS, the upgrade and the check of
the subprotocol to an `outcome`; `open` is what the call holds at each moment.
`TimesOut` can strike at every step the bound covers, and the network stays silent
as long as it likes: none of its steps is fair. The host leaves lookup to upgrade
to a library (`connect_async_tls_with_config`), so those steps are external for it.

`StreamSend` has the guest writing stream-messages and payload bytes, the
collectors (`ByteCollector`; `read_one` and `collect_payload`), and the call
itself. They differ in three ways: the host's consumer reads every
stream-message there is and collects all payloads at once, the provider takes
one at a time; the host's selects look at their input first, the provider's at
the local close; and the host abandons a message that waits for its answer at a
local close, the provider does not. What happens to the one message in `cmd` is
the connection modules' matter: it is transmitted (`Transmit`), refused before
anything is written (`Refuse`), or its write fails or meets the deadline
(`WriteFails`). In that last case the message is answered with an error although
the transport may have it, and the write half is dead.

### ComponentizeShim

One job of the event loop per step. `queue` is the promise chain `#sendQueue`,
`loop` and `settle` are where the two tasks `#receiveLoop` and `#settle` stand, `events`
is what was dispatched; listeners (`"turn"`) may call every operation before the
task that dispatched goes on. The runtime may fail to read a Blob (`BlobFails`): that
send goes no further, and the next one has its turn. The host is `WsContract` itself plus
the moments at which a call is answered, so the safety properties hold over each of the
three implementations that refine it. `ClosingCompletes` also takes for granted that a
closing connection closes. Each of the three closes in bounded time after a local close,
but for the runs `HostFlood` and `ProviderDeadline`: under an endless stream of
frames, or behind a write that stalled before the peer closed, the
connection and with it the class stay in closing.

### PolyengineHost

One event loop: a step is what runs between two awaits, or one event's listener.
`conn` is where `connect` is, with the AbortSignal (`aborted`) at every moment of
it; `messages`, `waiters`, `buffered`, `overflowed`, `closed` are the locals of
`incomingQueue`; `closeDeadline` is the timer the resource holds, `timers` the ones
that run, which are not the same once `close` overwrites an overflow's.

The platform's WebSocket is external, after the W3C interface: it reports its
events in order (`tasks`), drops messages that arrive while it is not OPEN, shows
CLOSED in `readyState` before the `close` event, and fires `error` first when the
connection failed. The guest may run between any two of these, promise reactions
being able to run between two listeners. `AbnormalCodes` are the codes the
platform makes up. Sizes are the queue's only view of a message.

### WsContract and the refinements

`WsContract` has a handful of actions over: what `state` reports, the receivable
messages, what was received, what went out, the outcome. All three connections are
shown to implement it under the mapping at the end of their properties modules:
a local close empties the abstract inbox at once, though the code leaves the
queue to be dropped; a reply to the peer's close frame is a close frame; the JS
host is `closed` when its close has settled, although `state` says so from the
platform's CLOSED on (and says `closing` again if the guest closes in between).

## Runs

| run | question |
|---|---|
| `Host` | order, budget, overflow, honesty of errors and of acks, close frames, the outcome, precedence of the signals; every step is a step of the contract |
| `HostClosing` | closing ends, sends in flight are answered and readers woken, over a transport that may stall forever; over a transport that ends every write, its death is noticed and sends are answered |
| `Provider` | the same safety questions for the provider, and that no task's message or close frame is stranded in the shared buffer |
| `ProviderClosing` | a local close ends, and answers a send, whatever the transport does; pending receives and an idle feeder are woken |
| `PolyengineHost` | no socket is left open by a `connect` that failed or was aborted; queue, errors and claims; sends counted; bounded closing; every step is a step of the contract |
| `Session` | what `connect` hands out was checked and agreed, in time, and a failure leaves nothing behind; what `send-via-stream` counts went out, in order and whole, and the count is one behind only when the last write failed or a local close made the host abandon it; both calls end |
| `Shim` | the events of the class tell the truth, in order; sends reach the connection in order, all but the Blobs that could not be read; every close completes; `bufferedAmount` is exact |

Runs that find a disagreement between a document and the code (each quoted in
`PROJECT.json`, "findings"):

| run | what happens |
|---|---|
| `HostCloseNoOp` | `close()` after the peer's close discards the backlog; the WIT calls it a no-op |
| `HostFlood` | a peer that never stops sending starves the deadline arm of the biased select |
| `ProviderDeadline` | a write that began before the peer's close waits for a local close only; the reader waits behind it and never looks at the deadline |
| `ProviderReply` | the flush after a ping or the peer's close frame finds no reply; the next read buffers it, and the reader waits for bytes with the reply unsent |
| `ShimSendThenClose` | `send(x); close()` in one job: the close reaches the connection first, and `x`, sent while OPEN, is discarded without a word |

### Bounds

*Connections.* Three messages of sizes 1, 2, 1 against a budget of 2, so that messages
fit, fit only alone, and overflow behind one that is queued; two sends, so that
one is written while one is queued; one close that is valid and others the
arguments forbid; one frame in flight from the peer, because the pump reads frames
one by one and a longer wire only delays what it brings (two in `HostFlood`, where
one is replaced while the other is read). Symmetry among calls, in safety runs only.
The JS run has one reader, which may call `receive` again and again, one send besides
one streamed element, and messages of sizes 1 and 2, which overflow together.

*One side at a time.* `Host` and `Provider` explore the connection under the
constraint `EitherSide`: all messages, the receives and the stream, without sends;
or all sends, with a message or with pings, without readers; both with the closes
and every end. A constraint cuts behaviours off, it invents none, so a violation
TLC reports is real; what it does not reach is a send and a read of several
messages in one behaviour. The two meet only in the flags of the closing, which
each side sees being set by the other's causes: the inbound side has overflows and
peer closes, the outbound side failed writes. The proofs have no such bound.

*Liveness.* `HostClosing` has `OneKind` in place of that: sends, or readers, and
both readers together only while the peer sends nothing. No fairness makes the
guest begin a call or the peer send a frame, so leaving such a step out
of a behaviour leaves nothing unfair: what was begun is still explored to its end.
`ProviderClosing` needs no constraint.

*Calls.* `Session` has every single reason to refuse a URL or an offer, bundles of
roots that are absent, malformed, empty and sound, up to two addresses, so that one
is tried after another failed, and every selection a server may make: offered,
not offered, none. The stream has two elements, each sound, shorter or longer than
declared, or no text; it is explored over the one connect of `OneRequest`, since
what follows does not depend on how the connection came about. `Shim` has three
sends, so that one runs, one waits and one is a Blob still being read, two
messages, and closes with and without a code, with a reason only, and two that throw.

`CHECK_DEADLOCK FALSE` everywhere: a closed connection, a returned call stop.

### Fairness

Weak fairness on the pump, on the provider's tasks and on the guest operations
that are already running: the executors poll a task that is ready again. In the
host the deadline eventually passes once armed. On the JS hosts: the event loop
runs what is ready and a timer that runs fires. In `Session` the call, its
collectors and the clock; the connection answers a command once it is closing,
which `HostClosing` and `ProviderClosing` show. In `Shim` the continuations, the end of the
reading of a Blob, well or not, and of the contract only that an answer that is due comes
and that a closing connection closes, which is a premise: see ComponentizeShim above. None on the peer, on the transport, on the network of a `connect`, or on the
guest starting an operation. That the transport ends every write is a premise
of the two properties that need it (`TransportFair`), and part of
`FairTransportSpec`, which `HostFlood` uses so that the starvation it shows is the
select's and not the transport's.

## Proofs

Every theorem holds for any sets of calls, any number of messages, any sizes, codes
and bounds, under the assumptions on the constants that the modules name.

**The Wasmtime host** (`HostProofs`): every safety invariant and action property of
`Host`. The properties are not inductive. The budget is exact only because what is
reserved still fits when the addition comes, which needs that a reader only
makes room (`BudgetKept`); order needs that the frames in flight bring the
messages from the next one on, each once (`OrderKept`, `WireKept`); a close frame
is last because a pump that began to close writes no data frame (`CloseKept`); an
ack is honest because a message is in one place only (`SendsKept`); the outcome is
latched because each shared cell says how far the end of the pump has come
(`LifeKept`); a loss has a cause (`SignalKept`, `CauseKept`, `WireEndKept`).
`Kept` is their conjunction. `HostTyping` proves `Typed` inductive by itself;
`HostKept` proves `Kept` inductive given the types, one step per action;
`HostProofs` derives each theorem.

**Its refinement** (`HostProofs`): `HostImplementsContract`. On top of `Kept` the
mapping needs that a close that has begun has moved the state (`Started`), that the
outcome is one the peer's codes allow (`Reported`) and that pongs are not
recorded (`NoPongs`); each action is then shown to be one named step of `WsContract`
or to leave its variables alone.

**The JS polyengine host** (`PolyengineProofs`): types, honest errors, exact counts,
`NoSocketLeaked`, and that the signals win. The inductive invariant ties the
readyState to where `connect` is (`SocketKept`), says that the platform's pending events
bring the messages from the next on and that nothing follows the end (`TasksKept`,
`QueueKept`), that a waiter waits once and only the stream still waits after the claim
(`WaitersKept`), and that the stream of sends has handed over what it took
(`ViaKept`). That a waiter means an empty queue (`QueueConsistent`) is part of it.
The refinement (`PolyengineImplementsContract`) adds, in `View`, that nothing arrives
before the connection is handed over (`FreshKept`), that the next message is the one
after all that were taken or queued (`FollowsKept`), that a close frame is the last
that was handed to the platform (`FramesKept`), and that the outcome comes with the
settlement (`SettledKept`).

**connect and send-via-stream** (`SessionProofs`): `TypeOK` with `PayloadsBounded`,
`ConnectHonest`, `SentIsHonest`. `ConnectKept` says what each step of `connect` may already
rely on; `StreamKept` what the current element's collection and the one
command in flight have to do with the count: the two differ by at most the message in
`cmd`, and only once its write ended, well or not.

**The in-guest provider** (`ProviderProofs`): every safety property of `Provider`. Two
tasks share the outbound buffer, so the invariant is about whose frames are
where: the write lock is held by the one task that writes, and for as long as frames are
left (`LockKept`); a message is in one place only, and a task that waits for the
ack of a send finds that message ahead of it, in the buffer, in the other task's
write or with the peer (`SendsKept`); once a close frame is buffered nothing but a pong
is put behind it, and at most one is ever written (`CloseKept`, with `CloseWritten` for
the time in which tungstenite still owes the peer its close frame). Order needs that the frames not yet read bring the next
messages, each after those before it, and none once the peer's close was read
(`ComingKept`, over the concatenation of what the reader was given and what is on its
way); the budget is exact because what it counts is a difference of offsets
(`InboxKept`); a loss has a cause and the outcome is latched with the end of the queue
(`CauseKept`). The refinement (`ProviderImplementsContract`) adds that the claim is
never a frame (`PlainKept`) and that nothing but the end of the reader makes the state
closed (`EndsLate`).

**The JS shim** (`ShimProofs`): every safety property of `Shim`, over any connection
the contract allows. Its invariant has a part for each thing the class juggles: the
connection numbers its messages and keeps its outcome (`ConnKept`); until the class
has it, it connects or a close waits, and the settlement is the only end of one that
has it (`FieldsKept`); nothing follows an error but a close, and the open event is
what started the receive loop (`EventsKept`); the chain holds the last sends by
consecutive numbers and only the first of them has begun (`ChainKept`), which is why
none overtakes another although any may be a Blob; each that has begun was passed to the
connection or could not be read (`PassedKept`); and `bufferedAmount` is the last of
the running sums over the chain (`BytesKept`). `TypeOK` computes that sum by a
recursive function. The proof never unfolds it: it shows that running sums exist after
each change of the chain, and that they are unique, since two that differ
would differ at a least place (`Least`, `SumsUnique`).

**What the liveness properties rest on.** Fairness and ENABLED are out of the
prover's reach. But a wait ends only if at every moment something is there that will
end it, and that is an invariant. It is stated beside each liveness property, in no
run's configuration, and proved for every value of the constants:

| theorem | what it says | inductive part |
|---|---|---|
| `ClosingIsAlwaysTimed` (host) | a closing host has its deadline, or the close that arms it is on its way; a write is bounded; an unanswered send is in the pump's hands | `Timed` |
| `LockIsAlwaysAwaited` (host) | the holder of the inbound queue's lock still waits for a message | `ReadersKept` |
| `PolyengineClosingIsTimed` | an unsettled close has a timer; nobody waits after the settlement | `SettlingKept`, `PullKept` |
| `ProviderClosingIsTimed` | a local close has a deadline or a command yet to be taken; an unanswered send has a task that answers it | `TimedKept`, `SendsAwaited` |
| `ProviderLockIsAwaited` | the lock's holder goes on; a claimed stream has its feeder or the command that spawns it | `HolderKept`, `FeederKept` |
| `CallsCanAlwaysEnd` | a failed connect leaves only a task that ends by itself; a stream of sends waits only for what is under way | `LetGo`, `TakenKept` |
| `EndIsAlwaysAwaited` (shim) | an accepted close is never refused by the connection; a class with a connection waits for its end | `AwaitedKept` |

That the wait then does end (the timer fires, the task is scheduled, the promise is
settled) is what TLC checks, under the fairness stated above, on the small instances.

Only model-checked: the liveness properties themselves. Every safety property of
every passing run is a theorem.

## Not modelled

- TLS, certificate checks, the WebSocket wire format, DNS and TCP: libraries and
  hosts, which appear as the external steps of the modules.
- Error texts, log output, generated bindings, type conversions and the record of
  defaults (`error.rs`, `bindings.rs`, `config.rs`): no behaviour over time.
- Text decoding, and what the JS host's `collectByteStream` and its option setters
  compute: their outcomes only.
- The constructor checks of the shim and its stand-ins for `Event`, `EventTarget`,
  `DOMException` and `Blob`: they finish before there is a socket, or hold no protocol.
- The conformance suite, the web platform tests, scripts and examples. The
  suite's guest (`body.rs`) is a sequence of cases against a server that plays a
  scripted peer; it keeps no protocol of its own, and what it asserts of one
  schedule the runs check of all.
- That outbound buffering is bounded (`wit/README.md` 71-73). In the Rust
  implementations a `send` queues its message in an unbounded channel, so what
  bounds it is the guest, which is expected to wait for its sends; the
  models' `Sends` are the calls a guest has in flight, and no property says more.

Behaviours that no property covers, because no document of the repository settles
them: the provider's feeder and the JS stream each hold one message that
survives a local close; between the platform's CLOSED and its `close` event the JS
host reports `closed`, and `closing` again if the guest closes in between; the
shim may dispatch a message of the backlog after its `close` event, and one that was
already handed to it after `close()`; a Blob the shim cannot read is dropped and
nobody is told.

Weaknesses of the code that are modelled but that no run singles out: with two receives
pending, the one that waits for the other's lock (`lib.rs` 99) does not look at the
signals, so when the feeder gets the lock first the claim does not fail that receive, as
`websocket.wit` 243-246 promises it will; nothing bounds the memory of one
`send-via-stream` call of the host, whose consumer runs ahead of the sends. Not a step of
its own: the cancellation of a host stream read that keeps its place (`host.rs`
180); it is a stream that is not polled for a while.
