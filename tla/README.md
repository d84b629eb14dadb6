# Verification of the WireChat SDK

TLA+ models of the four clients of the WireChat chat service (Go, Rust, Python
and C) and of the Go SDK's dispatcher, error classes and REST client, the TLC runs
that check them on small instances, and TLAPS proofs about each of them for every
value of their parameters. The repository holds clients only: the server is
external, and appears here as what a client can observe of it.

## 1. Inventory

### The system

A client opens a WebSocket, sends a `hello` frame (protocol version, token or
user), and then sends `join`, `leave` and `msg` frames and receives `event` and
`error` frames. There are no acknowledgements and no sequence numbers. Four
implementations follow one document (`SDK.v1.md`).

| Component | Sources | State it keeps | Operations | Status |
|---|---|---|---|---|
| Go client | `wirechat-sdk-go/wirechat/client.go`, `internal/conn.go`, `state.go`, `types.go` | `state`, `connected`, `conn`, `cancel`, `joinedRooms`, `reconnectAttempt`, `messageBuffer`, `writeCh`; one reader goroutine, one writer goroutine per connection | `Connect`, `Close`, `Join`, `Leave`, `Send`, `readLoop`, `reconnect`, `rejoinRooms`, `flushBuffer`, `writeLoop`, `setState`, `OnMessage` and the other setters | modelled |
| Go configuration | `config.go` | none | `DefaultConfig` | as constants of the client's model |
| Go dispatcher | `dispatcher.go`, `events.go` | the callbacks | `Dispatch`, `fireError`, `fireStateChange`, setters | modelled |
| Go errors | `errors.go` | none | `ParseErrorCode`, `NewError`, `WrapError`, `FromProtocolError`, `IsProtocolError`, `IsConnectionError` | modelled but for `IsConnectionError` and the texts |
| Go REST client | `rest/` | a token | `SetToken`, one HTTP request per method | modelled, without the payloads |
| Go logger | `logger.go` | none | `Printf`-like methods | not modelled: logging only |
| Go tests | `client_test.go` | | read for what the client is expected to do | not modelled |
| Examples | `examples/` of each SDK | | programs that use the clients | not modelled |
| Python client | `wirechat-sdk-python/src/wirechat/client.py` | `_connected`, `_closing`, `_lock`, `_ws`, `_write_queue`, `_read_task`, `_write_task` | `connect`, `close`, `join`, `leave`, `send`, `_read_loop`, `_write_loop` | modelled but for handlers and payloads |
| Python types and errors | `types.py`, `errors.py`, `__init__.py` | none | data classes, `Outbound.from_obj`, `wrap_error` | not modelled: data |
| Rust client | `wirechat-sdk-rust/src/client.rs` | `connected`, `write_tx`, the shutdown watch, the broadcast channels, the task handles | `connect`, `close`, `join`, `leave`, `send`, `read_loop`, `write_loop` | modelled but for callbacks and broadcasts |
| Rust configuration, events, errors | `config.rs`, `event.rs`, `error.rs`, `lib.rs` | none | data types | not modelled: data |
| C client | `wirechat-sdk-c/src/wirechat.c`, `wirechat.h` | `running`, `hello_sent`, `ctx`, `wsi`, `thread`, the list `out_head` .. `out_tail` under `lock` | `wirechat_client_connect`, `_close`, `_free`, `_join`, `_send`, `service_thread`, `lws_callback` | modelled but for parsing and failing allocations |
| JSON tokenizer | `wirechat-sdk-c/src/jsmn.h` | | vendored, header only | not modelled |
| Server | not in the repository | | | external |

### How the parts of the Go SDK interact

The application calls `Connect` and `Close` from one goroutine; `Join`, `Leave`
and `Send` may come from any number of goroutines and from event callbacks.
They share, under `Client.mu`, the flag `connected`, the buffer and the tracked
rooms, and hand frames to the writers through the channel `writeCh`. The reader
goroutine receives events and runs the callbacks; when its connection is lost it
does the whole reconnection itself: backoff, dial, hello, rejoin of the rooms,
flush of the buffer, and only then the start of a new writer. A writer ends at
its first failed write or with the context, so the writer of a lost connection
may still be there, waiting on `writeCh`, when the next one starts. `conn` is
read by the writers and written by the reader without the lock.

Events, errors and state changes reach the application through the dispatcher. The
reader, the writers and the application's own `Connect` and `Close` call it, each
on its own goroutine, while the application registers and removes callbacks;
nothing of it is locked. `setState` changes the state under the lock and delivers
the event after it has released it. The REST client is a separate object whose only
state is the token.

### How the parts of the other clients interact

*Rust*: one read task and one write task per connection, joined by `close`. The
requests go through a bounded channel to the write task; a watch channel tells
both tasks to stop. The borrow checker keeps `connect` and `close` apart from
requests in progress.

*Python*: one event loop. `connect` makes a queue, a connection and two tasks;
each task calls `close` itself when its loop ends, so that up to three closes are
under way, each cancelling and awaiting the tasks of the others; the lock covers
only the beginning of `close`.

*C*: one service thread per connection runs libwebsockets, whose callback sends
what callers put into a list under a lock. Every other field is shared without
a lock, `running` in particular, which all threads read and write.

### What is hard in it

- *Go, two consumers of `writeCh`* after a reconnection: order, and frames ahead of
  the hello on the new connection.
- *Go, one goroutine for reading, callbacks and reconnection*: a callback or
  `rejoinRooms` that blocks on a full `writeCh` blocks the detection of losses.
- *Go, non-atomic updates*: queueing a frame and tracking the room; emptying the
  buffer and pushing its messages; the flag, the state and the connection; the
  state and its event.
- *Go, Close against a reconnection*: the reader may be anywhere in it.
- *Go, limits*: `writeCh` (16), `MaxBufferSize` (100), `MaxReconnectTries`, and the
  64-bit arithmetic of the backoff.
- *Go, fields read twice without a lock*: a callback for its test and its call, the
  token for its test and the header.
- *Rust*: either task may end without the other, at any await; the stop signal is
  seen at one of two places; a callback may panic; a peer may stop taking bytes.
- *Python*: closes that cancel one another, a connect during a teardown, and tasks
  that look at `_ws` and `_write_queue` as they are now.
- *C*: a thread that is joined or not, contexts and connections freed while others
  use them, wake-ups, a flag that serves as order and as state.

`PROJECT.json` lists each hazard at its line, with the properties that watch it.

### What makes each component correct

- The clients: sections 3, 7, 8 and 9. What they have in common is stated once, by
  `Outbox`: a request is written at most once, and not after it was lost.
- Dispatcher and errors: what arrives reaches the callback of its kind, once, and no
  other; the class of an error should tell its cause, and does not always (section 4).
- State events and reconnection: the application can follow the state by the
  events; the delays are the documented ones (section 5).
- REST: a request carries the token that was set; what changes the server is not
  repeated (section 6).

## 2. Plan

Done:

1. `GoClient`, `GoClientProps`, `Outbox`, `GoClientProofs`: the core.
2. `RustClient`, `PyClient`, `CClient`, each with its properties and a mapping to
   `Outbox`.
3. `GoErrors`, `GoDispatch`: the dispatcher with the goroutines that call it, and
   the error classes.
4. `GoReconnect`, on top of `GoClient`: state events and the backoff.
5. `GoRest`.
6. Proofs about each of them: section 3 and on; `Tally` and `TallyProofs` hold the
   facts about requests, frames and counts that the proofs of the clients share.

Left:

- the decoders: what each of the four clients makes of a frame, as operators against
  the table of the protocol;
- the registration of callbacks and the broadcast receivers of the Rust client, the
  handlers of the Python client, failing allocations in the C client.

Each model has its properties in a module of its own, or at its end where they are
few, and an MC module that the runs check; theorems go into one module per model.
`Outbox` is shared, as the promise about requests that all clients make. Modules
that are proved about declare no RECURSIVE operator.

Operators marked *Mutant* vary the definition that follows them by a plausible
bug. They show that each property is sensitive to the code, and are not part of
any `Next`.

## 3. The model of the Go client

### Modules

| Module | Contents |
|---|---|
| `GoClient` | the state and the steps, `Init`, `Next`, `Spec` |
| `GoClientProps` | type invariant, safety, the mapping to `Outbox`, fairness, liveness, and a documented promise that the code breaks |
| `Outbox` | the abstract promise about requests: written at most once |
| `Tally` | counting frames and requests, for the mapping |
| `MCGoClient` | the module the runs check |
| `GoClientProofs` | inductive invariant and theorems |

### State and steps against the code

The fields of `Client` keep their names. `started` stands for `cancel # nil`,
`ctxDone` for the cancelled context of the loops. A connection is a number;
`link` is what the WebSocket library knows of it (`open`; closed by the peer with
status 1000, `normal`; otherwise `down`) and `wire` is the sequence of frames
that were handed to it. The variables `mpc`, `rpc`, `wpc` and `cpc` are the
places of the application, the reader, the writers and the callers; each name of
a place is a line of the code between two steps. A step is one critical section,
one channel operation, one call on a connection, or one unlocked access.

| Code | Actions |
|---|---|
| `Connect` | `ConnectCall`, `ConnectDialFails`, `ConnectDials`, `ConnectHello`, `ConnectHelloFails`, `ConnectUp`, `ConnectSetState`, `ConnectSpawn` |
| `Close` | `Close`, `CloseSetState`, `CloseConn` |
| `readLoop` | `ReadStops`, `ReadLost`, `LostSetState`, `NoAutoReconnect`, `Retry`, `ReaderCancelled`, `Respawn` |
| `reconnect` | `ReconnectAttempt`, `GiveUp`, `WaitElapses`, `RedialFails`, `Redials`, `AssignConn`, `Rehello`, `RehelloFails`, `ReconnectUp`, `ReconnectSetState` |
| `rejoinRooms` | `RejoinSnapshot`, `RejoinSend`, `RejoinBuffers`, `RejoinPush`, `RejoinFails`, `RejoinDone` |
| `flushBuffer` | `FlushTake`, `FlushPush`, `FlushEnds` |
| `writeLoop`, `Conn.Write` | `WriterTakes`, `WriterLoads`, `WriterWrites`, `WriterFails`, `WriterCancelled` |
| `send`, `Join`, `Leave`, `Send` | `CallConnected`, `CallBuffers`, `CallRefused`, `Push`, `PushCancelled`, `Track` |
| the network | `LinkDrops`, `ServerCloses` |

Abstractions: the text of a message, the payload of the hello and the room of a
`msg` frame are left out; a call has an identity so that its frame can be
followed. The backoff is a wait of any length (its length is the subject of
section 5). A write on an open connection
succeeds; a write that times out makes the library drop the connection, which is
`LinkDrops` before `WriterFails`. `reconnectAttempt` stays at `MaxAttempt`, which
is above `MaxReconnectTries`, so that the test of line 270 is not affected. A
write under a context that was just cancelled may succeed or fail. The order in
which `rejoinRooms` takes the rooms is arbitrary, as in a Go map. A callback
(`Handlers`) is a caller that runs on the reader: the reader does nothing while
the callback is in a call. That is where event callbacks run; `OnStateChanged` and
`OnError` run in `Connect`, in `reconnect` and in a writer as well
(`client.go:100`, `:458`, `:480`). A request that one of these makes is for the safety
properties that of any caller at the same moment. That its goroutine waits for it is not
modelled, and so the liveness properties are for callbacks of states and errors that do
not send.

Usage assumed: `Connect` and `Close` come one after the other from one
goroutine, `Connect` is repeated only after it failed and `Close` is last, as
`wirechat-sdk-go/README.md` lines 177 and 218 ask.

### Properties

| Property | What it says |
|---|---|
| `ReadyMeansHello` | a client that is `connected`, or in state Connected, has written the hello on its current connection |
| `WriterAlive` | a live connection that is being read has its writer |
| `BufferDrained` | after a reconnection nothing stays behind in the buffer while the client is connected |
| `StaysGivenUp` | from Error, once started, the state goes only to Closed |
| `AtMostOnce` | the client implements `Outbox`: no request is written twice, nor after it was lost or refused |
| `InOrder` | requests of a caller reach a connection in the order of the calls |
| `RoomsAgree` | with nothing in flight, each room is tracked or not as one of the callers last told the server; what only one caller joins and leaves is tracked as the server has it |
| `CloseStops` | after `Close` the reader and all writers end, unless a callback waits in a call |
| `LossNoticed` | a client does not stay `connected` on a connection that is down, unless `Stuck` |
| `Resumes` | a successful reconnection gets back to reading, unless `Stuck` |

`Stuck` is one state only: the reader, in `rejoinRooms` or in a callback, waits for a
place in a full `writeCh`, and every writer has ended. That nothing else can keep
the client from noticing a loss, from resuming and from stopping is what the three
liveness properties show; the exception is needed, and a deadlock of the code
(section 10).

### Runs and bounds

| Run | Configuration | Result |
|---|---|---|
| `go_safety` | auto-reconnect, buffering, one caller, one callback, one room, buffer and channel of 1, 2 connections, 2 calls, 1 try | holds: types, `ReadyMeansHello`, `WriterAlive`, `BufferDrained`, `StaysGivenUp`, `AtMostOnce` |
| `go_plain` | the default configuration: no auto-reconnect, no buffering; 2 callers, 1 room, channel of 2, 3 calls, symmetric callers | holds: `InOrder`, `RoomsAgree` |
| `go_live` | fair; auto-reconnect, buffering, a callback that joins a room, buffer and channel of 1, 2 connections, 2 calls | holds: `CloseStops`, `LossNoticed`, `Resumes` |
| `go_close_race` | auto-reconnect, no calls | `ClosedNotConnected` fails: `Close` during a reconnection |

`InOrder` and `RoomsAgree` hold without auto-reconnect and fail with it: the writer
of the lost connection and the new one consume `writeCh` side by side. `RoomsAgree`
leaves open what the last word on a room is when two callers differ, one joining it and
the other leaving it at the same time: they may track in the other order than they
queue, so that `joinedRooms` says the opposite of what the server has, and
`wirechat-sdk-go/README.md:177` allows such calls. It does not leave open that a room is
tracked that was never joined, or kept after its only caller has left it. Two callers
and three calls are the least in which one of them joins and leaves while the other
comes between. Two
connections give one reconnection with the writer of the first connection still
there, and one that fails and is tried
again; capacities of 1 make the full channel and the full buffer ordinary; two
calls are enough for one request in each of two places at the same time. The
client may stop for good (closed, given up), so deadlock is not an error in these
runs; that it stops only where it should is what the liveness properties say.

### Fairness

Weak fairness of `Connect`, of `Close`, of the reader and of each writer: the Go
scheduler runs what can run, timers fire, dials and writes are bounded by
`HandshakeTimeout` and `WriteTimeout`. Strong fairness of `Push`: a sender
blocked on a channel is served in its turn. There is none for calls, for the end
of a caller's context, for the network, nor for the choice between a dial that
succeeds and one that fails.

### Proofs

`GoClientProofs` proves, for any callers, rooms and values of the constants that
satisfy the assumptions of `GoClient`:

| Theorem | Statement |
|---|---|
| `TypeCorrect` | `Spec => []TypeOK` |
| `HelloBeforeReady` | `Spec => []ReadyMeansHello` |
| `WriterStaysAlive` | `Spec => []WriterAlive` |
| `BufferIsDrained` | `Spec => []BufferDrained` |
| `GivenUpForGood` | `Spec => StaysGivenUp` |
| `RequestsSentOnce` | `Spec => AtMostOnce`: the client implements `Outbox` |
| `RequestsInOrder` | without auto-reconnect, `Spec => []InOrder` |
| `RoomsFollowTheWire` | without auto-reconnect and buffering, `Spec => []RoomsAgree` |

Of the assumptions on the constants one is worth naming: `SdkAssumption`, that the
frames of the client itself (hello, rejoin) carry no caller's name.

The first five follow from `Invariance`, `Spec => []IInv`, where `IInv` is the type
invariant with six parts, each needed by another: `PhaseInv` (Connect and the
reader exclude one another, and a goroutine runs only on a real connection),
`HandInv` (a caller in a call has one frame in hand, which types `Push` and
`Track`), `HelloInv` (between the change of `conn` and the hello neither the
flag nor the state say connected), `WriterInv` (a writer never uses a connection
older than its own, so that the writer of the current connection cannot die of
another's failure), `BufferInv` (from the flush on), `GivenUpInv` (Error after
the start means that the tries are exhausted or the reader is gone; the counter
cannot fall back). `WriterAlive`, for example, is not inductive without the order
of connections: a writer fails because of `link[wconn[w]]`, and the property
speaks of `link[conn]`.

`RequestsSentOnce` rests on `RequestInvariance`: with `IInv`, each request is in one of
the boxes that a request can be in, once (`QInv`): its caller's hand in `send`, the
buffer, `writeCh`, the batch of a flush, a writer's hand. A step leaves the boxes
alone, adds to one, empties one, passes the head of one to another, or pours one into
another (`StepOwn`, `StepAdd`, `StepClear`, `StepWrite`, `StepPass`, `StepTake`,
`StepMove`, `StepPour`, on the lemmas of `TallyProofs`), and each of these keeps
`QInv` and is a step of `Outbox` or a stutter (`Good`). What is left to show of an
action is which boxes it touches. Only a write needs more: `WriterInv`, for the
connection written to to be one.

`RequestsInOrder` and `RoomsFollowTheWire` are about one sequence, `Line`: what is
written on the connection, what the writer has in hand, and `writeCh`. Without
reconnection there is one connection and one writer (`OneConn`), so that a step adds a
frame at the end of the line, moves a frame within it, or loses the one in its middle
when a write fails. `TurnInv` says that the line is in order for each caller and that the
frame a caller waits to push is younger than all of its frames in the line; the lemmas
about `Ordered` and `Ahead` in `TallyProofs` carry it through each of the three.
`RoomsInv` says that for each room the line agrees with `joinedRooms` as `RoomsAgree` asks,
or that a caller which has pushed and not yet tracked is about to make it so; the lemmas
`LastWordNext` and `AgreesNext` say what a frame at the end of the line changes. It holds
for any number of callers, since each is its own author of last words: what another one
queues does not end them. It holds while the connection is `Intact` only: a frame lost in
the middle breaks it, and by then the link is down or the context cancelled, where
`RoomsAgree` promises nothing. The hypotheses of both are needed: TLC finds `InOrder`
violated with auto-reconnect, and `RoomsAgree` with auto-reconnect (two writers) and with
buffering (`Join` tracks a room that waits in the buffer, and that a plain connection
never sends).

Only model-checked: the liveness properties, which are beyond the prover. The bounds `MaxConns` and `MaxCalls` are constants of the theorems
too: any number, but finite.

## 4. The dispatcher and the errors of the Go SDK

`GoErrors` has the codes of `errors.go`, the table of `String`, the table of
`ParseErrorCode`, and `IsProtocolError`. A Go error is the chain that `errors.As` walks: a sequence of codes,
the outermost first. `GoDispatch` has the goroutines in the dispatcher;
`GoDispatchProps` what an application may expect of its callbacks.

`registered` is the set of the dispatcher's fields that are not nil; `pc`, `hand`,
`due` and `told` are a goroutine's place, what it delivers, the call it is about to
make and the calls it has made. `lapsed` and `unsafe` are history: which fields were
nil at some time during a delivery, and whether one was removed between its test and
its call.

| Code | Actions |
|---|---|
| `Dispatch` | `Begins`, `RouteError`, `RouteOther`, `Ignore`, `SwitchEvent`, `UnmarshalFails`, `MakeCall`, `Return` |
| `fireError`, `fireStateChange` | `Begins`, `Fire`, `FireNobody`, `MakeCall`, `Return` |
| the setters, `OnMessage` to `OnStateChanged` | `Register`, `Remove` |

An event is its name and one bit: whether its payload can be unmarshalled. What each
goroutine delivers is `ItemsOf`: frames of the server, the errors of `readLoop` and
`reconnect` and state changes (reader), the error of a failed write (writers), state
changes (application).

| Property | What it says |
|---|---|
| `HeardOnce` | what is delivered reaches its callback exactly once, if that is registered throughout |
| `NothingElse` | in every case there is at most one call, and it is for what is in hand |
| `PanicTakesRemoval` | a nil callback is called only if one was removed between its test and its call |
| `ServerErrorsAreProtocol` | an error that the server sent is one of `IsProtocolError`: this is what the comments say, and it fails |

`go_dispatch` checks the first three with the reader, the application and one writer, one kind of
event, and a code of the protocol next to one that the client does not know. One
event is enough because the events differ by their field only, and the fields that
matter to a delivery are its own, the one for errors and the one for states; one
writer because goroutines meet only in `registered`. The model never stops but by the
panic.

`go_error_classes` finds `ServerErrorsAreProtocol` violated with the same constants. An
error frame with a code that the client does not know becomes `ErrorUnknown`
(`errors.go:100`), which the range of `IsProtocolError` leaves out, although line 171 says
that protocol errors are those that come from the server and line 12 counts `ErrorUnknown`
among them. An application that tells the two kinds of errors apart as
`wirechat-sdk-go/README.md` shows takes such an answer for neither.

`GoDispatchProofs` proves the first three (`EverythingHeardOnce`, `NothingElseHeard`,
`PanicsOnlyByRemoval`) and the types (`DispatchTypes`) for any
writers, events and codes. The invariant says, for each place in the dispatcher, why
the goroutine is there: which calls its item justifies (`Justified`), and that a call
that is not the wanted one needs a field that has lapsed. A goroutine does not change
what another one has in hand, so that one goroutine's part is inductive together with
`registered` alone. `NamesParse` is about the two tables of `errors.go`, which are written
down separately: `ParseErrorCode` reads what `String` writes for the codes of the protocol,
and takes the name of any other code for unknown.

## 5. State events and backoff of the Go client

`GoReconnect` extends `GoClient`: its steps are those of the client, each goroutine
waiting while it has an event to deliver (`firing`). `By` adds to a step of the
application or the reader the event that `setState` leaves; `Fire` is the callback.
`Delay` is the computation of lines 276 to 291 in two's complement (`Wrap`).

| Property | What it says |
|---|---|
| `EventsChain` | until `Close`, each event begins in the state in which the one before ended |
| `EventsTell` | until `Close`, with no event on its way the state is what the last event said |
| `BackoffDocumented` | each wait is the documented one, doubled from the interval up to the maximum, at every attempt at which the doubled interval fits in a Duration (`Fits`) |

`go_reconnect` has no callers, 3 connections and 12 tries. A Duration has 20 bits and
the largest shift is 10, in place of 64 and 30: the intervals 60 and 511 with
a maximum of 1800 are in the proportion of 1 s to 30 s, and up to the largest interval
that fits at every attempt; 600 is one that does not from some attempt on, and is there so
that the property's condition is not always true. 12 tries are enough for a shift past the largest.

`GoReconnectProofs` proves `EventsTellState` and `EventsFormChain` for any
configuration. The invariant adds to that of section 3 that an event on its way leads
from the state the application knows to the present one; this is inductive because
`Connect` and the reader never run at the same time (`PhaseInv`), which is the only
thing that keeps events in order, as there is no lock. After `Close` they do run
at the same time, and the property ends there.

`BackoffAsDocumented` proves `BackoffDocumented` for any width of a Duration, any shift
below it, any number of tries and any intervals but very small ones: an interval is 0 or
its largest multiple, by 2^30, reaches `MaxReconnectDelay`. The hypothesis is needed.
For an interval of 27 ns or less and a maximum of 30 s the shift stops growing before
the delay is there, and TLC finds the property violated by an interval of 1 in the
run's proportions. What happens where the product does not fit is a theorem of its own,
`OverflowMeansNoWait`: a product that is too large for a Duration, but by less than a
factor of two, is a negative delay, and the client dials again without a wait. With the
64 bits and the shift of 30 of the code this begins at 8.6 s, at attempt 31; the cap on
the shift at `client.go:286` does not prevent it.
`AttemptInv` is the invariant: while the client is away,
`reconnectAttempt` is the number of reconnects since the loss, and before that it is 0,
so that a second loss starts from the first delay again. The rest is arithmetic: the
multiples grow with the attempts (`MultipleGrows`), what fits is not wrapped (`WrapFits`), and past the largest
shift both sides are at the maximum (`DelayDocumented`). The provers know nothing of
powers; that they double (`PowerNext`) is proved by counting the subsets of `1 .. n`, and
that exponents add (`PowerSum`) by induction over a set of numbers, which needs no more
than that a non-empty set of numbers has a least element (`NumbersBySteps`).

## 6. The REST client of the Go SDK

`GoRest`: callers that run any method, and `SetToken`. A string is two words, so that
`SetToken` takes two steps and a read meanwhile may give the old token, the new one
or a mixture (`Torn`). `post`, `get` and `do` are the places `auth` (first read of the
token), `bearer` (second read), `send`, `wait` and `return`; `http.Client` and the
server are external: a request is carried out or refused, may fail before or after
that, and a GET may be sent again by the transport.

| Property | What it says |
|---|---|
| `HeaderRight` | a request that `SetToken` did not overlap carries the token set before the call, or none; `Register`, `Login` and `GuestLogin` never carry one |
| `DoneOnce` | a call that succeeds was carried out; one that changes something is carried out once at most, also if it fails |

`go_rest` has one caller and two tokens: callers share the token alone, which they do
not write. `GoRestProofs` proves both (`TokenIsRight`, `ChangesDoneOnce`) and the
types (`RestTypes`) for any number of callers; its invariant says at each place what
has been fixed by then: at the second read, that without an overlap the token is
still the one of the first.

## 7. The model of the Rust client

`RustClient` (the steps), `RustClientProps`, `MCRustClient`. The fields of
`Client` keep their names; the numbers of `writeTx`, `readHandle` and `writeHandle`
say which connection they belong to. A step runs from one await to the next, and
`select!` is a choice between the steps of its branches. The places of a task are
the awaits of its loop.

| Code | Actions |
|---|---|
| `connect` | `ConnectCall`, `DialFails`, `Dials`, `HelloFails`, `HelloSent` |
| `close` | `CloseCall`, `JoinReader`, `JoinWriter` |
| `join`, `leave`, `send`, `queue` | `Call`, `Queued`, `NotQueued` |
| `write_loop` | `WriterLoops`, `WriterLeaves`, `WriterToldToStop`, `WriterReceives`, `WriterSends`, `WriterFails`, `WriterPanics`, `WriterCloses`, `WriterFlushes` |
| `read_loop` | `ReaderLoops`, `ReaderLeaves`, `ReaderToldToStop`, `ReaderReceives`, `ReaderPanics`, `ReaderLost` |
| the network | `LinkDrops`, `LinkStalls`, `LinkRecovers` |

A send that is given up at its timeout may or may not have reached the wire. The
constants `Panics`, `Stalls` and `Incoming` switch on the callbacks that panic, the
peers that take no bytes and the kinds of frames received. Usage: what `&self` and
`&mut self` enforce.

| Property | What it says |
|---|---|
| `TasksJoined` | with no session, no task of an earlier one is left |
| `LostOnlyWithWriter` | an accepted request is lost only by its own write or the end of its writer |
| `AtMostOnce` | the client implements `Outbox` |
| `CloseReturns`, `CallsReturn` | `close` returns, and so does a request that waits for a place, unless the peer takes no bytes |

`rust_client` checks them all with panics, stalls and write timeouts, a channel of
1, 2 connections, 2 calls, and every kind of frame received, the events that the
client does not know included. Two
connections give tasks of an earlier session next to those of the present one; a
channel of 1 is full after the first call. The exceptions in the properties are
needed: after a panic `close` returns before it has waited for the writer, and
`sink.close()` has no timeout. Fairness: the runtime polls what is ready and timers
fire (weak); the channel serves its waiters in turn (strong, for `Queued`). A
client that is closed stops, so deadlock is allowed.

### Proofs

`RustClientProofs` proves, for any callers, frames and options, any capacity of the
channel and any number of connections and calls, `TasksAreJoined`
(`Spec => []TasksJoined`), `RequestsAreKept` (`Spec => LostOnlyWithWriter`),
`RequestsSentOnce` (`Spec => AtMostOnce`) and `RustTypes` (`Spec => []TypeOK`).

The invariant has two halves. `CInv` is about control: only the newest connection can
have tasks, and while it has them the handles are its own (`Session`); where
`connect` and `close` are (`Stages`). A panic is for good, so `Session` is stated of
histories without one, which is what keeps the exception of `TasksJoined` inductive.
`QInv` is about requests: each is in one place, with its caller or in the line of one
writer, which is its hand followed by the channel (`Line`). Seen as lines, receiving
moves nothing, and every other step takes the head of a line, empties it, or moves a
request from a caller to its end; the lemmas of `TallyProofs` on boxes of requests
(`BoxTake`, `BoxClear`, `BoxAdd`, `BoxMove`) say what each of these does. `Good` is
what is shown of each step at once: it keeps `QInv`, it is a step of `Outbox` or
leaves that alone, and it excuses what it loses.

## 8. The model of the Python client

`PyClient`, `PyClientProps`, `MCPyClient`. The fields keep their names without the
underscore. `cpu` is the task that runs: a step that ends in `GoOn` continues
without letting others in, one that ends in `Await` gives up the event loop.
`cancelled` is the pending `CancelledError`, which a task that awaits another
passes on to it. The places of `close` are the same for the application and the
tasks.

| Code | Actions |
|---|---|
| `connect` | `ConnectCall`, `DialFails`, `Dials`, `HelloFails`, `UndoCloses`, `ConnectFails`, `Connects` |
| `close`, `_cancel_task`, `_cleanup_connection` | `CloseCall`, `CloseWaits`, `CloseNothing`, `CloseStarts`, `CancelRead`, `ReadAwaited`, `CancelWrite`, `WriteAwaited`, `AwaitRaises`, `CleanupCloses`, `CloseEnds`, `CloseInterrupted` |
| both loops | `Starts`, `Leaves`, `Reported`, `LoopInterrupted`, `Exits` |
| `_read_loop`, `_dispatch` | `Reads`, `Receives`, `Handled`, `ReadFails`, `Lost` |
| `_write_loop`, `_write_direct` | `Gets`, `Writes`, `Drained`, `DrainFails` |
| `_enqueue` | `Enqueue` |
| the network | `LinkEnds` |

Usage: `connect` and `close` come from one task (SDK.v1.md section 5.1), in any
order and number.

| Property | What it says |
|---|---|
| `ConnectedUsable` | a connected client has its connection, its queue and both tasks |
| `CloseLeavesNothing` | when `close` returns to the application nothing of the session is left |
| `SentInItsSession` | a request goes out on the connection on which it was accepted |
| `AtMostOnce` | requests are sent at most once (`Outbox`) |
| `CloseReturns` | `close` returns, whoever else is closing |
| `LossNoticed` | a connection that has ended does not stay connected |

`ConnectedUsable`, `CloseLeavesNothing` and `LossNoticed` carry the condition
`~overlap`: `connect` was never called while tasks of an earlier connection were
left. It is needed. `connected` turns false at the beginning of a teardown, so an
application that waits for it and connects again gets its new connection closed
by the old teardown, and is left connected with `_ws` and `_write_queue` None. The
other properties hold without the condition.

`AwaitRaises` is a close that ends because the task that it awaits has failed: a writer
that finds `_write_queue` None, a task whose assertions do not hold at its start. Which
task has failed is left open, as any may in a history with an overlap; in the others none
does, since a client that is connected has its queue.

`py_client` has a queue of 1, two connects and two calls; `py_live`, for liveness,
two connects and one call, so that the write task gets a request, sends it or fails, and
calls `close` itself, next to the read task and the application. A second call adds
nothing to that but time. Fairness: the event loop runs the ready tasks in their order,
and what is awaited ends (timeouts, the bounded closing handshake, handlers that return).
That is strong fairness of each task. What is assumed is weaker and follows from it: weak
fairness of the steps that read a frame, and strong fairness of all other steps taken
together, since TLC's work doubles with each condition.

### Proofs

`PyClientProofs` proves, for a queue of any size and any number of connects and
calls:

| Theorem | Statement |
|---|---|
| `PyTypes` | `Spec => []TypeOK` |
| `RequestsSentOnce` | `Spec => AtMostOnce` |
| `RequestsStayInSession` | `Spec => []SentInItsSession` |
| `ConnectedIsUsable` | `Spec => []ConnectedUsable` |
| `CloseLeavesNothingBehind` | `Spec => CloseLeavesNothing` |

The first three are of every history, those with overlapping connects included, and
their invariants need no part of the teardown's logic. `IInv` says that each request
is in one queue at most, which a task leaves in the same step in which it is written
or lost (`Queued`), that a task that waits for a request waits at a queue that exists
(`Asks`), and that a connection that was never dialled has no frames and is not the
one in use (`Links`). `SInv` adds what keeps a request in its session. A writer left
over from an earlier connection may still wait at its queue when the next one is
dialled; but a request comes to the queue of the latest connect only (`Latest`), and so
a writer that has one to take writes it where it was accepted (`Served`).

The other two are about histories without an overlap. `Turns`, which holds always, says
that one task runs, and that the places between two awaits are its own: this is what
the code has in place of a lock in most of `close`. `UInv` says that only the tasks of
the latest connect are alive (`Alone`) and that the client is in one of four phases.
*Connecting* and *Closed* have no task; *Open* has all four fields and two tasks in
their loops; *Closing* has the four fields and up to three that tear it down, each of
which is past the tasks it has waited for (`InOrderOfClose`). Two clauses of it are the
point of the argument: at most one of the tasks closes, since the other sees `closing`
at the end of its loop, and there is always one who finishes, the application or a task
that is not cancelled. A task whose close is cancelled in the closing handshake leaves
the fields set; the second clause is why that is made good.

The attempt to prove `SentInItsSession` showed that the model had been too permissive: with
three connects, a writer whose request had come could stay where it was until a whole
dial had ended, and send it on the new connection. On an event loop the writer runs in
the next turn, and a dial takes several; the guard `Woken` of `Dials` says so.

## 9. The model of the C client

`CClient`, `CClientProps`, `MCCClient`. A step is one access to a shared field, one
section under the lock or one library call. `context` and `link` say whether a
context or connection is live, down or freed; a use of a freed one sets `misuse`,
after which nothing more happens in the model, since nothing more is known of the
program. `want` is the pending request for a writeable callback.

| Code | Actions |
|---|---|
| `wirechat_client_connect` | `ConnectFails`, `ConnectOpens`, `ConnectRuns`, `ConnectSpawns`, `ConnectSpawnFails` |
| `wirechat_client_close` | `CloseCall`, `CloseJoins`, `CloseClears`, `CloseDestroys` |
| `join`, `send`, `enqueue_outbound` | `Call`, `Enqueue`, `Wake` |
| `service_thread` | `Checks`, `Returns` |
| `lws_callback` | `Established`, `Writeable`, `Pops`, `Sends`, `Closed` |
| the network | `LinkDrops` |

Simplifications: the thread reads `running` and `ctx` and enters `lws_service` in one
step; `lws_callback_on_writable` from another thread is taken to be safe on a
connection that is not freed; received frames change no field. Usage: `connect`
and `close` from one thread, a successful `connect` followed by `close`.

| Property | What it says |
|---|---|
| `NoMisuse` | a use of something freed takes a connection that ended by itself, or a `close` or failed `connect` during a request |
| `OneThread` | a client in use has its one thread, an unused one has none |
| `HelloFirst` | the hello is the first frame of a connection and sent once |
| `SentInItsSession` | a request goes out on the connection on which it was accepted |
| `InOrder`, `AtMostOnce` | requests are sent in order, and at most once, in all histories |
| `CloseReturns`, `Drains` | `close` returns; a queued message is sent while the connection lasts |

`OneThread`, `HelloFirst` and `SentInItsSession` are for the same histories as
`NoMisuse` (the variable `unsafe` tells), and fail outside them: after a loss, a
thread that was not joined may serve the next context, and `close` frees a context
that its thread may be using. `unsafe` is also set when a `connect` fails at its last
step and leaves messages in the list that were accepted meanwhile: the next connection
sends them (`wirechat.c:145` does not clear the list). `c_client` has two
connections, one caller and two calls. Fairness: threads
run (weak); `lws_service` returns
and gets to the events (strong, as the thread is outside it in between). One condition of
each kind per thread is enough, for the steps that go on by themselves and for the events;
fairness of each step would say more than the properties need.

### Proofs

`CClientProofs` proves, for any callers, connections and calls, `MisuseTakesUnsafe`
(`Spec => []NoMisuse`), `ThreadPerSession` (`Spec => []OneThread`), `HelloComesFirst`
(`Spec => []HelloFirst`), `RequestsStayInSession` (`Spec => []SentInItsSession`),
`RequestsInOrder` (`Spec => []InOrder`), `RequestsSentOnce` (`Spec => AtMostOnce`) and
`CTypes` (`Spec => []TypeOK`). None is inductive: that close frees a context nobody uses rests on the thread
being the one of the newest connection (`Threads`), on the fields naming that
connection for as long as the session lasts (`Session`), and on no request being in
progress outside it (`Requests`). `IInv` is these three with `ControlTypes`. The frames
need more: everything in the list, with a caller or with the thread is of the newest
connection, and the list is empty between sessions (`QueueInv`); `helloSent` is false
exactly as long as the connection in use has no frame, and the thread comes to the
list only after it is set (`HelloInv`). `RequestsSentOnce` holds in every history,
the ones with `unsafe` included, so its invariant (`QInv`) uses none of that: each
request is with its caller, in the list or with the thread that took it from there,
whichever thread that is. `RequestsInOrder` is of every history too. Its invariant
(`OInv`) says of each place that a request passes through that what is in it is older
than all that comes behind: the wire of a connection before the hand of the thread that
serves it, that before the list, and that before what the callers have yet to put there,
all by the order of the calls (`Older`; lemmas on `Ordered` and `Ahead` in `TallyProofs`).
What could break it are two threads with a request each for one connection; without a
misuse no two of them serve the same (`OneServer`).

## 10. Not modelled, and other observations

Not modelled: the content of frames and the answers of the server, the logger, the
examples, the callbacks and broadcast receivers of the Rust client and the handlers of
the Python client (that a callback may panic or call back is modelled), failing
allocations in the C client. The liveness properties are model-checked only, being out
of the prover's reach; every invariant and every other property that a run finds to
hold is a theorem as well, under the hypotheses named with it. The type invariants of `GoRest`,
`GoDispatch`, `RustClient`, `PyClient` and `CClient` are theorems, and not checked
again by the runs.

Seen in the models, or on the way to them, without a run of their own:

- Go, reconnection: `rejoinRooms` sends into `writeCh` before the new writer is started.
  With the channel full and the old writer gone the reader blocks for ever, and the
  reconnection that `wirechat-sdk-go/README.md:592` describes does not complete. The
  same happens to a callback that sends when the writer has died; `Close` does not end
  it, as its context is the caller's own. These are the exceptions of section 3.
- Go, a closure by the server with status 1000 stops the reader and leaves `connected`
  set (`client.go:428`).
- Go, the left-over writer may send a request before the hello of the new connection,
  and a room may be joined again after `Leave`, since `rejoinRooms` works from an earlier
  snapshot (`client.go:180`).
- Go, `State()` of a closed client is usually Disconnected, since the reader sets it
  after `Close`, and events may come out of order then.
- Go, after `MaxReconnectTries` the reader calls `reconnect` again without a delay until
  `Close`.
- Go, the flush drops what does not fit into `writeCh` (`client.go:409`), where
  `wirechat-sdk-go/README.md:672` promises that the buffer is sent.
- Go, for an interval of 8.6 s or more the delay is negative from attempt 31 on, so there
  is no wait, although the comment at `client.go:286` speaks of preventing the overflow.
- Go, a callback removed at the wrong moment ends the program (section 4), and a callback
  that panics does too; `SDK.v1.md:454` and `:468` ask for thread-safe registration and
  for panics to be caught.
- Go, `IsConnectionError`, which is not modelled, does not count `not_connected`, which
  `wirechat-sdk-go/README.md:776` lists, and `IsProtocolError` is true of `invalid_message`
  also, which line 773 does not list.
- Go, an error of the server under a code that the client does not know is not one of
  `IsProtocolError` (section 4).
- Go, a `SetToken` during a call may lead to `Bearer ` with an empty or mixed token. The
  errors of the REST client are plain ones, not those of `SDK.v1.md:421`.
- Rust: a frame that it cannot decode, or an event that it does not know, such as
  `history`, ends `read_loop` while the client stays `connected`, where `SDK.v1.md:353`
  says that events go on to arrive.
- Rust: a `close` that comes while the writer sends, or before it has started, drops
  the connection without a close frame. After the reader or the writer has ended
  the client stays `connected` until `close`.
- Python: a request that finds the queue full is reported to `on_error` only. The read
  timeout is 30 s by default and ends a quiet session (`client.py:204`), where
  `SDK.v1.md:61` has none. A message event with a field that the data class does not
  have is an error (`client.py:253`).
- C: after a connection that ended by itself `close` does not wait for the service
  thread, where `SDK.v1.md:293` says that it stops the loops. The result of `send_text`
  is ignored, so `hello_sent` may be set although nothing was sent. `find_key` looks for
  a key among all tokens, values and nested objects included (`wirechat.c:436`).
