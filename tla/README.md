# A TLA+ model of ESP32-ControlLogix

The library lets an ESP32 sketch read and write the tags of a ControlLogix PLC
over EtherNet/IP. It is cooperative: no call blocks, nothing runs in the
background, and `poll()`, called from `loop()`, advances one step of whatever
is going on. What makes it hard is the order of things: a reply that arrives
after its request was given up, a connection replaced while an operation is in
flight, an application that calls back into the client from a callback, a
deadline that passes between two steps.

Paths below are relative to the repository root (`src/PlcClient.cpp` is
the client).

## 1. Inventory

| Component | State | Operations | Hard behaviour |
|---|---|---|---|
| `PlcClient` | `state_`, `wantConnect_`, `deadline_`, the tag pool (`inUse_`, `tagNames_`, `tagPrevStatus_`) | `begin connect disconnect poll createTag destroyTag read write abortTag` | owns the rest; callbacks from inside `poll()`; slots that are recycled |
| `Tag` | `state_`, data buffer, learned data type | `read write poll abort`, accessors | several tags share one message |
| `ExplicitMessage` | `state_`, sender context, deadline, transmit and receive buffers | `send poll abort` | partial writes and reads, late replies, timeouts |
| `Session` | `state_`, `handle_`, deadline, buffers | `open close abort poll` | retries on one connection; sender context not checked |
| `TcpConnection` | descriptor, `state_`, deadline | `connect poll read write close` | refused, closed, reset or silent peers |
| `Client` (Ethernet) | `started_`, `ready_`, `failed_` | `begin poll` | `ready_` is latched |
| `Connection` | `state_`, the two connection IDs, sequence number, sender context, deadline, buffers, and an `ExplicitMessage` of its own | `open send close poll` | two writers on one stream; reopened after a failure; not used by `PlcClient` |
| the sketch `ConnectedTagReadWrite` | `phase`, `step`, `stepStarted`, `phaseStarted` | `loop()`, a phase at a time | the objects of a failed cycle are used again |
| Encapsulation, `Cip.h` | none | encoders, decoders, sizes | size limits at the boundary |
| the PLC, or `tools/synthetic_eip_server.py` | session of each TCP connection, a CIP connection | answers requests in order | slow, silent, gone; keeps a CIP connection longer than the client thinks |

Interaction. The sketch calls `PlcClient`; `PlcClient::poll()` calls
`Client::poll`, `TcpConnection::poll`, `Session::poll` or, in state Ready,
`Tag::poll` of every slot in use. Tags call the one shared `ExplicitMessage`,
which like `Session` reads and writes the one `TcpConnection`. The tag callback
is invoked in the middle of the loop over the pool, the state callback as the
last statement of a `poll()`. Connected messaging stands beside this: a sketch
drives `Client`, `TcpConnection`, `Session` and `Connection` itself, and
`Connection` writes to the TCP connection through its own `ExplicitMessage`
(Forward Open, Forward Close) and directly (data).

What makes the parts correct: at most one operation uses the shared message;
`ready()` means a session registered on this connection; a request carries the
handle of the current session; a reply is accepted only for the request it
answers; a tag never holds the value of another tag, nor, within
`dataLength()`, a stale one after a failed read; each completed operation is
reported once; every attempt and every operation ends by its deadline;
deadlines survive the wrap of `millis()`; both ends of a CIP connection agree
on its IDs; no length from the wire and no offset or count from the application
leads outside a buffer.

## 2. Modules

| Module | Models | State |
|---|---|---|
| `Transport` | `TcpConnection`, the socket, the write and read loops of `Session` and `ExplicitMessage` | `tcp`, `net` |
| `Plc` | `tools/synthetic_eip_server.py` and what else a controller or the network may do | `srv` |
| `Session` | `eip/Session` | `session` |
| `ExplicitMessage` | `cip/ExplicitMessage` | `msg` |
| `EthClient` | `transport/Client` | `eth` |
| `PlcClient` | `PlcClient` and `tag/Tag`, composing all of the above with an application | `plc pool tags ctl op calls` |
| `Exchange` | `ExplicitMessage` + `Transport` + `Plc`, arbitrary caller | adds `used` |
| `TagService` | what `PlcClient` promises of its tags (abstract specification) | `name value busy cb` |
| `Connection` | `cip/Connection`, extending `ExplicitMessage` (its `fwd_`) | `conn` |
| `Target` | connected messaging at the server, extending `Plc` | `cip` |
| `Connected` | `Connection` + `Target`, arbitrary caller | |
| `ConnectedTagReadWrite` | the sketch, composing `Target`, `Session`, `EthClient` and `Connection` | `app` |
| `TagData` | the buffer of a `Tag`, the item walk of `parseResponse()`, path and element sizes of `Cip.h` | `tag reply sent fault` |
| `Clock` | the deadline comparison on a wrapping counter | `now deadline timeout elapsed` |
| `TransportProofs`, `SessionProofs` | lemmas about the wire, and about `Session` and `EthClient`, shared by the next four | |
| `PlcClientProofs`, `ExchangeProofs`, `ConnectedProofs`, `SketchProofs`, `TagDataProofs`, `ClockProofs` | theorems (section 4) | |
| `MCPlcClient`, `MCExchange`, `MCClock`, `MCConnected`, `MCConnectedTagReadWrite`, `MCTagData` | instances for TLC | |

Correspondence. A record variable is an object, its fields the members of the
class: `session.timer` is `deadline_`, `msg.context` is `context_`,
`pool[h].prev` is `tagPrevStatus_[h]`. An operation of a class is an operator
with its result as the parameter `st`; a caller writes `\E st \in Status :
SessionOpen(.., st) /\ ...` and branches on `st` as the code does. An early
return that changes nothing is the negation of a guard of the action.

* **Packets.** A packet is a record of the header fields the program looks at
  and the tag the message is about. TCP may split packets, so streams carry
  fragments (`Frags` per packet). A reader that starts in the middle of a packet
  takes a body for a header: any outcome of the length check is possible.
* **Writing and reading.** `WritePending` and `ReadResponse` are the sets of
  outcomes of the two loops. The socket may accept fewer fragments than offered,
  accept bytes after the peer has closed, or fail with a reset; `read()` turns a
  reset into `Error` and leaves the connection `Ok`, `write()` turns it into
  `Closed`, as in the code.
* **Time.** A deadline is a countdown, and `Tick` decrements all of them.
  `Clock` shows that the comparison in the code is that countdown.
* **poll().** One action per state of the client. In Ready, one step per slot
  (`PollTag`), since the tag callback hands control back to the application
  in the middle (`ctl.at = "cb"`), and `PollReadyEnd` for what follows the loop.
  The server moves only while control is with the application; between two
  slots of one `poll()` its step could be moved before or after that `poll()`,
  because at most one slot touches the socket.
* **The application** is any sketch. `Habits` says what it does beyond the
  documented loop: `"interrupt"` (begin, connect, disconnect or destroyTag with
  an operation in flight), `"rebegin"` (begin when Ethernet was begun before),
  `"reconnect"` (begin or connect from the tag callback). With no habits it still
  aborts operations, destroys and recreates tags, disconnects and reconnects.
* **The server.** `Answers` is the set of replies the program has to reckon with:
  those of `tools/synthetic_eip_server.py`, which accepts everything and never
  looks at the session handle, and the refusals of a controller. Network failures
  are the steps `PlcAccept` and `PlcClose`.
* **A tag.** `tags[h].valid` says that `dataLen_` is not 0, `typed` that `dataType_`
  is not 0, `data` whose value is in `data_`. `dataLen_ = 0` clears `valid` and
  leaves `data`, as in the code; `Value(h)` is what an application gets that asks
  `dataLength()` first. `poll()` keeps 8 of the 16 bits of a type code, so a read
  may also leave the type unknown (`LearnedType`).
* **Connected messaging.** What a packet of `Connection` is about is a record
  (`Payload`): service, connection IDs, sequence number, request. The random O->T
  ID is any member of `ConnIds`. The target keeps at most one CIP connection (the
  object always uses the same serial number) and may keep it through anything: a
  Forward Close it answers or refuses, the end of the session, a new TCP
  connection. It may refuse a Forward Open, and may drop the connection at any
  time. The server under `tools/` is one such target, which never drops any.
  `cip.wanted` is history: no Forward Close has arrived since the connection was
  opened.
* **The sketch.** One action per phase of `loop()`; `delay(10)` and everything
  between two calls is the network and the clock. `app.timer` stands for
  `phaseStarted`, which only matters in RetryWait.
* **Bytes.** `TagData` represents a byte by where it comes from: the last read
  (`"plc"`), an earlier one (`"old"`), or no read (`"app"`), and keeps the value
  of the first four, the length of a STRING. A reply is its length and the
  sequence of items it claims, both arbitrary. `fault` records an access outside
  a buffer at the moment it happens. `size_t` and the 16-bit count on the wire
  keep their widths (`SizeMod`, `CountMod`, scaled down).
* **History.** `op[h]` records whether the application still expects a callback
  for slot `h`; it constrains nothing.

Operators whose comment begins with "Mutant" are wrong variants of the
definition that follows them. They are used by no specification; each shows
that a property notices the slip it stands for.

## 3. Runs

Passing runs.

| Run | Shows | Bounds |
|---|---|---|
| `tags` | `SingleInFlight`, `NewDataIsOwn`, `NoSpuriousCallback`, and the refinement `ImplementsTagService` | two slots, two names (symmetric), two requests, two `createTag` calls, one `begin()` and one `connect()`: one connection |
| `sessions` | `TypeOK`, `ReadyMeansRegistered`, `SessionFreeForOpen`, `RequestsUseCurrentSession` | one slot, two handles, four calls of begin/connect |
| `liveness` | `ConnectResolves`, `TagOpResolves` under `FairSpec`, and `ReadyMeansRegistered` | one slot, four begin/connect calls (begin, connect, and both again on a ready client), habits rebegin and reconnect |
| `exchange` | `TypeOK`, `AcceptedAnswersRequest`, `SuccessDrains` | two fragments per packet, four requests, three ticks, two aborts |
| `clock` | `DeadlineExact` | 4-bit counter, every start value and timeout |
| `connected` | `TypeOK`, `OneExchange`, `IdsAgree`, `OpenIsDrained`, `ClosedWasAsked`, and `ExchangeEnds` under `FairSpec` | two fragments per packet, three Forward Opens or Closes, one data exchange, in any order |
| `sketch` | `TypeOK`, `StepAccepted`, `RegisteredAtPeer`, `ClosedWasAsked`, and `CycleEnds` under `FairSpec` | two fragments per packet and a socket buffer for one, two session handles, one connection ID, cycles without a bound (contexts modulo 2) |
| `tagdata` | `TypeOK`, `InBounds`, `DataIsCurrent`, `StringIsCurrent`, `RequestIsConsistent` | 6 bytes of tag data, 16 of CIP data, 64 values of `size_t`, 16 of a count, replies of up to two items |

Why the bounds suffice. A stale reply, a stale handle or a stale slot needs one
earlier operation, connection or owner, and one later: two of each show every
pair. No single run has everything: `tags` stays on one connection and recycles a
slot only where the other was never used, `sessions` has three connections and one
slot, and no run of tag properties destroys a tag in flight; the theorems of
section 4 have any number of each. A slot interferes with another one only through
the shared message, so two slots are enough. `exchange`, `connected` and `sketch` split packets in two,
the least that has a packet half written and half read; the runs of `PlcClient`
keep packets whole, since fragmentation is a matter of the two loops only.
`connected` needs an open given up, an open that succeeds and a close or a
further open: three. In `sketch` contexts modulo 2 make late replies look current
more often than 2^64 contexts do, and every cycle still replaces the TCP
connection. `tagdata` has lengths, offsets and counts on both sides of every
limit and at the wrap; the buffer is smaller than a reply, unlike in the code
(at most 254 bytes arrive for 256), so the limit in `Tag::poll()` is reached. Timeouts of
one or two ticks let a deadline pass before, between and after any two steps.
Sender contexts do not wrap in the passing runs (`CtxMod` exceeds the number of
requests), as 2^64 of them do not in the code.

Fairness. `FairSpec` of `PlcClient` assumes weak fairness of `Poll` (the sketch
goes on calling `poll()`), of `CallbackReturn` (a callback returns) and of
`Tick` (time passes), and nothing about the network or the application;
`Connected` assumes the same of its caller, and `ConnectedTagReadWrite` weak
fairness of `Loop` (the Arduino core calls `loop()` again and again) and `Tick`. `Exchange`, for
`RecoversFromTimeout`, also assumes that the PLC answers and that the caller
goes on sending: the property is about a healthy PLC.

Refinement. `TagService` has operations that start one at a time, end once with
the value of their own tag or none, and are reported at most once. `PlcClient`
instantiates it with the names of the pool, the owner of each tag's data, the
tags in flight and the slot whose callback runs; pool, messages, sessions,
sockets and the PLC are hidden. `ImplementsTagService` holds for an application
without habits, and `PlcClientProofs` proves it for every application that leaves
operations in flight alone. With `"interrupt"` it does not: see `hot_reconnect`.
What `TagService` does not promise is that every end is reported: see
`callback_missed`.

### Where the code and its documentation disagree

Each is a run that TLC refutes; `findings` in `PROJECT.json` quotes the line.

| Run | What happens |
|---|---|
| `callback_missed` | an operation that ends in the first `poll()` after it was started is not reported: `tagPrevStatus_` never was Pending |
| `disconnect_hangs` | `UnregisterSession` runs under the registration's deadline; once that has passed the client stays in Disconnecting |
| `hot_reconnect` | `connect()` with an operation in flight sends that request on the new connection with the old handle |
| `recovery` | after one timeout, request and reply stay one apart: each exchange reads the reply of the one before and fails |

Known deviations that follow from the same model and have no run of their own:

* `destroyTag()` of a tag in flight clears `inUse_` only (`PlcClient.cpp:191`):
  `poll()` skips the slot from then on, the operation never ends, its deadline is
  never looked at, and the shared message answers Busy to every other tag until
  the slot is handed out again. `TagOpResolves` therefore holds without the habit
  `"interrupt"` only.
* `tcp.connect()` may fail at once with Error. `tcp.poll()` then returns Closed,
  and the phase Connect of the sketches waits for Ok, Timeout or Error: the sketch
  stays there for ever. `CycleEnds` names this one exception.
* The typed accessors of `Tag` check offsets against the size of the buffer, not
  against `dataLen_`: after a failed read they still return the bytes of an earlier
  one, where the comment at `Tag.cpp:53` says that "a failed read cannot leave
  stale data". What holds is `DataIsCurrent`, within `dataLength()`;
  `getString()` keeps to it (`StringIsCurrent`).
* A write of a STRING sends the application's `elementCount`, unchecked and cut to
  16 bits (`Tag.cpp:65-71`, `85`): 0, 5 or 65537 go out with one string. And a write
  of any type sends bytes of `data_` that may never have been set.
* `Closed` does not mean that the target has dropped the connection: the status of
  the Forward Close reply is not looked at (`Connection.cpp:244`), and the server
  under `tools/` itself answers success and keeps it
  (`synthetic_eip_server.py:194`). `ClosedWasAsked` says what `Closed` does mean.
* A `Connection` whose exchange failed cannot be closed (`Connection.cpp:36`), and
  a failed cycle of the sketch goes to RetryWait without asking: the target keeps
  the connection until its own timeout or the end of the TCP connection, if these
  end it.
* A client connected for more than 24.8 days reads the deadline of the registration,
  long past, as one still to come (`Session.cpp:138`): in that half turn of
  `millis()` `disconnect()` works. The countdown of the models does not show this;
  see `Clock`.
* `createTag()` takes the `Tag` of a destroyed slot as it is: a new tag may
  report Ok or Error and hold old data, where `Tag.h:53` says "NotReady if idle".
* `begin()` and `connect()` on a ready client: the queued attempt meets the
  session that is still registered, `Session::open()` answers Busy and the client
  fails (`PlcClient.cpp:69` does not abort the session as line 28 does).
  `SessionFreeForOpen` therefore holds in `sessions`, without the habit `"rebegin"`.
* `connect()` called from the tag callback that reports Closed is undone by the
  rest of that `poll()` (`PlcClient.cpp:140-143`).
* A request given up half written leaves the stream inside a packet
  (`ExplicitMessage.cpp:85`); the next request is sent behind the fragment.
* After a timeout `tagStatus()` returns Error (`Tag.cpp:144`), where
  `README.md:477` says Timeout.

## 4. Proofs

Every theorem holds for every value of the constants that satisfies the named
assumptions of the modules (`WireAssumption`, `TimeoutAssumption`,
`ClientAssumption`, `ExchangeAssumption`, `ConnectionAssumption`,
`ConnectedAssumption`, `SketchAssumption`, `SizeAssumption`, `TypesAssumption`, `HalfAssumption`): any
fragmentation, any buffer sizes, any pool, any number of calls. What a theorem
assumes beyond that is in its statement and in this table.

| Theorem | Module | Beyond the named assumptions |
|---|---|---|
| `TypeCorrect`: `[]TypeOK` of `PlcClient` | `PlcClientProofs` | |
| `SingleInFlightHolds` | `PlcClientProofs` | |
| `ReadyMeansRegisteredHolds` | `PlcClientProofs` | |
| `SessionFreeForOpenHolds` | `PlcClientProofs` | no habit `"rebegin"` |
| `RequestsUseCurrentSessionHolds` | `PlcClientProofs` | no habit `"interrupt"` |
| `NoSpuriousCallbackHolds` | `PlcClientProofs` | no habit `"interrupt"` |
| `NewDataIsOwnHolds` | `PlcClientProofs` | no habit `"interrupt"`, contexts do not wrap |
| `ImplementsTagServiceHolds` | `PlcClientProofs` | no habit `"interrupt"`, contexts do not wrap |
| `TypeCorrect`, `AcceptedAnswersRequestHolds`, `SuccessDrainsHolds` | `ExchangeProofs` | the last two: contexts do not wrap |
| `TypeCorrect`, `OneExchangeHolds`, `IdsAgreeHolds`, `OpenIsDrainedHolds`, `ClosedWasAskedHolds` | `ConnectedProofs` | (`ConnectedAssumption`: contexts do not wrap) |
| `TypeCorrect`, `StepAcceptedHolds`, `RegisteredAtPeerHolds`, `ClosedWasAskedHolds` | `SketchProofs` | |
| `TypeCorrect`, `InBoundsHolds`, `DataIsCurrentHolds`, `StringIsCurrentHolds`, `RequestIsConsistentHolds` | `TagDataProofs` | |
| `DeadlineExactHolds` | `ClockProofs` | no deadline is looked at half a turn or more after it |

The habits excluded are those the code does not withstand: section 3 tells what
happens with them (`hot_reconnect`, the queued attempt after a second `begin()`).
"Contexts do not wrap" is `MaxOps + 1 < CtxMod`, the bound on the requests of one
run of the program against the 2^64 contexts there are; the passing runs satisfy
it, too. Where contexts wrap, a reply that was delayed for a whole turn is
accepted.

### The arguments

* **Lemmas about the wire** (`TransportProofs`). Every outcome of the write and
  read loops is one description: the fragments written are a prefix of what was
  left of the request, those read a prefix of what had arrived, and what moves
  from one buffer to another keeps its order (`MoveOne`, `MoveMany`). From it
  follow the types of all results and, for whatever is stated of the packets in
  the pipe, that a step of a loop adds at most the packet of the request. The
  module also has what `Exchange` and `PlcClient` share: `ContextInv`, that every
  packet on the way has a context below the next one, and that the one with the
  context of the live request is about the tag of that request.
* **`PlcClient`, types and the shared message.** `TypeOK` is inductive by itself.
  `SingleInFlight` is inductive with it because it says that the message is busy
  exactly when a tag is in flight: `anyTagBusy()` looks only at slots in use, so
  after `destroyTag()` in flight it is the Busy of `send()`, not the check in
  `read()`, that keeps a second operation out.
* **The session** (`PlcClientProofs`, with the lemmas of `SessionProofs`).
  `ReadyMeansRegistered` relates the client's handle to the server's. `ReadyInv` adds how they come to agree: while the
  connection is being opened nothing is on the way and the server is fresh; once
  it is open, every registration reply on the way that has a handle and the
  status ok carries the handle the server has now. The sender context plays no
  part, as the code does not look at it: one registration per TCP connection does.
  `FreeInv` says in which states of the client the session may be in use.
  `RequestsUseCurrentSession` needs that the message is busy only in Ready
  (`BusyInv`), that only an open socket carries anything (`SocketInv`), and that
  no request follows an UnregisterSession in the stream (`StreamInv`).
* **The exchange** (`ExchangeProofs`). `AcceptedAnswersRequest` is `ContextInv`.
  `SuccessDrains` is about places in streams: `DrainInv` says that the packets on
  each side are spaced and ordered by context, that all answers are older than all
  requests still to be answered, and that the live request is the last thing in the
  stream to the PLC. So the reply that is accepted is the last one there can be.
* **The tags** (`PlcClientProofs`). A read under way has `dataLen_` 0
  (`ReadingEmpty`), so the value a tag has when it ends is the one just read. `Owed` says that an
  operation whose Pending `poll()` has seen is one that was started and not yet
  reported. `TagInv` joins the types, `SingleInFlight`, `ContextInv`, `Owed` and what
  the shared message asks for: the request in it is that of the tag in flight.
  The refinement is then proved action by action: the starts of `read` and `write`
  are `Start`, the poll of a slot that ends its operation is `End`, with the
  callback or without, `createTag` is `Create`, `abortTag` is `Abort`, the end of a callback
  is `Return`, and the actions of session, socket, server and clock are stutters.
* **Connected messaging** (`ConnectedProofs`). `ConnInv` is one invariant for the
  whole module, since its parts hold each other up. `WayInv`: everything on the way
  was sent by this object or answers it, and is older than the next request of its
  kind. `ForwardInv` and `SendInv`: the exchange in flight is in step, that is,
  either its request has not reached the server completely and nothing answers it,
  or it has had its effect on the target and the only current answer is the one for
  it. `RestInv`: between exchanges of an open connection both streams are empty.
  A Forward Open given up earlier may still be answered late, but its request is
  ahead of the next one in the stream, so the answer that is accepted is the last one
  and the target's IDs are the ones it carries. The same of a Forward Close: the answer
  that ends `close()` is that of a request behind every Forward Open, so nothing was
  opened after it, whatever the target did with it.
* **The sketch** (`SketchProofs`). Its cycles have no bound, so sender contexts wrap and
  tell nothing; what holds instead is that every cycle has a TCP connection of its
  own, on which one exchange follows the other. `Alone(io)` says that both streams and
  the server hold nothing but the exchange of the buffers `io`: the part of its request
  that is out, or its answer, which has had its effect (`Effect`: the handle the
  server keeps, the connection it was asked to drop). A new exchange on drained streams is
  alone, every `poll()` and every step of the server keeps it so, and one that succeeds
  drains the streams again (`AlonePoll`, `AloneServe`). Around it, `PhaseInv` and `StepInv`
  tell how far the objects are in each phase and step, `BufferInv` what is in their
  buffers, `BodyInv` that CIP packets are about what `Connection` builds, and `WireInv`
  which commands may be on the way in a phase: nothing but an UnregisterSession after
  `CloseSession` has begun, which cannot open a connection again. A failed cycle may leave
  anything on the way; `RetryWait` claims nothing of the streams, and closes them.
* **Bytes** (`TagDataProofs`). `DataInv` says that an item that was found lies within
  the reply and has at least the CIP header, that the first `dataLen_` bytes of the
  buffer are not those of an earlier read (`DataIsCurrent`), and that the request in
  flight agrees with its data. That the walk stays inside the reply is an induction
  over the number of items; it is done as a smallest counterexample
  (`LeastNatural`), as an operator cannot be passed to the induction theorems of the
  library.
* **Deadlines** (`ClockProofs`). `ClockInv` says that the wrapped and the true
  difference of clock and deadline agree up to one turn of the counter, and that
  no deadline is looked at half a turn (24.8 days) or more after it. Everything that
  is polled keeps to that, except the deadline of a registration, which
  `Session.cpp:138` looks at again after any time connected.

### Only model-checked

* Liveness: `ConnectResolves`, `TagOpResolves`, `ExchangeEnds`, `CycleEnds`.
  Fairness and ENABLED are out of the prover's reach.
* The runs that expect a violation: their traces are the evidence.

## 5. Not modelled

* The byte layout of headers and paths: a fixed permutation of bytes that no
  property tells apart. The item walk of `parseConnectedResponse()` is that of
  `parseResponse()`, which `TagData` models.
* The Ethernet driver behind `Client`: link loss after `ready_` is to the layers
  above a connect attempt that times out; a driver left running by a failed
  `ETH.config` is seen by the driver alone.
* The address and port a connection is for, and whether callbacks are installed
  (they always are). The values of tags.
* The other sketches. `EipSession`, `IdentityQuery` and `TagReadWrite` have the
  phases of `ConnectedTagReadWrite` around another request; `PlcClientDemo` and
  `ReliabilityDemo` are instances of the application of `PlcClient`;
  `LanInventory` adds a scan over the hosts of a subnet, one TCP connection after
  the other. The host tools are not part of the library.

## 6. Plan

Every invariant that a run checks is proved, and so is the refinement. Left:

1. The scan of `LanInventory` as an algorithm on 32-bit addresses.
2. `Connected` with contexts that wrap: which of its invariants `Alone` gives there, when
   the caller waits for every exchange to end.
