# Verification of dnp3-go

TLA+ models of the Go DNP3 library in this repository, the TLC configurations
that check them on small instances, and TLAPS proofs of the theorems that hold
for every instance.  Paths are relative to `src/`.

## 1. The system

Two generations of the protocol stack live side by side.  The *strict* stack
(`pkg/link/strict*.go`, `pkg/transport/strict.go`, `pkg/app/strict*.go`,
`pkg/session/strict.go`) is synchronous: a caller drives one `net.Conn` through
one `StrictChannel`.  The *classic* stack (`pkg/channel`, `pkg/link`,
`pkg/transport`, `pkg/master`, `pkg/outstation`, `pkg/dnp3`) is concurrent: each
channel has a read and a write goroutine, sessions are callbacks of the read
goroutine, masters and outstations run their own goroutines.

| Component | State it keeps | Operations | What is hard | What makes it correct |
|---|---|---|---|---|
| strict link (`link/strict_state.go`, `strict_channel.go`, `strict.go`) | `ready`, `nextSendFCB`, `expectedFCB`, `pending`; one call at a time (`busy`) | Reset, SendConfirmed, SendUnconfirmed, KeepAlive, Receive; Handle for each frame | late answers, retransmissions, resets of both ends, cancelled calls, torn reads, failing replies | data is handed over at most once and in order; acknowledged data is not dropped; calls return |
| channel (`channel/channel.go`, `router.go`, `interface.go`) | state, 100-entry write queue, session map under an RWMutex | Open, Close, Write, AddSession, RemoveSession, readLoop, writeLoop, connection callbacks | a caller of Write racing Close; callbacks that take locks their caller's caller holds | every Write returns; Close returns; nobody waits on everybody |
| physical channels (`channel/tcp_channel.go`, `udp_channel.go`, `quic_channel.go`) | current connection, closed flag, statistics | accept/reconnect loops, Read, Write, Close, error handlers | an error on a superseded connection arriving after its replacement | a live connection is only closed by its own errors |
| classic link (`link/master_link.go`, `outstation_link.go`) | link state, FCB on either side, response channel | ResetLink, SendConfirmedUserData, SendUnconfirmed..., OnFrameReceived | responses of an earlier attempt; NACK and retransmission; a failing callback | confirmed data is handed over exactly once, or the sender is told |
| transport (`transport/*.go`) | reassembly buffer, sequence counters, timers | Send, Receive, Reset, timer callbacks | a timer that fires while a new message has begun | a message handed up is one the peer sent |
| strict transport, application and session (`transport/strict.go`, `app/strict*.go`, `session/strict.go`) | reassembly buffers, next transport sequence | SegmentStrict, Push, SendApplication, ReceiveApplication | a send that fails between two segments | a fragment is handed up whole or not at all |
| master (`master/*.go`, `internal/queue`) | enabled flag, task queue, response channel, sequence | scans, commands, Enable, Disable, Shutdown, onReceiveAPDU | late responses, concurrent requests, shutdown during a request | a response completes the request it answers |
| outstation (`outstation/*.go`) | database, event buffer, sequence counters, unsolicited mask | Apply, Enable, Disable, Shutdown, request handlers, three goroutines | Apply racing Shutdown, updates during a read | every Apply returns; events are not lost silently |
| manager and facade (`dnp3/*.go`) | map of channels | AddChannel, RemoveChannel, Shutdown | Shutdown holding its mutex while channels close | every channel is closed once |
| frame, APDU and object codecs (`link/frame.go`, `crc.go`, `app/*.go`) | none | serialize, parse, validate | boundaries | inverse of each other |
| measurement types, logging (`types`, `internal/logger`) | none | constructors, output | nothing | nothing the other parts rely on |

**How they interact.**  Strict: a caller enters `session.Strict`, which calls
`StrictChannel`, which reads and writes the connection itself; there is no
goroutine.  Classic, downwards: a master's task processor calls
`session.sendAPDU`, which segments (`transport.Layer.Send`) and calls
`Channel.Write`; that queues a request and waits for `writeLoop`, which writes
to the physical channel.  Upwards: `readLoop` reads a frame, `Router.Route` calls
the session's `OnReceive` under the router's read lock, the session reassembles
and calls `onReceiveAPDU` of the master or outstation, and an outstation answers
from there with `Channel.Write`.  Sideways: the goroutine that sees a connection
come or go tells every session, which resets its `transport.Layer`.
`MasterLink` and `OutstationLink` are a library of their own: nothing in
`pkg/channel` uses them.

Every hazard of the code, at its line and with the properties that watch it, is
in `PROJECT.json`.

## 2. Plan

The order is that of what the rest stands on.  Each module has its parameters as
CONSTANTS with a named assumption and one action per operation, or per step
between two points where another goroutine may run.

| | Module | Composes / implements | State |
|---|---|---|---|
| 1 | `LinkService`, `StrictLink` | two stations; implements `LinkService` | checked, safety proved |
| 2 | `Channel`, `WriteService` | channel, router, loops; physical channel as environment; implements `WriteService` | checked, safety proved |
| 3 | `ClassicLink` | both ends of the classic link; implements `LinkService` where one call runs at a time | checked, safety proved |
| 4 | `Master` | master, its queue, processors; outstation as environment | checked, safety proved |
| 5 | `Transport` | one direction of segments: `Layer` of both ends, reset from another goroutine; implements `LinkService` where nothing races | checked, safety proved |
| 6 | `PhysicalChannel` | TCP and QUIC, server and client: the environment of `Channel` | checked, safety proved |
| 7 | `Outstation` | Apply, update processors, Shutdown, the handling of a request as locks and writes | checked, safety proved |
| 8 | `StrictSession` | transport and application of two sessions over what `LinkService` promises; implements it for messages | checked, safety proved |
| 9 | `Objects`, `Database`, `ReadHandler`, `Poll` | codec operators; points and events; the outstation reading them; a master polling it: `Poll` composes all three | checked; order of events and reading under the lock proved |

Left: a module for the UDP channel (one socket, nobody to notify) and one for
`dnp3.Manager`, a map under a mutex whose `Shutdown` waits for `Close` of every
channel (`CloseReturns` of `Channel` is what it needs); the command path of the
outstation once it changes state.

## 3. Modules and code

**`StrictLink`** (`strict_state.go`, `strict_channel.go`, `strict.go`).  Two
stations, each one `StrictState` driven by one `StrictChannel` over a lossless
byte stream per direction.  `ready`, `nextSendFCB`, `expectedFCB` and `pending`
are the fields of `StrictState`.  A call that holds `busy` is alone with its
state between two reads, so an action is what a call does from one read to the
next: `HandleAck`, `RepeatConfirmed` and so on are the branches of
`StrictState.Handle` with everything `transact` or `Receive` then does: write the
response, hand over the data, return, try again.  `ReadTimeout`, `Abandon` and
`ReadGarbage` are what a read without a frame leads to; `torn` says that the
reader lost its place in the stream.  Requests are numbered by ghosts.

**`LinkService`** is what two ends of a link promise: data offered in order is
handed over at most once, in that order. The layers above keep the same promise of
what they are given, so `ClassicLink`, `Transport` and `StrictSession` are shown to
implement it too; `DeliverAndAnswer` is there for a session, which may hand a message
over in the step in which it has written the confirmation.

**`Channel`** (`channel.go`, `router.go`, `interface.go`).  An action is what one
goroutine does between two points where another may run.  A caller of `Write` is
`checked` after it has looked at the state, then `queued`; `writeLoop`,
`readLoop` and `Close` have a place each.  The router's RWMutex is not a variable:
only `Route` holds it over several steps, so who has it follows from where
`readLoop` and the session manager are, with Go's rule that a waiting writer
keeps new readers out.  The physical channel is an environment that makes and
breaks connections and calls the listener from its own goroutine. **`WriteService`**
is what `Write` promises its callers: a frame goes out once at most and only while its
call runs, `nil` means that it did, `ErrChannelClosed` that it did not.

**`ClassicLink`** (`master_link.go`, `outstation_link.go`).  Several goroutines
share a `MasterLink`: `Claim` is the part of an operation that sets the link
state under the mutex, `Share` an operation that does not claim the link;
`sendWithRetry` runs outside the mutex and its increment of `retryCount` is two
steps; the model counts up to the first value past the maximum, since nothing looks
further. `TooLong` are the data that do not fit a frame (the error of `Serialize`).
Calls without data are not bounded. The physical layer keeps the order of frames and
may lose any of them.

**`Master`** (`master.go`, `operations.go`, `tasks.go`, `session.go`,
`priority_queue.go`).  The queue is ordered by time first, so what is due is a
FIFO (`ready`) and what is not is a count per scan (`later`).  A processor takes a
task, sends, waits; a task that ends reschedules every scan in the same step.
Sequence numbers are sent and never compared, so the model has none.  The
outstation accepts or refuses, in objects or by IIN bits alone; its messages may
be lost, late or unsolicited. `wanted` is a ghost: the scans demanded of which no run
has begun since.

**`Transport`** (`layer.go`, `reassembly.go`, `segment.go`, and how `session.go`
and `outstation.go` use them).  One direction: the goroutines in `sendAPDU`, the
segments on their way, `readLoop` in `Layer.Receive`.  A `Layer` has no lock, so
`Send` reads `txSequence` and advances it in two steps, and `Process` checks a
segment and stores it in two.  The bytes of a segment are the number of its
message and its place in it.  `raced` is a ghost that says that a reset or a
second sender came between two such steps, `spoiled` the messages of which the
environment lost a part.

**`PhysicalChannel`** (`tcp_channel.go`, `quic_channel.go`).  One channel with its
loop that accepts or dials, the reader, the writer, the caller of `Close`, and for
a QUIC server a goroutine for each connection that awaits its stream.  `conn` and
`stream` are the fields under `connLock` and `streamLock`, whose critical sections
are atomic; `local` is the connection a goroutine read under the lock and works
on after it has released it, and a reader or writer is `looking` between its look at
the context and the one at the connection.  A connection is new, open, broken by the
peer or closed by us.  `lastFrom` is a ghost: what the listener has reassembled from
since it was last told of a change, with every frame handed up; `late` says that the
last of them came up when its connection had been replaced.

**`Outstation`** (`outstation.go`, `update_builder.go`).  A caller of `Apply` is
`queuing`, then `waiting`, then has an answer or an error; an `updateProcessor`
is idle or applies a request.  `todo` is what `readLoop` has left to do for the
frame it handles: read locks of the database, in the order and nesting of the
code, and writes to the channel, of which the first that fails is the last and any
may never return, as `Channel` shows. `Queued` says what `Apply` puts in its request
of what it was given: nothing, as in the code. `given`, `stored` and `handled` are
ghosts: what the callers gave, what of it is in the database, and how often a request
was handled.

**`StrictSession`** (`session/strict.go`, `transport/strict.go`, `app/strict.go`,
`app/strict_reassembler.go`).  Two sessions face each other.  Below them is what
`LinkService` promises (segments in order, at most once) with loss.  A piece is the
payload of one transport segment; a fragment is some pieces.  `call` is the call
that holds `busy`, `segments` what it has yet to send, `transportInput` and
`applicationInput` the two reassembly buffers with all their discard and refuse
branches.  Where a piece came from is a ghost no guard reads.

**`Objects`** (`app/*.go`: headers, parser, sizes, points) is the codec as
operators on octets, in both directions.  **`Database`** (`database.go`,
`event_buffer.go`): an update takes `db.mu`, stores, and enters the event buffer in
steps of its own, since the buffer may be cleared between them; `WriterWaits` is
Go's rule that a waiting writer keeps new readers out. `ReadStep` is any reader that
takes or releases the read lock.  **`ReadHandler`**
(`outstation.go`): `buildReadResponse` as steps between locks of `db.mu`. `headers` is
what is left of the request, each with the kinds of points it has still to be given;
`held` the read locks, one in a builder and one more around the builders that
`buildStaticData` calls; `parts` what has been read, as points and not yet as octets.
**`Poll`** (`operations.go`, `outstation.go`, `measurements.go`) composes them: the
request a scan builds, the octets `buildReadResponse` makes of `parts` while updates go
on, and what `processMeasurements` reports of those it gets.
Numbers of 32 bits are two's complement; `RangeBase` stands for the 256 values of
an octet of a range field.

## 4. Runs

| Run | Question | Bounds, and why they are enough |
|---|---|---|
| `strict_link_any_use` | Is data handed over once and in order, whatever both stations and the environment do? Does the link implement `LinkService`? | 3 requests by the master, 1 by the outstation, 1 retry, all faults. The frame count bit is misread, if at all, between a request and the next but one; three requests with a repetition of each reach every such overlap, and the theorem removes the bound. |
| `strict_link_one_way` | Is acknowledged data kept? Do calls return? | The same, with one station that resets: two make the first false (section 7). Every timeout at every moment. |
| `channel` | Does `Write` keep the promise of `WriteService`, is a closed channel quiet, do `Write` and `Close` return? | Two clients and the read goroutine with one write each, a queue of one, so that it is full with a writer waiting; one of each disturbance, a second `Open`. The order of several writes of one caller is proved for every number. |
| `classic_link` | Is confirmed data handed over once, does success mean delivery, do calls return? | Two goroutines, calls and losses without end, two data that fit and one that does not, buffers of one. Either two calls run beside each other (with one for data), or a callback fails, Stop is called, unsolicited data is sent or the third data does not fit: the safety properties say nothing once calls ran together. Two calls beside each other with two data, a failing callback and a Stop have been checked for the safety properties. |
| `transport` | Is what is handed up a whole message, and is every message handed up that was not hurt? | Two senders, two messages of up to three segments, a buffer of two, sequence numbers modulo 4 so that they wrap, three losses, two resets. Three messages with two losses and one reset have been checked too. With as many losses in a row as there are sequence numbers (64 in the code) the numbers match again and two messages are joined, so there is one loss less. |
| `master` | Scans, commands, demands and shutdown, with two processors | One scan and one command of SELECT and OPERATE, one message on its way, one loss, refused write, demand, one-time scan or unsolicited response; timeouts are not bounded. Nobody asks for anything more when Shutdown has begun; no scan is removed, and the master not enabled after Shutdown, once the command has been asked for. Two events with none of these bounds have been checked for the safety properties; they take too long for every run. |
| `physical_channel` | Is any connection lost track of, are frames of two connections kept apart, is a dead connection replaced, is a client connected again, does `Close` return? | All four kinds, two connections: a superseded one and its replacement; a client has a third, since `Reconnects` asks for nothing more when every connection has come and gone. Each can break at any moment; three connections of every kind have been checked for the safety properties. |
| `outstation` | Is the request of an `Apply` handled once, do `Apply` and `Shutdown` return? | Two callers with two calls, two processors (an `Enable` after a `Disable`), a queue of one, so that it is full with a caller waiting, a class 0 response of two kinds of points, so that a lock is taken again, a failing write, a write that never returns. |
| `strict_session` | Is what `ReceiveApplication` returns one whole message of the peer, in the order written, does it refuse only broken input, does what was sent arrive? | Transport numbers modulo 3 and application numbers modulo 2, so that both wrap; two faults of any kind, in either direction: a loss, a failed write, a deadline, a call that diverts data to the handler. |
| `poll` | Does the event buffer keep the newest events in the order of the stores, does a poll report the values of one moment? | Three kinds of points, two updaters; three updates, one clear and a buffer of two, so that events of one point and of two stand in it together and the oldest is dropped. One poll by each kind of scan, beside two updates and no clear, which no poll can see. Values that some variations cannot carry, `RangeBase` 2 so that a third point does not fit a range octet. |
| `channel_router_lock`, `outstation_apply` | A statement of the repository that the code does not keep | The smallest instance that shows it. |

The bounds that no constant of a module names are in the MC modules (`Bounds`). They
restrict steps that nobody is obliged to take (calls, disturbances, new connections),
so that no fairness condition is denied by them.

`CHECK_DEADLOCK FALSE` stands where every caller may have made its calls and the
peer is silent; the deadlock that matters there is what the liveness properties
exclude.  In `poll` it also admits the one of `db.mu` that an update between the
builders of an answer would bring (section 7).

## 5. Fairness

- `StrictLink` (`TimelySpec`): the deadline of each attempt passes
  (`setOperationDeadline` is set before every read), nothing else.
- `Channel`: goroutines that can go on do; `readLoop`, `writeLoop`, `Close`,
  `Write`, `AddSession` and the connection goroutine. Nothing is assumed of frames
  or connections, which may never come.
- `ClassicLink`: callers go on (their timers fire), frames that have arrived are
  handled. Sending on a full `sendChan` is strongly fair: a Go channel serves the
  senders that wait for room in the order they came.
- `Transport`: `readLoop` goes on. Senders need not.
- `Master`: processors go on and the timers of their requests fire, callers'
  deadlines pass, messages that are not lost arrive; a processor does not for ever
  choose the tick when the context is done as well. No period has to pass and nobody
  has to call anything.
- `PhysicalChannel`: the channel's own goroutines go on, nothing is assumed of the
  peer. That a dial succeeds if it is tried again and again is the premise of
  `Reconnects`, written in the property.
- `Outstation`: processors and `Shutdown` go on, and `readLoop` where it waits for
  `db.mu`; of its writes nothing is assumed, since `Channel.Write` may never return. A
  caller of `Apply` that waits for a place in the queue gets it or gives up, since
  `time.After` fires.
- `StrictSession`: a call that can go on does, and callers keep calling
  `ReceiveApplication`, without which nothing ever reads.
- `Poll` states no liveness: its two goroutines can block each other.

## 6. Proofs

The theorems hold for every value of the constants that satisfies the module's
assumption; those only say which constants are numbers, sets of stations or
distinct names. Some theorems have a hypothesis of their own, which is stated in the
comment of the property or theorem. `AckedIsNotLost` is about a link used in one
direction (`OneWay`), as in its run; `MessagesAreWhole` about fewer losses than there
are sequence numbers, as in its run. That the classic layers implement `LinkService`
holds of behaviours in which the ghosts `shared` (two calls at once on a `MasterLink`)
and `raced` (a reset or a second sender in the middle of a message) stay false: what
the code does otherwise is in section 7. `shared` is always false where one goroutine
uses the `MasterLink` (`OneCallerIsServed`). The inductive invariants were checked with TLC on
small instances before they were proved; where one says that there is a sequence
of all that was written, with that sequence as a history variable.

`StrictLink_proofs`.  `TypeCorrect`.  `FCBInvariant`: `AtMostOnce` is not
inductive, because it says nothing of what is still on the wire.  `FCBInv` adds,
for each direction, that requests are on the wire in order, that a frame whose
data has been handed over carries the bit the receiver will take for a
repetition, and that only the last request can be repeated.  The proof has one
lemma per way a step touches a direction (a frame is read, data handed over, a
request issued, repeated or closed) and one step per action.
`AtMostOnceDelivery` and `ImplementsService` follow: every step maps to `Offer`,
`Deliver` or a stutter of `LinkService`.

`AckedIsNotLost` holds of one use of the link only (section 7 has what happens in
others): one station resets and sends, its peer has a handler, and every frame is
written and read whole. Then what decides whether data is taken for new is the order
of the marks, the frames that set or carry the frame count bit. `OneWayInv` says that
they alternate on the wire (`Train`), that the first is what the receiver expects or
the repetition of what it had last, and that the sender goes on where the last leaves
off. New data is then never taken for a repetition: it is on its way until it is handed
over, whichever acknowledgement the sender reads meanwhile (`Carried`).

`Channel_proofs`.  `TypeCorrect`; `LoopsInv` relates `Close` to the loops and
gives `CloseIsQuiet`; `OnePlaceInvariant` is inductive with it.  For
`TrueReports` and `WireInCallOrder`, `HistoryInv` says of each caller how the
number of its calls, where its request is, what was written and what it was told
hang together; a step moves one caller and keeps the history of the others.
Actions are split into those that touch a request and those that do not
(`AsideIsAside`), so that each invariant looks at half of them. `ImplementsService`
is the refinement of `WriteService`: the step of a caller is `Call`, `Refuse` or
`Return`, that of `writeLoop` `Put` or a stutter, and `HistoryInv` says why each was
allowed. It is the run's property `WritesAreServed`; `TrueReports` is what follows of
it for the histories alone.

`Outstation_proofs`.  `TypeCorrect` needs to know that the read locks `todo` will
take and release never go below none or above two: `Nested` gives each place of
`todo` a depth, and `LocksAreReleased` is its end.  `RequestHandledOnce` says nothing of a
caller that waits; `RequestInv` adds that a request is in one place, once, only
while its caller waits for it, and has been handled by nobody before it is answered
(`RequestsAreHandledOnce`). What handling it stores is another matter (section 7).

`Outstation_proofs` also has the theorems about `Database`, which `Outstation` only
sees the mutex of.  `DBSpec` is `Database` with readers that come and go as they
like; that every step of `Poll` is a step of it has been checked on the instance of
`poll`.  `LockInv` says who may have `db.mu`, which gives `UpdatesExclude`.  For
`EventsInOrder`, `OrderInv` adds the event of the update that has stored and not yet
entered it in the buffer; two lemmas say what the newest events of a history are
when it grows by one and the buffer drops its oldest.

Finally, it has the theorems about `ReadHandler`, with requests of any headers and
other readers beside it (`HandlerSpec`; every step of `Poll` has been checked to be a
step of it, since `Poll` reaches recursive operators and no theorem can name it).
`HandlerInv` says that the lock is held as long as a header answered by
`buildStaticData` is not finished and that what was read of that header is in the
database still, since nobody can store meanwhile (`PointsStay`,
`ReadersSeeNoChange`); what was read of the headers before is of one of the states
that `seen` has. So all parts of one header are of one moment, while the request was
being answered (`HeadersOfOneMoment`). Two headers of one request may be of different
moments.

`PhysicalChannel_proofs`.  `LoopInv` says when the loop has a connection in hand and
`HalfwayInv` that one whose stream is not yet stored is current: `NoneIsLost`.
`ReassemblyIsReset` is a property of steps: what has been reassembled is of the
current connection, or somebody is about to discard it, or it is the one late frame
of a replaced connection that the reader had in hand (`MediumInv`); a connection whose
stream is awaited has been made (`FreshInv`). The frame of the exception is joined to
those of the new connection (section 7).

`ClassicLink_proofs`.  `ClaimInv` says that the calls that claim the link exclude
one another, although others run beside them: `OneClaims`.  `AtMostOnce` says
nothing of what is on the wire or may be sent again; `LoneInv` adds that what a call
sends once more is its own frame (`OwnFrame`), that data is on its way in the order
of its numbers with no reset between two copies (`OnTheWay`), and that the validator
knows the bit of every copy of what was handed over, on its way (`Recognised`) or yet
to be sent (`Repeatable`).  The proof has one lemma per way a step touches the wire:
a frame leaves it, is handed over, or is sent (`AtMostOnceDelivery`).
`SuccessIsDelivery` needs what a clean history of the link looks like. `CleanInv`
says, as long as it is `Clean`: the call that waits for an answer is one, and all there
is of its request is its frame or the answer to it, in one place (`DueInv`,
`PlacesInv`); the bit of the next data is the one the validator takes for new, unless
the data is at the station already (`BitInv`). An answer that says yes is then the
answer to the data that waits (`SuccessIsDelivered`).
`LoneInv` also gives the refinement: data handed over is `Deliver`,
beginning a call that sends data is `Offer`, all else is a stutter
(`ImplementsService`).

`Master_proofs`.  `ScansAreKept` is inductive with the types, once it is known what
`reschedulePeriodicScans` leaves in the queue (`RescheduleQueues`, over the scans in
any order).  `CommandOnce` is not: `CommandInv` adds that a command that is queued has
not been begun, that two processors never have the same one, that a request yet to
be sent has not been heard of, and that what is on its way has not been executed
(`CommandsAreOnce`). `SuccessIsExecuted` is about answers, which carry nothing that
says what they answer. `MatchInv` adds that, until the first is mixed up, one
processor at most is between its request and the answer, that nothing else is on its
way, and that a positive answer to a command is on its way only when that command
has been executed (`SuccessIsTrue`).

`StrictSession_proofs`.  `TypeCorrect`.  `JoinsOneMessage` compares elements of a
reassembler with each other, while each was cut from its message at a time of
which no state remains. `Stream` brings that time back: there is a sequence of all
elements a station has ever written, in which neighbours are of one message and in
order, or the later one begins a message (`Chain`), and which says where its
sender stands (`Sender`); the peer's link queue, what its loop has read and its two
reassemblers are taken from it in order (`Receiver`). Elements that follow one
another in a reassembler are then neighbours in the sequence, or a full cycle of
sequence numbers apart, which `JoinsOneMessage` excepts (`JoinsOne`). Its second half,
that what is returned comes in the order written and nothing twice, has no exception
and needs no such sequence: `OrderInv` says that what was returned, what each
reassembler holds, what is on its way and what is yet to be written are, in this order,
numbered upwards. With it the sessions implement `LinkService` for what
`ReceiveApplication` returns (`ImplementsService`).
`RefusesOnlyBrokenInput` needs to know where the receiver is: `UnbrokenInv` says, as long as nothing
has disturbed the exchange (`Undisturbed`), that what is on its way is the very end
of that sequence and that each reassembler is where the last element it took has
left it, with as many octets as the pieces so far, hence no more than
`MaximumApplication` (`RefusesNothing`).

`Transport_proofs`.  `TypeCorrect`.  `WholeMessages` compares what was handed up with
messages whose segments are gone. `StreamInv` says that there is a sequence of all
segments written since the number was last reset (`Stream`: whole messages, in order,
numbered one after the other), where in it the sender is (`Outgoing`), that what is on
its way was taken from it in order (`OnTheWay`), and that the buffer holds the message
of the segment processed last up to that one (`Assembled`). `Missing` counts: between
that segment and the end of the sequence are those held, on their way and yet to be
written, and no others but the ones lost. With fewer losses than numbers, a segment
with the number expected is then the next one (`NextOne`), the buffer grows by the
right piece, and what is complete is the message (`MessagesAreWhole`). What
`Receive` returns is then `Deliver` of `LinkService` (`ImplementsService`).

Only model-checked: liveness (`CallsReturn`, `WritesReturn`, `CloseReturns`,
`DemandIsMet`, `Arrives`, `MessageArrives`, `AppliesReturn`, `Reconnects`,
`DeadIsDropped`, `ShutdownEnds`, `CloseEnds`), which is out of the
prover's reach, as it needs fairness and `ENABLED`; and what recursive definitions compute
(`Objects`, and of `PollReportsOneMoment` the octets it compares), as that takes
induction over data: that what is compared was read at one moment is
`HeadersOfOneMoment`. Every other property of the passing runs is stated by a theorem.

## 7. Findings, and what the properties leave out

Two runs show a statement of the repository that the code does not keep:

1. `channel_router_lock`: `readLoop`, `AddSession` and `writeLoop` wait for one
   another around the router's RWMutex, so that a `Write` never returns.
2. `outstation_apply`: `Apply` queues a builder it has just made, which is empty, and
   returns nil when that one has been handled: nothing it was given is stored,
   although "Apply applies measurement updates atomically" (`outstation.go:167`).

Behaviour the models have and no property forbids, because the code shows it:

- Strict link: a request that timed out once is answered twice, and the second ACK
  completes the next `SendConfirmed` before the peer has read its data (the data is
  on its way: `AckedNotLost`). `KeepAlive` returns when the peer's own status request
  is read. A call that gave up leaves `pending` set, so that every later `Reset`,
  `SendConfirmed` and `KeepAlive` fails with `ErrStrictRequestPending`. A
  reset by either station discards the request of the other, so with two
  resetting stations the bits may disagree and data may be taken for a
  repetition: hence one resetting station in `strict_link_one_way`.
- Channel: a `Write` whose request is queued after `writeLoop` has drained the
  queue waits for ever (`LeftBehind`). `Close` waits for ever if the request left
  behind the drain is that of `readLoop`. Both also wait in the cycle of finding 1
  (`RouterDeadlock`). A channel that is opened again starts loops that end at once,
  since its context is made in `New` only.
- Physical channels: an error on a connection that has been replaced meanwhile
  closes the replacement, which is then dialled or accepted anew. A frame that was read
  on a connection replaced meanwhile, and comes up after the listener has been told, is
  routed like any other and joined with the frames of the new connection
  (`ResetBetween` excepts it). A connection that is made while `Close` runs is stored
  after `Close` has closed the current one, and stays open.
- Classic link: the calls that do not claim the link run at once and share
  `retryCount`, which each new one sets to 0: with a silent outstation and two
  goroutines half a timeout apart, one fails and calls again, and the other repeats for
  ever, past every maximum of retries (`CallsReturn` excepts a caller beside whom others
  begin calls for ever). After one failed call the state is `LinkStateError`, which
  nothing leaves. A NACK makes `handleResponse` send the frame again and report success
  without an answer; the validator has taken over the bit by then, so that data
  whose callback failed is acknowledged as a repetition and lost. A late answer
  completes the next request. Two resets, or a lost one, leave the two bits apart.
  `SuccessIsDelivery` and `AtMostOnce` name these cases in their premises.
- Transport: a reset between the checks of a segment and its storing leaves only
  the tail of a message to be handed up, and two senders that read `txSequence`
  before either advances it, or that write their segments in turns, lose both
  messages or join them (`raced`). Messages longer than 2048 bytes are sent
  and then discarded by the peer.
- Strict session: after a send that was given up the next message bears the numbers
  of the segments already written; with a first segment that went to the handler,
  two messages are joined. A confirmation is written before the application
  reassembly has accepted the fragment. A confirmation written between two
  fragments of an own message makes the peer discard that message. A confirmation
  that arrives is never reported to the caller. Data that arrives during `Reset`,
  `KeepAlive` or `SendApplication` goes to the handler and not to
  `ReceiveApplication`.
- Master: a demand is a flag that the end of a task looks at; with no task queued or
  running the scan is not run, although `demandScan` "triggers an immediate scan"
  (`operations.go:141`), and `DemandIsMet` does not ask for it. A caller that repeats a
  command after `ErrTimeout` has made a second one, and both may be
  executed (`CommandOnce` is about each). A late response completes the next request,
  and so on for ever, since no request empties `pendingResp`; a refusal by IIN bits alone counts as success
  (`SuccessIsExecuted` excludes both). The end of every task queues every scan
  again (`master.go:211`), so the queue grows. A command whose caller was told of a
  timeout is still executed. A removed scan runs once more for each entry in the
  queue. A command waits for every scan that was queued before it: priority decides
  only between equal times. `Disable` and `Enable` leave two processors.
- Outstation: `Apply` stores nothing (finding 2). If it queued the caller's updates,
  `buildStaticData`, which takes the read lock again in each builder it calls, and an
  update that waits for the write lock would block each other; as it is nobody updates
  the outstation's database. An `Apply` whose request is queued when the last processor
  ends waits for ever. A disabled outstation, and one that was shut down, answers.
  SELECT and OPERATE succeed without a `CommandHandler`.
- Database and poll: the class polls ask for group 60 with variations 1 to 4 and
  the outstation decides by group 60 to 63, so that an event poll returns all
  static data three times, and a `ClassField` of several classes makes an empty
  request. Events are never built into a response, and nothing in the program
  reads or clears the buffer. The range that was asked for is not looked at. More
  than 256 points of a kind truncate the stop index. For variations the size table
  does not know (binary 1, analog 3 and 4, counter 7 and 8, and 0) the master reads
  the data as headers. A binary value is sent as bit 7 of its flags. A deadband is
  compared with the last value, so that a value that creeps makes no event. A
  buffer of size 0 fails at the first event. `PollReportsOneMoment` names what is
  conveyed (`Conveyed`).

Not modelled, and why: in `StrictLink`, functions 2 and 15, which this code
never sends, and a write that fails half way; in `Channel`, statistics, a second
`Open` while `Close` waits, several `AddSession` at once; in `ClassicLink`,
`OutstationLink.Stop`, changing timeout and retries during a call, the status
callback; in `Transport`, segments of no bytes, the other direction, which shares
nothing with this one but `Reset`, and the timers of `MasterTransport` and
`OutstationTransport`, which nothing uses; in `Master`, transport segments and
what the configuration asks for on `Enable`, which is an `AddScan` and a `ScanOnce`
like any other; in `PhysicalChannel`, UDP, TLS, statistics and the parsing of the
frame header; in `Outstation`, the unsolicited mask and WRITE, which change no
state a property reads; in `Objects`, commands, time and the serializers of events,
which nothing sends. The strict objects and measurements (`app/strict_object.go`,
`strict_measurement.go`), the frame and CRC codecs and the measurement types are
pure functions on bytes that the repository's tests cover, the manager is in the
plan, logging has no effect on the rest. `PROJECT.json` has each with its reason.
