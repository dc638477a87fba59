-------------------------------- MODULE Channel --------------------------------
(***************************************************************************)
(* One Channel (pkg/channel/channel.go) with its Router (router.go) over a *)
(* connection-oriented PhysicalChannel, and the goroutines that meet in    *)
(* it: callers of Write, readLoop and the session callbacks it runs,       *)
(* writeLoop, Close, AddSession and RemoveSession, and the goroutine of    *)
(* the physical channel that establishes connections.                      *)
(*                                                                         *)
(* A step is what a goroutine does between two points where another one    *)
(* may run.  Router.mu is held over several steps only by Route, while the *)
(* session handles the frame; every other section under it is one step.    *)
(* An RWMutex lets no new reader in while a writer waits, so the lock is   *)
(* determined by what readLoop and the session manager are doing.          *)
(***************************************************************************)
EXTENDS Naturals, Sequences, FiniteSets

CONSTANTS
    Client,         \* goroutines that call Write
    ReadLoop,       \* the readLoop goroutine, which calls Write from OnReceive
    Address,        \* link addresses
    Nobody,
    Answering,      \* addresses whose session writes while it handles a frame
    QueueSize,      \* capacity of writeQueue
    MayClose,       \* whether somebody calls Close
    MaxWrites,      \* bounds: calls of Write by each goroutine,
    MaxFrames,      \*   frames received,
    MaxFailures,    \*   reads and writes that find the connection broken,
    MaxConnects,    \*   connections established,
    MaxSessions,    \*   calls of AddSession and RemoveSession,
    MaxOpens        \*   calls of Open

Caller == Client \cup {ReadLoop}

ASSUME ChannelAssumption ==
    /\ ReadLoop \notin Client
    /\ Nobody \notin Caller \cup Address
    /\ Answering \subseteq Address
    /\ QueueSize \in Nat \ {0}
    /\ MayClose \in BOOLEAN
    /\ MaxWrites \in Nat /\ MaxFrames \in Nat /\ MaxFailures \in Nat
    /\ MaxConnects \in Nat /\ MaxSessions \in Nat /\ MaxOpens \in Nat

VARIABLES
    state,          \* Channel.state
    cancelled,      \* Channel.ctx is done
    queue,          \* writeQueue: the callers whose request is in it
    phase,          \* where each caller is in Write
    answer,         \* what is in the resp channel of its request
    calls,          \* how many calls of Write each caller has made
    writer,         \* where writeLoop is
    current,        \* whose request writeLoop is writing
    reader,         \* where readLoop is
    target,         \* destination of the frame readLoop is routing
    closing,        \* where Close is
    sessions,       \* Router.sessions
    admin,          \* the call of AddSession or RemoveSession waiting for Router.mu
    connected,      \* the physical channel has a connection
    physicalClosed, \* PhysicalChannel.Close has been called
    connector,      \* where the physical channel's own goroutine is
    budget,         \* bounds: what the environment may still do
    wire,           \* ghost: the calls of each caller whose frame was written, in order
    reported        \* ghost: what each call of Write returned

channelVars == <<state, cancelled>>
writeVars == <<queue, phase, answer, calls, reported>>
writerVars == <<writer, current, wire>>
readerVars == <<reader, target>>
routerVars == <<sessions, admin>>
physicalVars == <<connected, physicalClosed, connector>>
vars == <<channelVars, writeVars, writerVars, readerVars, closing, routerVars,
          physicalVars, budget>>

Outcome == {"ok", "closed", "failed"}
Idle == [op |-> "idle", address |-> Nobody]
Budget == [frames : 0..MaxFrames, failures : 0..MaxFailures, connects : 0..MaxConnects,
           sessions : 0..MaxSessions, opens : 0..MaxOpens]

TypeOK ==
    /\ state \in {"Open", "Closed"}
    /\ cancelled \in BOOLEAN
    /\ queue \in Seq(Caller) /\ Len(queue) <= QueueSize
    /\ phase \in [Caller -> {"idle", "checked", "queued"}]
    /\ answer \in [Caller -> Outcome \cup {"none"}]
    /\ calls \in [Caller -> 0..MaxWrites]
    /\ writer \in {"off", "idle", "writing", "notifying", "draining"}
    /\ current \in Caller \cup {Nobody}
    /\ reader \in {"off", "reading", "notifying", "routing", "delivering"}
    /\ target \in Address \cup {Nobody}
    /\ closing \in {"idle", "cancel", "physical", "join", "wait"}
    /\ sessions \subseteq Address
    /\ admin \in [op : {"add", "remove"}, address : Address] \cup {Idle}
    /\ connected \in BOOLEAN /\ physicalClosed \in BOOLEAN
    /\ connector \in {"off", "waiting", "notifying"}
    /\ budget \in Budget
    /\ wire \in [Caller -> Seq(0..MaxWrites)]
    /\ reported \in [Caller -> Seq(Outcome)]

Init ==
    /\ state = "Closed" /\ cancelled = FALSE
    /\ queue = <<>>
    /\ phase = [c \in Caller |-> "idle"]
    /\ answer = [c \in Caller |-> "none"]
    /\ calls = [c \in Caller |-> 0]
    /\ writer = "off" /\ current = Nobody
    /\ reader = "off" /\ target = Nobody
    /\ closing = "idle"
    /\ sessions \in SUBSET Address /\ admin = Idle
    /\ connected = FALSE /\ physicalClosed = FALSE /\ connector = "waiting"
    /\ budget = [frames |-> MaxFrames, failures |-> MaxFailures, connects |-> MaxConnects,
                 sessions |-> MaxSessions, opens |-> MaxOpens]
    /\ wire = [c \in Caller |-> <<>>]
    /\ reported = [c \in Caller |-> <<>>]

Spend(what) == budget[what] > 0 /\ budget' = [budget EXCEPT ![what] = @ - 1]

-----------------------------------------------------------------------------
(* Opening and closing.                                                    *)

\* The context is made once, in New: after a Close the loops of a second Open
\* find it done.  (A second Open while Close is still waiting is not modelled.)
Open ==
    /\ state = "Closed" /\ closing = "idle"
    /\ Spend("opens")
    /\ state' = "Open"
    /\ reader' = "reading"
    /\ writer' = "idle"
    /\ UNCHANGED <<cancelled, writeVars, current, wire, target, closing, routerVars,
                   physicalVars>>

CloseBegin ==
    /\ MayClose
    /\ state = "Open" /\ closing = "idle"
    /\ state' = "Closed"
    /\ closing' = "cancel"
    /\ UNCHANGED <<cancelled, writeVars, writerVars, readerVars, routerVars,
                   physicalVars, budget>>

CloseCancel ==
    /\ closing = "cancel"
    /\ cancelled' = TRUE
    /\ closing' = "physical"
    /\ UNCHANGED <<state, writeVars, writerVars, readerVars, routerVars, physicalVars,
                   budget>>

ClosePhysical ==
    /\ closing = "physical"
    /\ physicalClosed' = TRUE
    /\ connected' = FALSE
    /\ closing' = "join"
    /\ UNCHANGED <<channelVars, writeVars, writerVars, readerVars, routerVars, connector,
                   budget>>

\* PhysicalChannel.Close waits for the physical channel's own goroutine.
PhysicalJoined ==
    /\ closing = "join"
    /\ connector = "off"
    /\ closing' = "wait"
    /\ UNCHANGED <<channelVars, writeVars, writerVars, readerVars, routerVars, physicalVars,
                   budget>>

\* Mutant: Close does not wait for the loops.
CloseReturnEarly ==
    /\ closing = "wait"
    /\ closing' = "idle"
    /\ UNCHANGED <<channelVars, writeVars, writerVars, readerVars, routerVars, physicalVars,
                   budget>>

CloseReturn ==
    /\ closing = "wait"
    /\ reader = "off" /\ writer = "off"
    /\ closing' = "idle"
    /\ UNCHANGED <<channelVars, writeVars, writerVars, readerVars, routerVars, physicalVars,
                   budget>>

Closing == CloseBegin \/ CloseCancel \/ ClosePhysical \/ PhysicalJoined \/ CloseReturn

-----------------------------------------------------------------------------
(* Write.                                                                  *)

Report(c, outcome) == reported' = [reported EXCEPT ![c] = Append(@, outcome)]

\* A session calls Write from its OnReceive, any number of times.
MayWrite(c) ==
    /\ phase[c] = "idle"
    /\ calls[c] < MaxWrites
    /\ c = ReadLoop => reader = "delivering" /\ target \in Answering

WriteWhenClosed(c) ==
    /\ MayWrite(c)
    /\ state # "Open"
    /\ calls' = [calls EXCEPT ![c] = @ + 1]
    /\ Report(c, "closed")
    /\ UNCHANGED <<channelVars, queue, phase, answer, writerVars, readerVars, closing,
                   routerVars, physicalVars, budget>>

\* The state is looked at, and the lock given back before the queue is.
WriteWhenOpen(c) ==
    /\ MayWrite(c)
    /\ state = "Open"
    /\ calls' = [calls EXCEPT ![c] = @ + 1]
    /\ phase' = [phase EXCEPT ![c] = "checked"]
    /\ UNCHANGED <<channelVars, queue, answer, reported, writerVars, readerVars, closing,
                   routerVars, physicalVars, budget>>

\* Mutant: the queue has no capacity.
EnqueueUnbounded(c) ==
    /\ phase[c] = "checked"
    /\ queue' = Append(queue, c)
    /\ phase' = [phase EXCEPT ![c] = "queued"]
    /\ UNCHANGED <<channelVars, answer, calls, reported, writerVars, readerVars, closing,
                   routerVars, physicalVars, budget>>

Enqueue(c) ==
    /\ phase[c] = "checked"
    /\ Len(queue) < QueueSize
    /\ queue' = Append(queue, c)
    /\ phase' = [phase EXCEPT ![c] = "queued"]
    /\ UNCHANGED <<channelVars, answer, calls, reported, writerVars, readerVars, closing,
                   routerVars, physicalVars, budget>>

GiveUp(c) ==
    /\ phase[c] = "checked"
    /\ cancelled
    /\ phase' = [phase EXCEPT ![c] = "idle"]
    /\ Report(c, "closed")
    /\ UNCHANGED <<channelVars, queue, answer, calls, writerVars, readerVars, closing,
                   routerVars, physicalVars, budget>>

\* Mutant: the wait for the answer ends with the context too.
WriteReturnAnyway(c) ==
    /\ phase[c] = "queued"
    /\ answer[c] # "none" \/ cancelled
    /\ phase' = [phase EXCEPT ![c] = "idle"]
    /\ answer' = [answer EXCEPT ![c] = "none"]
    /\ Report(c, IF answer[c] # "none" THEN answer[c] ELSE "closed")
    /\ UNCHANGED <<channelVars, queue, calls, writerVars, readerVars, closing, routerVars,
                   physicalVars, budget>>

WriteReturn(c) ==
    /\ phase[c] = "queued"
    /\ answer[c] # "none"
    /\ phase' = [phase EXCEPT ![c] = "idle"]
    /\ answer' = [answer EXCEPT ![c] = "none"]
    /\ Report(c, answer[c])
    /\ UNCHANGED <<channelVars, queue, calls, writerVars, readerVars, closing, routerVars,
                   physicalVars, budget>>

WriteGoesOn(c) == Enqueue(c) \/ GiveUp(c) \/ WriteReturn(c)
Write(c) == WriteWhenClosed(c) \/ WriteWhenOpen(c) \/ WriteGoesOn(c)

-----------------------------------------------------------------------------
(* The lock of the router.                                                 *)

MayRLock == admin = Idle
MayLock == reader # "delivering"

-----------------------------------------------------------------------------
(* writeLoop.                                                              *)

Answer(c, outcome) == answer' = [answer EXCEPT ![c] = outcome]

\* With the context done, select may still take a request; the physical
\* channel refuses to write it.
TakeRequest ==
    /\ writer = "idle"
    /\ queue # <<>>
    /\ queue' = Tail(queue)
    /\ IF cancelled
       THEN /\ Answer(Head(queue), "failed")
            /\ UNCHANGED <<writer, current>>
       ELSE /\ writer' = "writing"
            /\ current' = Head(queue)
            /\ UNCHANGED answer
    /\ UNCHANGED <<channelVars, phase, calls, reported, wire, readerVars, closing,
                   routerVars, physicalVars, budget>>

Finish(outcome) ==
    /\ Answer(current, outcome)
    /\ writer' = "idle"
    /\ current' = Nobody
    /\ UNCHANGED <<channelVars, queue, phase, calls, reported, readerVars, closing,
                   routerVars>>

Send ==
    /\ writer = "writing"
    /\ connected
    /\ wire' = [wire EXCEPT ![current] = Append(@, calls[current])]
    /\ Finish("ok")
    /\ UNCHANGED <<physicalVars, budget>>

SendRefused ==
    /\ writer = "writing"
    /\ cancelled \/ physicalClosed \/ ~connected
    /\ Finish("failed")
    /\ UNCHANGED <<wire, physicalVars, budget>>

\* The connection breaks under the write; before the error is returned the
\* sessions are told, by this goroutine.
SendBreaks ==
    /\ writer = "writing"
    /\ connected
    /\ Spend("failures")
    /\ connected' = FALSE
    /\ writer' = "notifying"
    /\ UNCHANGED <<channelVars, writeVars, current, wire, readerVars, closing, routerVars,
                   physicalClosed, connector>>

\* Mutant: the error path gives no answer.
SendNotifiedSilently ==
    /\ writer = "notifying"
    /\ MayRLock
    /\ writer' = "idle"
    /\ current' = Nobody
    /\ UNCHANGED <<channelVars, writeVars, wire, readerVars, closing, routerVars,
                   physicalVars, budget>>

SendNotified ==
    /\ writer = "notifying"
    /\ MayRLock
    /\ Finish("failed")
    /\ UNCHANGED <<wire, physicalVars, budget>>

StartDraining ==
    /\ writer = "idle"
    /\ cancelled
    /\ writer' = "draining"
    /\ UNCHANGED <<channelVars, writeVars, current, wire, readerVars, closing, routerVars,
                   physicalVars, budget>>

Drain ==
    /\ writer = "draining"
    /\ queue # <<>>
    /\ queue' = Tail(queue)
    /\ Answer(Head(queue), "closed")
    /\ UNCHANGED <<channelVars, phase, calls, reported, writerVars, readerVars, closing,
                   routerVars, physicalVars, budget>>

WriterStops ==
    /\ writer = "draining"
    /\ queue = <<>>
    /\ writer' = "off"
    /\ UNCHANGED <<channelVars, writeVars, current, wire, readerVars, closing, routerVars,
                   physicalVars, budget>>

WriteLoop ==
    \/ TakeRequest \/ Send \/ SendRefused \/ SendBreaks \/ SendNotified
    \/ StartDraining \/ Drain \/ WriterStops

-----------------------------------------------------------------------------
(* readLoop, Route and the session's OnReceive.                            *)

ReadFrame(a) ==
    /\ reader = "reading"
    /\ connected
    /\ Spend("frames")
    /\ reader' = "routing"
    /\ target' = a
    /\ UNCHANGED <<channelVars, writeVars, writerVars, closing, routerVars, physicalVars>>

ReadBreaks ==
    /\ reader = "reading"
    /\ connected
    /\ Spend("failures")
    /\ connected' = FALSE
    /\ reader' = "notifying"
    /\ UNCHANGED <<channelVars, writeVars, writerVars, target, closing, routerVars,
                   physicalClosed, connector>>

ReadNotified ==
    /\ reader = "notifying"
    /\ MayRLock
    /\ reader' = "reading"
    /\ UNCHANGED <<channelVars, writeVars, writerVars, target, closing, routerVars,
                   physicalVars, budget>>

\* Mutant: the context is only looked at after a successful read.
ReaderStopsOnceRead ==
    /\ reader = "reading"
    /\ cancelled
    /\ connected
    /\ reader' = "off"
    /\ UNCHANGED <<channelVars, writeVars, writerVars, target, closing, routerVars,
                   physicalVars, budget>>

ReaderStops ==
    /\ reader = "reading"
    /\ cancelled
    /\ reader' = "off"
    /\ UNCHANGED <<channelVars, writeVars, writerVars, target, closing, routerVars,
                   physicalVars, budget>>

Route ==
    /\ reader = "routing"
    /\ MayRLock
    /\ IF target \in sessions
       THEN reader' = "delivering" /\ UNCHANGED target
       ELSE reader' = "reading" /\ target' = Nobody
    /\ UNCHANGED <<channelVars, writeVars, writerVars, closing, routerVars, physicalVars,
                   budget>>

Delivered ==
    /\ reader = "delivering"
    /\ phase[ReadLoop] = "idle"
    /\ reader' = "reading"
    /\ target' = Nobody
    /\ UNCHANGED <<channelVars, writeVars, writerVars, closing, routerVars, physicalVars,
                   budget>>

Reading == ReadNotified \/ ReaderStops \/ Route \/ Delivered

-----------------------------------------------------------------------------
(* AddSession and RemoveSession; the physical channel.                     *)

AskSessionChange(op, a) ==
    /\ admin = Idle
    /\ Spend("sessions")
    /\ admin' = [op |-> op, address |-> a]
    /\ UNCHANGED <<channelVars, writeVars, writerVars, readerVars, closing, sessions,
                   physicalVars>>

\* AddSession refuses an address in use: the set stays as it is.
ChangeSession ==
    /\ admin # Idle
    /\ MayLock
    /\ sessions' = IF admin.op = "add" THEN sessions \cup {admin.address}
                                       ELSE sessions \ {admin.address}
    /\ admin' = Idle
    /\ UNCHANGED <<channelVars, writeVars, writerVars, readerVars, closing, physicalVars,
                   budget>>

\* A first connection, or one that replaces the one there is.
Connect ==
    /\ connector = "waiting"
    /\ ~physicalClosed
    /\ Spend("connects")
    /\ connected' = TRUE
    /\ connector' = "notifying"
    /\ UNCHANGED <<channelVars, writeVars, writerVars, readerVars, closing, routerVars,
                   physicalClosed>>

ConnectNotified ==
    /\ connector = "notifying"
    /\ MayRLock
    /\ connector' = "waiting"
    /\ UNCHANGED <<channelVars, writeVars, writerVars, readerVars, closing, routerVars,
                   connected, physicalClosed, budget>>

ConnectorStops ==
    /\ connector = "waiting"
    /\ physicalClosed
    /\ connector' = "off"
    /\ UNCHANGED <<channelVars, writeVars, writerVars, readerVars, closing, routerVars,
                   connected, physicalClosed, budget>>

-----------------------------------------------------------------------------
Next ==
    \/ Open \/ Closing \/ WriteLoop \/ Reading
    \/ \E c \in Caller : Write(c)
    \/ \E a \in Address : ReadFrame(a)
    \/ ReadBreaks
    \/ \E op \in {"add", "remove"}, a \in Address : AskSessionChange(op, a)
    \/ ChangeSession
    \/ Connect \/ ConnectNotified \/ ConnectorStops

Spec == Init /\ [][Next]_vars

\* Every goroutine that can go on does.  Nobody has to call, to connect or to
\* send a frame.
Fairness ==
    /\ WF_vars(CloseCancel \/ ClosePhysical \/ PhysicalJoined \/ CloseReturn)
    /\ WF_vars(WriteLoop)
    /\ WF_vars(Reading)
    /\ \A c \in Caller : WF_vars(WriteGoesOn(c))
    /\ WF_vars(ChangeSession)
    /\ WF_vars(ConnectNotified \/ ConnectorStops)

FairSpec == Spec /\ Fairness
-----------------------------------------------------------------------------
(* Properties.                                                             *)

\* The calls of caller c whose frame was written.
Written(c) == {wire[c][i] : i \in DOMAIN wire[c]}

\* What Write returns is what happened to its frame: nil, and it was written;
\* ErrChannelClosed, and it never was nor will be.
ReportsAreTrue ==
    \A c \in Caller : \A n \in DOMAIN reported[c] :
        /\ reported[c][n] = "ok" => n \in Written(c)
        /\ reported[c][n] = "closed" => n \notin Written(c)

\* A request that a caller waits for is in one place: in the queue, with
\* writeLoop, or answered.  No request is answered twice, and none is forgotten
\* on an error path.
InQueue(c) == \E i \in DOMAIN queue : queue[i] = c

OnePlace ==
    /\ \A i, j \in DOMAIN queue : queue[i] = queue[j] => i = j
    /\ \A c \in Caller :
        /\ phase[c] = "queued" <=> InQueue(c) \/ current = c \/ answer[c] # "none"
        /\ InQueue(c) => current # c /\ answer[c] = "none"
        /\ current = c => answer[c] = "none"

\* The frames of one caller reach the wire in the order of its calls and none
\* reaches it twice: a segmented APDU is not shuffled by the queue.
CallOrder ==
    \A c \in Caller : \A i, j \in DOMAIN wire[c] : i < j => wire[c][i] < wire[c][j]

\* The callers get what WriteService promises.
Service == INSTANCE WriteService
WritesAreServed == Service!Spec

\* Close has returned, and nobody called Open since.
HasClosed == state = "Closed" /\ closing = "idle" /\ cancelled

\* When Close has returned nothing is written any more, no session sees a
\* frame, and no goroutine of the channel holds the router.
QuietAfterClose ==
    [][HasClosed => wire' = wire /\ reader' # "delivering"]_vars

\* A request whose answer nobody will give: writeLoop had drained the queue when
\* it was put there.
LeftBehind(c) == phase[c] = "queued" /\ writer = "off"

\* readLoop is with a session that waits for writeLoop, writeLoop waits for the
\* router's read lock to tell the sessions of a broken connection, and AddSession or
\* RemoveSession, which waits for readLoop to give its read lock back, is before it.
RouterDeadlock ==
    /\ reader = "delivering"
    /\ \/ phase[ReadLoop] = "queued"
       \/ phase[ReadLoop] = "checked" /\ Len(queue) = QueueSize /\ ~cancelled
    /\ admin # Idle
    /\ writer = "notifying"

\* Write returns, also while the channel is being closed, unless its request was
\* queued behind the last drain, or the router is blocked for good.
WritesReturn ==
    \A c \in Caller :
        (phase[c] # "idle") ~> (phase[c] = "idle" \/ LeftBehind(c) \/ RouterDeadlock)

\* Close returns, with the same exceptions for readLoop's own request.
CloseReturns ==
    (closing # "idle") ~> (closing = "idle" \/ LeftBehind(ReadLoop) \/ RouterDeadlock)

-----------------------------------------------------------------------------
(* What README.md says, and the code does not do.                          *)

\* "Concurrent & Thread-Safe - Built with goroutines and channels for safe concurrent
\* operations": Write returns, whatever the sessions of the channel are doing.
EveryWriteReturns ==
    \A c \in Caller : (phase[c] # "idle") ~> (phase[c] = "idle" \/ LeftBehind(c))

=============================================================================
