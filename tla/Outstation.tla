-------------------------------- MODULE Outstation --------------------------------
(***************************************************************************)
(* An outstation (pkg/outstation: outstation.go, update_builder.go): the   *)
(* goroutines that call Apply, Enable, Disable and Shutdown, its           *)
(* updateProcessors, and the readLoop of its channel, which handles a      *)
(* request in session.OnReceive from the link frame to the response.       *)
(*                                                                         *)
(* The points of the database are not here (module Poll has them), only    *)
(* the lock: readLoop holds it for reading while it builds a response, and *)
(* builds the parts of a class 0 response under a second read lock; an     *)
(* updateProcessor needs it for writing if a batch has updates, which no   *)
(* batch has (Queued).                                                     *)
(***************************************************************************)
EXTENDS Naturals, Sequences, FiniteSets

CONSTANTS
    Caller,         \* goroutines that call Apply
    Processor,      \* updateProcessor goroutines: one for each Enable that starts one
    Point,          \* what a batch may update
    None,
    QueueSize,      \* capacity of updateChan (100 in the code)
    Parts,          \* kinds of points the database has any of: 0 to 3
    MaxApplies,     \* bounds: calls of Apply of each caller,
    MaxFrames,      \*   frames received,
    MaxFailures     \*   writes to the channel that fail

ASSUME OutstationAssumption ==
    /\ QueueSize \in Nat \ {0} /\ Parts \in 0..3
    /\ MaxApplies \in Nat /\ MaxFrames \in Nat /\ MaxFailures \in Nat
    /\ None \notin Caller

VARIABLES
    enabled,        \* outstation.enabled
    done,           \* outstation.ctx is done
    shutdown,       \* where Shutdown is
    place,          \* where each updateProcessor is
    request,        \* the request it has taken from updateChan
    queue,          \* updateChan: whose requests
    given,          \* what each caller wants applied in its last call
    call,           \* each caller of Apply: where it is, and then what it returned
    applies,        \* bound: calls each may still make
    handled,        \* ghost: how often the request of the last call was handled
    stored,         \* ghost: the updates of it that have been stored
    todo,           \* readLoop: what it has yet to do for the frame it handles
    readLocks,      \* read locks it holds on Database.mu
    frames, failures    \* bounds: how many may still come

applyVars == <<queue, given, call, applies, handled, stored>>
handlerVars == <<todo, readLocks, frames, failures>>
vars == <<enabled, done, shutdown, place, request, applyVars, handlerVars>>

LinkFrame == {"reset", "status", "confirmed", "unconfirmed"}
Content == {"part", "malformed", "class0", "points", "events", "other"}
Step == {"RLock", "RUnlock", "write"}

Errors == {"disabled", "full", "cancelled"}

TypeOK ==
    /\ enabled \in BOOLEAN /\ done \in BOOLEAN
    /\ shutdown \in {"no", "waiting", "returned"}
    /\ place \in [Processor -> {"off", "idle", "applying", "ended"}]
    /\ request \in [Processor -> Caller \cup {None}]
    /\ \A p \in Processor : place[p] = "applying" <=> request[p] # None
    /\ queue \in Seq(Caller) /\ Len(queue) <= QueueSize
    /\ given \in [Caller -> SUBSET Point] /\ stored \in [Caller -> SUBSET Point]
    /\ call \in [Caller -> {"idle", "queuing", "waiting", "answered", "ok"} \cup Errors]
    /\ applies \in [Caller -> 0..MaxApplies] /\ handled \in [Caller -> Nat]
    /\ todo \in Seq(Step) /\ readLocks \in 0..2
    /\ frames \in 0..MaxFrames /\ failures \in 0..MaxFailures

Init ==
    /\ enabled = FALSE /\ done = FALSE /\ shutdown = "no"
    /\ place = [p \in Processor |-> "off"]
    /\ request = [p \in Processor |-> None]
    /\ queue = <<>>
    /\ given = [c \in Caller |-> {}] /\ stored = [c \in Caller |-> {}]
    /\ call = [c \in Caller |-> "idle"]
    /\ applies = [c \in Caller |-> MaxApplies]
    /\ handled = [c \in Caller |-> 0]
    /\ todo = <<>> /\ readLocks = 0
    /\ frames = MaxFrames /\ failures = MaxFailures

-----------------------------------------------------------------------------
(* Enable, Disable, Shutdown.                                              *)

\* Neither Disable nor an earlier Enable is an end for a processor that runs.  (With
\* AllowUnsolicited an unsolicitedProcessor starts too, which does nothing and ends
\* with the context.)
Enable ==
    /\ ~enabled
    /\ enabled' = TRUE
    /\ \E p \in Processor :
        /\ place[p] = "off"
        /\ place' = [place EXCEPT ![p] = "idle"]
    /\ UNCHANGED <<done, shutdown, request, applyVars, handlerVars>>

Disable ==
    /\ enabled
    /\ enabled' = FALSE
    /\ UNCHANGED <<done, shutdown, place, request, applyVars, handlerVars>>

Shutdown ==
    /\ shutdown = "no"
    /\ enabled' = FALSE
    /\ done' = TRUE
    /\ shutdown' = "waiting"
    /\ UNCHANGED <<place, request, applyVars, handlerVars>>

ShutdownReturns ==
    /\ shutdown = "waiting"
    /\ \A p \in Processor : place[p] \in {"off", "ended"}
    /\ shutdown' = "returned"
    /\ UNCHANGED <<enabled, done, place, request, applyVars, handlerVars>>

-----------------------------------------------------------------------------
(* Apply.                                                                  *)

\* What the request holds of the updates that were given: Apply makes a builder of its
\* own, which is empty, and queues that.
Queued(updates) == {}

Calls(c) == call[c] \notin {"queuing", "waiting", "answered"} /\ applies[c] > 0

\* A call begins, with any updates.
Anew(c) ==
    /\ \E updates \in SUBSET Point : given' = [given EXCEPT ![c] = updates]
    /\ applies' = [applies EXCEPT ![c] = @ - 1]
    /\ handled' = [handled EXCEPT ![c] = 0]
    /\ stored' = [stored EXCEPT ![c] = {}]

ApplyDisabled(c) ==
    /\ Calls(c) /\ ~enabled
    /\ call' = [call EXCEPT ![c] = "disabled"]
    /\ Anew(c)
    /\ UNCHANGED <<enabled, done, shutdown, place, request, queue, handlerVars>>

Apply(c) ==
    /\ Calls(c) /\ enabled
    /\ call' = [call EXCEPT ![c] = "queuing"]
    /\ Anew(c)
    /\ UNCHANGED <<enabled, done, shutdown, place, request, queue, handlerVars>>

\* Mutant: the capacity of the channel is not there.
EnqueueUnbounded(c) ==
    /\ call[c] = "queuing"
    /\ queue' = Append(queue, c)
    /\ call' = [call EXCEPT ![c] = "waiting"]
    /\ UNCHANGED <<enabled, done, shutdown, place, request, given, applies, handled, stored,
                   handlerVars>>

\* Also when the context is done: select takes either.
Enqueue(c) ==
    /\ call[c] = "queuing" /\ Len(queue) < QueueSize
    /\ queue' = Append(queue, c)
    /\ call' = [call EXCEPT ![c] = "waiting"]
    /\ UNCHANGED <<enabled, done, shutdown, place, request, given, applies, handled, stored,
                   handlerVars>>

\* Mutant: the deadline is one for the answer too.
GiveUpWaiting(c) ==
    /\ \/ call[c] \in {"queuing", "waiting"} /\ call' = [call EXCEPT ![c] = "full"]
       \/ call[c] = "queuing" /\ done /\ call' = [call EXCEPT ![c] = "cancelled"]
    /\ UNCHANGED <<enabled, done, shutdown, place, request, queue, given, applies, handled,
                   stored, handlerVars>>

GiveUp(c) ==
    /\ call[c] = "queuing"
    /\ \/ call' = [call EXCEPT ![c] = "full"]
       \/ done /\ call' = [call EXCEPT ![c] = "cancelled"]
    /\ UNCHANGED <<enabled, done, shutdown, place, request, queue, given, applies, handled,
                   stored, handlerVars>>

ApplyReturns(c) ==
    /\ call[c] = "answered"
    /\ call' = [call EXCEPT ![c] = "ok"]
    /\ UNCHANGED <<enabled, done, shutdown, place, request, queue, given, applies, handled,
                   stored, handlerVars>>

-----------------------------------------------------------------------------
(* updateProcessor.                                                        *)

TakeRequest(p) ==
    /\ place[p] = "idle" /\ queue # <<>>
    /\ place' = [place EXCEPT ![p] = "applying"]
    /\ request' = [request EXCEPT ![p] = Head(queue)]
    /\ queue' = Tail(queue)
    /\ UNCHANGED <<enabled, done, shutdown, given, call, applies, handled, stored,
                   handlerVars>>

Batch(p) == Queued(given[request[p]])

\* Mutant: only a batch that changed something is answered.
FinishChanged(p) ==
    /\ place[p] = "applying"
    /\ Batch(p) # {} => readLocks = 0
    /\ stored' = [stored EXCEPT ![request[p]] = Batch(p)]
    /\ handled' = [handled EXCEPT ![request[p]] = @ + 1]
    /\ call' = [call EXCEPT ![request[p]] = IF Batch(p) # {} THEN "answered" ELSE @]
    /\ place' = [place EXCEPT ![p] = "idle"]
    /\ request' = [request EXCEPT ![p] = None]
    /\ UNCHANGED <<enabled, done, shutdown, queue, given, applies, handlerVars>>

\* applyUpdates takes the write lock for each update there is; then the answer.
Finish(p) ==
    /\ place[p] = "applying"
    /\ Batch(p) # {} => readLocks = 0
    /\ stored' = [stored EXCEPT ![request[p]] = Batch(p)]
    /\ handled' = [handled EXCEPT ![request[p]] = @ + 1]
    /\ call' = [call EXCEPT ![request[p]] = "answered"]
    /\ place' = [place EXCEPT ![p] = "idle"]
    /\ request' = [request EXCEPT ![p] = None]
    /\ UNCHANGED <<enabled, done, shutdown, queue, given, applies, handlerVars>>

\* Mutant: the loop ends when the outstation is disabled.
ProcessorEndsDisabled(p) ==
    /\ place[p] = "idle" /\ done /\ ~enabled
    /\ place' = [place EXCEPT ![p] = "ended"]
    /\ UNCHANGED <<enabled, done, shutdown, request, applyVars, handlerVars>>

ProcessorEnds(p) ==
    /\ place[p] = "idle" /\ done
    /\ place' = [place EXCEPT ![p] = "ended"]
    /\ UNCHANGED <<enabled, done, shutdown, request, applyVars, handlerVars>>

-----------------------------------------------------------------------------
(* session.OnReceive.                                                      *)

ReadLocks(n) == [i \in 1..(2 * n) |-> IF i % 2 = 1 THEN "RLock" ELSE "RUnlock"]

\* What a READ does to the database's lock: class 0 takes it once around everything
\* and once more for each kind of point.
Locking(content) ==
    CASE content = "class0" ->
            <<"RLock">> \o ReadLocks(Parts) \o <<"RUnlock">>
      [] content = "points" -> ReadLocks(1)
      [] OTHER -> <<>>

\* The link layer's answer, then, if there is a whole and legible APDU, what the
\* handler of its function does, and one write for each segment of the response:
\* two for class 0.
Handling(frame, content) ==
    LET Answer == IF frame = "unconfirmed" THEN <<>> ELSE <<"write">>
        Respond == IF content = "class0" THEN <<"write", "write">> ELSE <<"write">>
    IN  IF frame \in {"reset", "status"} \/ content \in {"part", "malformed"}
        THEN Answer
        ELSE Answer \o Locking(content) \o Respond

\* enabled is not looked at: a disabled outstation answers too.
OnReceive(frame, content) ==
    /\ todo = <<>> /\ frames > 0
    /\ todo' = Handling(frame, content)
    /\ frames' = frames - 1
    /\ UNCHANGED <<enabled, done, shutdown, place, request, applyVars, readLocks, failures>>

\* sync.RWMutex: a writer that waits keeps new readers out.
BatchWaits == \E p \in Processor : place[p] = "applying" /\ Batch(p) # {}

ReadLock ==
    /\ todo # <<>>
    /\ \/ Head(todo) = "RLock" /\ ~BatchWaits /\ readLocks' = readLocks + 1
       \/ Head(todo) = "RUnlock" /\ readLocks' = readLocks - 1
    /\ todo' = Tail(todo)
    /\ UNCHANGED <<enabled, done, shutdown, place, request, applyVars, frames, failures>>

\* sendLinkAck, sendLinkStatus, sendAPDU: the first write that fails is the last.  A write
\* is a Channel.Write, which need not return to readLoop (Channel, LeftBehind and
\* RouterDeadlock): nothing says that this step is ever taken.
WriteOut ==
    /\ todo # <<>> /\ Head(todo) = "write"
    /\ \/ todo' = Tail(todo) /\ UNCHANGED failures
       \/ todo' = <<>> /\ failures > 0 /\ failures' = failures - 1
    /\ UNCHANGED <<enabled, done, shutdown, place, request, applyVars, readLocks, frames>>

-----------------------------------------------------------------------------
Handler == ReadLock \/ WriteOut

Process(p) == TakeRequest(p) \/ Finish(p) \/ ProcessorEnds(p)

Next ==
    \/ Enable \/ Disable \/ Shutdown \/ ShutdownReturns
    \/ \E c \in Caller :
        ApplyDisabled(c) \/ Apply(c) \/ Enqueue(c) \/ GiveUp(c) \/ ApplyReturns(c)
    \/ \E p \in Processor : Process(p)
    \/ \E frame \in LinkFrame, content \in Content : OnReceive(frame, content)
    \/ Handler

Spec == Init /\ [][Next]_vars

\* Goroutines that can go on do; nobody has to call anything, and a write need not return.
FairSpec ==
    /\ Spec
    /\ WF_vars(ShutdownReturns) /\ WF_vars(ReadLock)
    /\ \A p \in Processor : WF_vars(Process(p))
    /\ \A c \in Caller : WF_vars(GiveUp(c) \/ Enqueue(c)) /\ WF_vars(ApplyReturns(c))

-----------------------------------------------------------------------------
(* Properties.                                                             *)

InQueue(c) == \E i \in DOMAIN queue : queue[i] = c

\* What becomes of a request is what Apply reports of it: after nil a processor has
\* handled it, once; after an error none has and none will.  (Of the updates it was to
\* carry this says nothing.)
RequestHandledOnce ==
    \A c \in Caller :
        /\ call[c] \in {"answered", "ok"} => handled[c] = 1
        /\ call[c] \in {"idle"} \cup Errors =>
            handled[c] = 0 /\ ~InQueue(c) /\ \A p \in Processor : request[p] # c

\* "Apply applies measurement updates atomically": once it has returned nil the updates
\* it was given are stored.  Violated: what it queues is a builder of its own.
UpdatesApplied ==
    \A c \in Caller : call[c] = "ok" => stored[c] = given[c]

\* A request that was queued when no processor was left to take it.
LeftBehind(c) ==
    done /\ InQueue(c) /\ \A p \in Processor : place[p] \in {"off", "ended"}

\* Apply returns, except to a caller that was left behind, whatever has become of
\* readLoop.
AppliesReturn ==
    \A c \in Caller :
        (call[c] \in {"queuing", "waiting"})
            ~> (call[c] \notin {"queuing", "waiting"} \/ LeftBehind(c))

\* Shutdown returns, also when the outstation is enabled again meanwhile.
ShutdownEnds == (shutdown = "waiting") ~> (shutdown = "returned")
=============================================================================
