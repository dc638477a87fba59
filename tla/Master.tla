--------------------------------- MODULE Master ---------------------------------
(***************************************************************************)
(* A master (pkg/master: master.go, operations.go, tasks.go) with its      *)
(* PriorityQueue (pkg/internal/queue), the goroutines that call it, and an *)
(* outstation behind a channel that loses and delays messages.             *)
(*                                                                         *)
(* The queue is ordered by NextRun and by priority only between equal      *)
(* times: what is due is a FIFO, what is not yet due is a count for each   *)
(* scan.  A response is matched with a request by nothing but the moment   *)
(* it arrives: sequence numbers are sent and never compared, so they are   *)
(* left out.                                                               *)
(***************************************************************************)
EXTENDS Naturals, Sequences, FiniteSets

CONSTANTS
    Scan,           \* periodic scans that may be added
    Command,        \* calls of SelectAndOperate and DirectOperate
    Selecting,      \* those of SelectAndOperate
    Once,           \* the task of ScanIntegrity, ScanClasses, ScanRange
    Processor,      \* taskProcessor goroutines: one for each Enable that starts one
    None,
    MaxEntries,     \* bounds: entries of one scan in the queue,
    MaxInFlight,    \*   requests and responses on their way,
    MaxEvents       \*   one-time scans, demands, losses, unsolicited responses

Task == Scan \cup Command \cup {Once}

ASSUME MasterAssumption ==
    /\ Scan \cap Command = {} /\ Once \notin Scan \cup Command
    /\ Selecting \subseteq Command /\ IsFiniteSet(Scan)
    /\ None \notin Task
    /\ MaxEntries \in Nat \ {0} /\ MaxInFlight \in Nat \ {0}
    /\ MaxEvents \in Nat

VARIABLES
    enabled,        \* master.enabled
    done,           \* master.ctx is done
    shutdown,       \* where Shutdown is
    place,          \* where each taskProcessor is
    job,            \* the request it is making: task and phase
    ready,          \* taskQueue: tasks that are due, in order
    later,          \* taskQueue: entries of each scan that are not due yet
    scans,          \* master.scans
    unused,         \* scans whose id has not been given yet
    demanded,       \* scans with PeriodicScan.demanded
    wanted,         \* ghost: scans demanded that have not been begun since
    result,         \* what is in CommandTask.result
    pendingResp,    \* master.pendingResp: a channel of one
    toOutstation,   \* requests on their way
    toMaster,       \* responses on their way
    events,         \* bounds: how many events may still happen
    executed,       \* ghost: how often the outstation executed each command
    told,           \* each call for a command: where it is, and then what it returned
    mixed           \* ghost: a response may have met the wrong request, or refused
                    \*   without objects

queueVars == <<ready, later>>
scanVars == <<scans, unused, demanded, wanted>>
wireVars == <<toOutstation, toMaster>>
vars == <<enabled, done, shutdown, place, job, queueVars, scanVars, told, result,
          pendingResp, wireVars, events, executed, mixed>>

Phase == {"read", "select", "operate", "direct"}
Request == [task : Task, phase : Phase]
NoJob == [task |-> None, phase |-> "none"]
Response == [request : Request \cup {NoJob}, ok : BOOLEAN]
Unasked == [request |-> NoJob, ok |-> TRUE]
Empty == [request |-> NoJob, ok |-> FALSE]

Running(p) == place[p] \in {"sending", "waiting"}

TypeOK ==
    /\ enabled \in BOOLEAN /\ done \in BOOLEAN
    /\ shutdown \in {"no", "waiting", "returned"}
    /\ place \in [Processor -> {"off", "idle", "sending", "waiting", "ended"}]
    /\ job \in [Processor -> Request \cup {NoJob}]
    /\ \A p \in Processor : Running(p) <=> job[p] # NoJob
    /\ ready \in Seq(Task)
    /\ later \in [Scan -> 0..MaxEntries]
    /\ scans \subseteq Scan /\ unused \subseteq Scan \ scans /\ demanded \subseteq Scan
    /\ wanted \subseteq Scan
    /\ result \in [Command -> {"none", "ok", "refused", "failed"}]
    /\ pendingResp \in Response
    /\ toOutstation \in Seq(Request) /\ toMaster \in Seq(Response)
    /\ events \in 0..MaxEvents
    /\ executed \in [Command -> Nat]
    /\ told \in [Command -> {"idle", "waiting", "ok", "refused", "failed", "timeout"}]
    /\ mixed \in BOOLEAN

Init ==
    /\ enabled = FALSE /\ done = FALSE /\ shutdown = "no"
    /\ place = [p \in Processor |-> "off"]
    /\ job = [p \in Processor |-> NoJob]
    /\ ready = <<>> /\ later = [s \in Scan |-> 0]
    /\ scans = {} /\ unused = Scan /\ demanded = {} /\ wanted = {}
    /\ result = [c \in Command |-> "none"]
    /\ pendingResp = Empty
    /\ toOutstation = <<>> /\ toMaster = <<>>
    /\ events = MaxEvents
    /\ executed = [c \in Command |-> 0]
    /\ told = [c \in Command |-> "idle"]
    /\ mixed = FALSE

Event == events > 0 /\ events' = events - 1

-----------------------------------------------------------------------------
(* Enable, Disable, Shutdown.                                              *)

\* Disable leaves the processor of an earlier Enable running: this starts one more.
\* What the configuration asks for at the start is a ScanOnce and an AddScan of
\* goroutines that go on later. After Shutdown the processor finds the context done.
Enable ==
    /\ ~enabled
    /\ enabled' = TRUE
    /\ \E p \in Processor :
        /\ place[p] = "off"
        /\ place' = [place EXCEPT ![p] = "idle"]
    /\ UNCHANGED <<done, shutdown, job, queueVars, scanVars, told, result, pendingResp,
                   wireVars, events, executed, mixed>>

Disable ==
    /\ enabled
    /\ enabled' = FALSE
    /\ UNCHANGED <<done, shutdown, place, job, queueVars, scanVars, told, result,
                   pendingResp, wireVars, events, executed, mixed>>

Shutdown ==
    /\ shutdown = "no"
    /\ enabled' = FALSE
    /\ done' = TRUE
    /\ shutdown' = "waiting"
    /\ UNCHANGED <<place, job, queueVars, scanVars, told, result, pendingResp, wireVars,
                   events, executed, mixed>>

ShutdownReturns ==
    /\ shutdown = "waiting"
    /\ \A p \in Processor : place[p] \in {"off", "ended"}
    /\ shutdown' = "returned"
    /\ UNCHANGED <<enabled, done, place, job, queueVars, scanVars, told, result,
                   pendingResp, wireVars, events, executed, mixed>>

-----------------------------------------------------------------------------
(* What callers ask for.                                                   *)

\* AddIntegrityScan, AddClassScan, AddRangeScan.
AddScan(s) ==
    /\ s \in unused
    /\ unused' = unused \ {s}
    /\ scans' = scans \cup {s}
    /\ ready' = Append(ready, s)
    /\ UNCHANGED <<enabled, done, shutdown, place, job, later, demanded, wanted, told,
                   result, pendingResp, wireVars, events, executed, mixed>>

\* What is queued for a removed scan stays queued.
RemoveScan(s) ==
    /\ s \in scans
    /\ scans' = scans \ {s}
    /\ demanded' = demanded \ {s}
    /\ wanted' = wanted \ {s}
    /\ UNCHANGED <<enabled, done, shutdown, place, job, queueVars, unused, told, result,
                   pendingResp, wireVars, events, executed, mixed>>

\* A demand is only noted: the next task that ends looks at it.
DemandScan(s) ==
    /\ s \in scans
    /\ Event
    /\ demanded' = demanded \cup {s}
    /\ wanted' = wanted \cup {s}
    /\ UNCHANGED <<enabled, done, shutdown, place, job, queueVars, scans, unused, told,
                   result, pendingResp, wireVars, executed, mixed>>

ScanOnce ==
    /\ Event
    /\ ready' = Append(ready, Once)
    /\ UNCHANGED <<enabled, done, shutdown, place, job, later, scanVars, told, result,
                   pendingResp, wireVars, executed, mixed>>

\* SelectAndOperate and DirectOperate.
Operate(c) ==
    /\ told[c] = "idle"
    /\ told' = [told EXCEPT ![c] = "waiting"]
    /\ ready' = Append(ready, c)
    /\ UNCHANGED <<enabled, done, shutdown, place, job, later, scanVars, result, pendingResp,
                   wireVars, events, executed, mixed>>

Return(c, what) ==
    /\ told[c] = "waiting"
    /\ told' = [told EXCEPT ![c] = what]
    /\ UNCHANGED <<enabled, done, shutdown, place, job, queueVars, scanVars, pendingResp,
                   wireVars, events, executed, mixed>>

OperateReturns(c) ==
    /\ result[c] # "none"
    /\ Return(c, result[c])
    /\ result' = [result EXCEPT ![c] = "none"]

\* The deadline, or the context.  The task stays in the queue.
OperateTimesOut(c) ==
    /\ Return(c, "timeout")
    /\ UNCHANGED result

-----------------------------------------------------------------------------
(* taskProcessor.                                                          *)

FirstPhase(t) ==
    IF t \in Scan \cup {Once} THEN "read" ELSE IF t \in Selecting THEN "select" ELSE "direct"

Begin(p, t) ==
    /\ place' = [place EXCEPT ![p] = "sending"]
    /\ job' = [job EXCEPT ![p] = [task |-> t, phase |-> FirstPhase(t)]]
    /\ wanted' = wanted \ {t}
    /\ UNCHANGED <<enabled, done, shutdown, later, scans, unused, demanded, told, result,
                   pendingResp, wireVars, events, executed, mixed>>

\* Mutant: the comment on NextReady ("without removing it") is right.
TakeTaskKeepingIt(p) ==
    /\ place[p] = "idle"
    /\ enabled /\ ready # <<>>
    /\ UNCHANGED ready
    /\ Begin(p, Head(ready))

TakeTask(p) ==
    /\ place[p] = "idle"
    /\ enabled /\ ready # <<>>
    /\ ready' = Tail(ready)
    /\ Begin(p, Head(ready))

\* Mutant: the loop looks at the context only while the master is enabled.
ProcessorEndsEnabled(p) ==
    /\ place[p] = "idle"
    /\ done /\ enabled
    /\ place' = [place EXCEPT ![p] = "ended"]
    /\ UNCHANGED <<enabled, done, shutdown, job, queueVars, scanVars, told, result,
                   pendingResp, wireVars, events, executed, mixed>>

ProcessorEnds(p) ==
    /\ place[p] = "idle"
    /\ done
    /\ place' = [place EXCEPT ![p] = "ended"]
    /\ UNCHANGED <<enabled, done, shutdown, job, queueVars, scanVars, told, result,
                   pendingResp, wireVars, events, executed, mixed>>

Send(p) ==
    /\ place[p] = "sending"
    /\ Len(toOutstation) + Len(toMaster) < MaxInFlight
    /\ toOutstation' = Append(toOutstation, job[p])
    /\ place' = [place EXCEPT ![p] = "waiting"]
    /\ mixed' = (mixed \/ \E q \in Processor \ {p} : Running(q))
    /\ UNCHANGED <<enabled, done, shutdown, job, queueVars, scanVars, told, result,
                   pendingResp, toMaster, events, executed>>

\* reschedulePeriodicScans: every scan, whichever task has ended.  The scans are
\* a map, so those demanded are queued in any order.
Orders(S) == {f \in [1..Cardinality(S) -> S] : \A i, j \in DOMAIN f : f[i] = f[j] => i = j}
Entries(s) == later[s] + Cardinality({i \in DOMAIN ready : ready[i] = s})

\* Mutant: a demanded scan is queued for the end of its period like the others.
RescheduleRegularly ==
    /\ later' = [s \in Scan |-> IF s \in scans /\ Entries(s) < MaxEntries
                               THEN later[s] + 1 ELSE later[s]]
    /\ demanded' = {}
    /\ UNCHANGED <<ready, scans, unused, wanted>>

Reschedule ==
    /\ \E order \in Orders(demanded) : ready' = ready \o order
    /\ later' = [s \in Scan |-> IF s \in scans \ demanded /\ Entries(s) < MaxEntries
                               THEN later[s] + 1 ELSE later[s]]
    /\ demanded' = {}
    /\ UNCHANGED <<scans, unused, wanted>>

\* Mutant: a processor that is idle again keeps its request.
TaskEndsHoldingOn(p, outcome) ==
    /\ place' = [place EXCEPT ![p] = "idle"]
    /\ job' = job
    /\ result' = [c \in Command |-> IF job[p].task = c /\ result[c] = "none" THEN outcome
                                    ELSE result[c]]
    /\ UNCHANGED <<enabled, done, shutdown, told, executed>>

TaskEnds(p, outcome) ==
    /\ place' = [place EXCEPT ![p] = "idle"]
    /\ job' = [job EXCEPT ![p] = NoJob]
    /\ result' = [c \in Command |-> IF job[p].task = c /\ result[c] = "none" THEN outcome
                                    ELSE result[c]]
    /\ UNCHANGED <<enabled, done, shutdown, told, executed>>

\* Mutant: a task that failed is the end of the scans.
TaskFailsForGood(p) ==
    /\ Running(p)
    /\ \/ place[p] = "sending" /\ Event /\ UNCHANGED mixed
       \/ /\ place[p] = "waiting" /\ UNCHANGED events
          /\ mixed' = (mixed \/ toOutstation # <<>> \/ toMaster # <<>> \/ pendingResp # Empty)
    /\ TaskEnds(p, "failed")
    /\ UNCHANGED <<pendingResp, wireVars, queueVars, scanVars>>

\* The write is refused; the deadline passes or the context ends.
TaskFails(p) ==
    /\ Running(p)
    /\ \/ place[p] = "sending" /\ Event /\ UNCHANGED mixed
       \/ /\ place[p] = "waiting" /\ UNCHANGED events
          /\ mixed' = (mixed \/ toOutstation # <<>> \/ toMaster # <<>> \/ pendingResp # Empty)
    /\ TaskEnds(p, "failed")
    /\ Reschedule
    /\ UNCHANGED <<pendingResp, wireVars>>

\* Mutant: SELECT is taken for the whole command.
TakeResponseAndStop(p) ==
    /\ place[p] = "waiting"
    /\ pendingResp # Empty
    /\ pendingResp' = Empty
    /\ TaskEnds(p, IF pendingResp.ok THEN "ok" ELSE "refused")
    /\ Reschedule
    /\ UNCHANGED <<wireVars, events, mixed>>

\* Whatever response there is: no drain before the request, no sequence number.
TakeResponse(p) ==
    /\ place[p] = "waiting"
    /\ pendingResp # Empty
    /\ pendingResp' = Empty
    /\ IF job[p].phase = "select" /\ pendingResp.ok
       THEN /\ job' = [job EXCEPT ![p].phase = "operate"]
            /\ place' = [place EXCEPT ![p] = "sending"]
            /\ UNCHANGED <<enabled, done, shutdown, queueVars, scanVars, told, result,
                           executed>>
       ELSE /\ TaskEnds(p, IF pendingResp.ok THEN "ok" ELSE "refused")
            /\ Reschedule
    /\ UNCHANGED <<wireVars, events, mixed>>

\* The next run of a scan comes.
Due(s) ==
    /\ later[s] > 0
    /\ later' = [later EXCEPT ![s] = @ - 1]
    /\ ready' = Append(ready, s)
    /\ UNCHANGED <<enabled, done, shutdown, place, job, scanVars, told, result,
                   pendingResp, wireVars, events, executed, mixed>>

Process(p) ==
    TakeTask(p) \/ ProcessorEnds(p) \/ Send(p) \/ TaskFails(p) \/ TakeResponse(p)

-----------------------------------------------------------------------------
(* onReceiveAPDU, and the outstation.                                      *)

OnReceiveAPDU ==
    /\ toMaster # <<>>
    /\ toMaster' = Tail(toMaster)
    /\ pendingResp' = IF pendingResp = Empty THEN Head(toMaster) ELSE pendingResp
    /\ UNCHANGED <<enabled, done, shutdown, place, job, queueVars, scanVars, told,
                   result, toOutstation, events, executed, mixed>>

Operates(request) == request.phase \in {"operate", "direct"}

\* A command is accepted or refused, a refusal is told in the status of the objects
\* or in the IIN bits alone: parseCommandResponse takes a response without objects
\* for success and no one looks at the IIN.
OutstationAnswers ==
    /\ toOutstation # <<>>
    /\ toOutstation' = Tail(toOutstation)
    /\ \E accepts, inObjects \in BOOLEAN :
        /\ Head(toOutstation).phase = "read" => accepts
        /\ toMaster' = Append(toMaster, [request |-> Head(toOutstation),
                                        ok |-> accepts \/ ~inObjects])
        /\ executed' = [c \in Command |->
                IF accepts /\ Operates(Head(toOutstation)) /\ Head(toOutstation).task = c
                THEN executed[c] + 1 ELSE executed[c]]
        /\ mixed' = (mixed \/ ~(accepts \/ inObjects))
    /\ UNCHANGED <<enabled, done, shutdown, place, job, queueVars, scanVars, told,
                   result, pendingResp, events>>

OutstationSpeaks ==
    /\ Len(toOutstation) + Len(toMaster) < MaxInFlight
    /\ Event
    /\ toMaster' = Append(toMaster, Unasked)
    /\ mixed' = TRUE
    /\ UNCHANGED <<enabled, done, shutdown, place, job, queueVars, scanVars, told,
                   result, pendingResp, toOutstation, executed>>

LoseRequest ==
    /\ toOutstation # <<>>
    /\ Event
    /\ toOutstation' = Tail(toOutstation)
    /\ UNCHANGED <<enabled, done, shutdown, place, job, queueVars, scanVars, told,
                   result, pendingResp, toMaster, executed, mixed>>

LoseResponse ==
    /\ toMaster # <<>>
    /\ Event
    /\ toMaster' = Tail(toMaster)
    /\ UNCHANGED <<enabled, done, shutdown, place, job, queueVars, scanVars, told,
                   result, pendingResp, toOutstation, executed, mixed>>

-----------------------------------------------------------------------------
Next ==
    \/ Enable \/ Disable \/ Shutdown \/ ShutdownReturns
    \/ \E s \in Scan : AddScan(s) \/ RemoveScan(s) \/ DemandScan(s) \/ Due(s)
    \/ ScanOnce
    \/ \E c \in Command : Operate(c) \/ OperateReturns(c) \/ OperateTimesOut(c)
    \/ \E p \in Processor : Process(p)
    \/ OnReceiveAPDU \/ OutstationAnswers \/ OutstationSpeaks \/ LoseRequest \/ LoseResponse

Spec == Init /\ [][Next]_vars

\* Goroutines that can go on do, deadlines pass, and what is on its way arrives, so
\* that Channel.Write returns. A select that finds the context done again and again
\* does not choose the tick for ever. No period need ever pass.
Fairness ==
    /\ \A p \in Processor : WF_vars(Process(p)) /\ SF_vars(ProcessorEnds(p))
    /\ \A c \in Command : WF_vars(OperateReturns(c) \/ OperateTimesOut(c))
    /\ WF_vars(ShutdownReturns)
    /\ WF_vars(OutstationAnswers) /\ WF_vars(OnReceiveAPDU)

FairSpec == Spec /\ Fairness
-----------------------------------------------------------------------------
(* Properties.                                                             *)

\* A scan that was added and not removed is queued, or a task is running whose
\* end will queue it: no failure, refusal or second processor makes the master
\* forget it.
ScanNotForgotten ==
    \A s \in scans : Entries(s) > 0 \/ \E p \in Processor : Running(p)

\* No command is executed twice by the outstation, however many processors run
\* and whatever its caller was told.
CommandOnce == \A c \in Command : executed[c] <= 1

\* A call that returned success was executed, as long as no deadline passed with
\* a message on its way, no two requests ran at once, nothing unsolicited came and
\* every refusal was told in objects.
SuccessIsExecuted ==
    ~mixed => \A c \in Command : told[c] = "ok" => executed[c] = 1

\* A demand made while some task is queued or running is met with a run of the scan
\* that begins after it, unless the scan is removed or the master is disabled or shut
\* down. That run does not wait for the scan's period: FairSpec lets none pass.
DemandIsMet ==
    \A s \in Scan :
        (s \in wanted /\ (ready # <<>> \/ \E p \in Processor : Running(p)))
        ~> (s \notin wanted \/ ~enabled \/ done)

\* Shutdown returns.
ShutdownEnds == (shutdown = "waiting") ~> (shutdown = "returned")
=============================================================================
