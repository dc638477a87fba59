------------------------------ MODULE ClassicLink ------------------------------
(***************************************************************************)
(* MasterLink and OutstationLink (pkg/link/master_link.go,                 *)
(* outstation_link.go) joined by a physical layer that keeps the order of  *)
(* frames and may lose some.  Several goroutines may use the MasterLink.   *)
(*                                                                         *)
(* MasterLink.mu guards state and fcb only: sendWithRetry runs outside it, *)
(* and ResetUserProcess, RequestLinkStatus and SendUnconfirmedUserData do  *)
(* not claim the link.  A step is what a goroutine does between two points *)
(* where another one may change what it sees.  sendChan and the frames the *)
(* physical layer carries are one queue here.                              *)
(***************************************************************************)
EXTENDS Naturals, Sequences

CONSTANTS
    Caller,         \* goroutines that use the MasterLink
    Used,           \* the operations they call
    MaxRetries,     \* LinkLayerConfig.MaxRetries
    SendSize,       \* capacity of either sendChan
    ResponseSize,   \* capacity of responseChan
    TooLong,        \* the numbers of the confirmed data that do not fit a frame
    MaxData,        \* bounds: calls of SendConfirmedUserData,
    MaxUnsolicited, \*   calls of SendUnsolicitedData,
    MaxFailures,    \*   failures of the outstation's data callback,
    MaxStops        \*   calls of MasterLink.Stop

ASSUME ClassicLinkAssumption ==
    /\ MaxRetries \in Nat /\ TooLong \subseteq Nat \ {0}
    /\ SendSize \in Nat \ {0} /\ ResponseSize \in Nat \ {0}
    /\ MaxData \in Nat /\ MaxUnsolicited \in Nat /\ MaxFailures \in Nat
    /\ MaxStops \in {0, 1}

VARIABLES
    state,          \* MasterLink.state
    fcb,            \* MasterLink.fcb
    lastSent,       \* MasterLink.lastSentFrame
    retryCount,     \* MasterLink.retryCount
    responses,      \* MasterLink.responseChan
    stopped,        \* MasterLink.ctx is done
    call,           \* what each caller is doing
    toOutstation,   \* frames on their way to the outstation
    toMaster,       \* frames on their way to the master
    lastFCB,        \* FCBValidator: the set of its last bit, {} when not initialized
    online,         \* OutstationLink.state is LinkStateIdle
    budget,         \* bounds: what the environment may still do
    issued,         \* ghost: the number of the last confirmed data
    delivered,      \* ghost: the confirmed data handed over at the outstation, in order
    succeeded,      \* ghost: the confirmed data whose call returned nil
    early,          \* ghost: a timeout passed with an answer still on its way
    shared          \* ghost: two calls of sendWithRetry ran at once

sharedVars == <<state, fcb, lastSent, retryCount>>
outVars == <<lastFCB, online, delivered>>
ghostVars == <<issued, succeeded, early, shared>>
vars == <<sharedVars, responses, stopped, call, toOutstation, toMaster, outVars,
          budget, ghostVars>>

Claiming == [Reset |-> "ResetPending", Test |-> "TestPending", Data |-> "WaitACK"]
PrimaryFn == DOMAIN Claiming \cup {"Process", "Status", "Unconfirmed"}
SecondaryFn == {"Ack", "Nack", "LinkStatus", "Unsolicited"}

\* A request: the number of its data is 0 unless it is confirmed data.
Primary(fn, bit, n) == [fn |-> fn, fcb |-> bit, n |-> n]
PrimaryFrame == [fn : PrimaryFn, fcb : BOOLEAN, n : Nat]
NoFrame == Primary("Reset", FALSE, 0)

\* In sendWithRetry a caller is about to start, about to send, waiting for a
\* response, or between the two halves of retryCount++ after a timeout or a NACK.
Place == {"begun", "sending", "waiting", "timedOut", "refused", "resending"}
NotCalling == [place |-> "idle", frame |-> NoFrame, read |-> 0, copy |-> NoFrame]

TypeOK ==
    /\ state \in {"Idle", "ResetPending", "TestPending", "WaitACK", "Error"}
    /\ fcb \in BOOLEAN
    /\ lastSent \in PrimaryFrame
    /\ retryCount \in Nat
    /\ responses \in Seq(SecondaryFn) /\ Len(responses) <= ResponseSize
    /\ stopped \in BOOLEAN
    /\ call \in [Caller -> [place : Place \cup {"idle"}, frame : PrimaryFrame, read : Nat,
                         copy : PrimaryFrame]]
    /\ toOutstation \in Seq(PrimaryFrame) /\ Len(toOutstation) <= SendSize
    /\ toMaster \in Seq(SecondaryFn) /\ Len(toMaster) <= SendSize
    /\ lastFCB \in SUBSET BOOLEAN
    /\ online \in BOOLEAN
    /\ budget \in [data : 0..MaxData, unsolicited : 0..MaxUnsolicited,
                   failures : 0..MaxFailures, stops : 0..MaxStops]
    /\ issued \in Nat /\ delivered \in Seq(Nat) /\ succeeded \subseteq Nat
    /\ early \in BOOLEAN /\ shared \in BOOLEAN

Init ==
    /\ state = "Idle" /\ fcb = FALSE
    /\ lastSent = NoFrame /\ retryCount = 0
    /\ responses = <<>> /\ stopped = FALSE
    /\ call = [c \in Caller |-> NotCalling]
    /\ toOutstation = <<>> /\ toMaster = <<>>
    /\ lastFCB = {} /\ online = TRUE
    /\ budget = [data |-> MaxData, unsolicited |-> MaxUnsolicited,
                 failures |-> MaxFailures, stops |-> MaxStops]
    /\ issued = 0 /\ delivered = <<>> /\ succeeded = {} /\ early = FALSE /\ shared = FALSE

Spend(what) == budget[what] > 0 /\ budget' = [budget EXCEPT ![what] = @ - 1]

-----------------------------------------------------------------------------
(* The calls of MasterLink.                                                *)

MayCall(c, op) ==
    /\ op \in Used
    /\ call[c].place = "idle"
    /\ state = "Idle"

Begins(c, frame) ==
    /\ call' = [call EXCEPT ![c] = [NotCalling EXCEPT !.place = "begun", !.frame = frame]]
    /\ UNCHANGED <<lastSent, retryCount, responses, stopped, toOutstation, toMaster,
                   outVars, succeeded, early, shared>>

SendConfirmedUserData(c) ==
    /\ MayCall(c, "Data")
    /\ Spend("data")
    /\ state' = Claiming.Data
    /\ fcb' = ~fcb
    /\ issued' = issued + 1
    /\ Begins(c, Primary("Data", ~fcb, issued + 1))

\* ResetLink and TestLink.
Claim(c, op) ==
    /\ MayCall(c, op)
    /\ state' = Claiming[op]
    /\ Begins(c, Primary(op, FALSE, 0))
    /\ UNCHANGED <<fcb, issued, budget>>

\* ResetUserProcess and RequestLinkStatus only look at the state.
Share(c, op) ==
    /\ MayCall(c, op)
    /\ Begins(c, Primary(op, FALSE, 0))
    /\ UNCHANGED <<state, fcb, issued, budget>>

Transmit(frame) ==
    /\ frame.n \notin TooLong
    /\ Len(toOutstation) < SendSize
    /\ toOutstation' = Append(toOutstation, frame)

\* With the context done as well select may still choose to send.
SendUnconfirmedUserData(c) ==
    /\ MayCall(c, "Unconfirmed")
    /\ Transmit(Primary("Unconfirmed", FALSE, 0))
    /\ UNCHANGED <<sharedVars, responses, stopped, call, toMaster, outVars, budget,
                   ghostVars>>

-----------------------------------------------------------------------------
(* sendWithRetry, and the end of the call.                                 *)

\* The end of ResetLink, TestLink and SendConfirmedUserData is one section under
\* mu; the other calls end without one.
Conclude(c, ok) ==
    LET frame == call[c].frame IN
    /\ call' = [call EXCEPT ![c] = NotCalling]
    /\ state' = IF frame.fn \notin DOMAIN Claiming THEN state
                ELSE IF ok THEN "Idle" ELSE "Error"
    /\ fcb' = CASE frame.fn = "Reset" /\ ok -> FALSE
                [] frame.fn = "Data" /\ ~ok -> ~fcb
                [] OTHER -> fcb
    /\ succeeded' = IF frame.fn = "Data" /\ ok THEN succeeded \cup {frame.n} ELSE succeeded
    /\ UNCHANGED <<stopped, toMaster, outVars, budget, issued>>

\* Only whether the counter is past the maximum is ever looked at: the model counts
\* no further.
Incremented(n) == IF n > MaxRetries THEN n ELSE n + 1

Move(c, place) == call' = [call EXCEPT ![c].place = place]

StartSending(c) ==
    /\ call[c].place = "begun"
    /\ lastSent' = call[c].frame
    /\ retryCount' = 0
    /\ Move(c, "sending")
    /\ shared' = (shared \/ \E d \in Caller \ {c} : call[d].place # "idle")
    /\ UNCHANGED <<state, fcb, responses, stopped, toOutstation, toMaster, outVars,
                   budget, issued, succeeded, early>>

Send(c) ==
    /\ call[c].place = "sending"
    /\ retryCount <= MaxRetries
    /\ Transmit(call[c].frame)
    /\ Move(c, "waiting")
    /\ UNCHANGED <<sharedVars, responses, stopped, toMaster, outVars, budget,
                   ghostVars>>

\* Somebody else counted past the maximum, the frame does not serialize, or the
\* context is done.
SendNot(c) ==
    /\ \/ /\ call[c].place = "sending"
          /\ stopped \/ retryCount > MaxRetries \/ call[c].frame.n \in TooLong
       \/ /\ call[c].place = "resending"
          /\ stopped \/ call[c].copy.n \in TooLong
    /\ Conclude(c, FALSE)
    /\ UNCHANGED <<lastSent, retryCount, responses, toOutstation, early, shared>>

WaitNot(c) ==
    /\ call[c].place = "waiting"
    /\ stopped
    /\ Conclude(c, FALSE)
    /\ UNCHANGED <<lastSent, retryCount, responses, toOutstation, early, shared>>

\* Any response there is: whose request it answers is not looked at.
TakeResponse(c) ==
    /\ call[c].place = "waiting"
    /\ responses # <<>>
    /\ responses' = Tail(responses)
    /\ IF Head(responses) = "Nack"
       THEN /\ call' = [call EXCEPT ![c].place = "refused", ![c].read = retryCount]
            /\ UNCHANGED <<state, fcb, stopped, toMaster, outVars, budget, issued,
                           succeeded>>
       ELSE Conclude(c, TRUE)
    /\ UNCHANGED <<lastSent, retryCount, toOutstation, early, shared>>

Quiet == toOutstation = <<>> /\ toMaster = <<>> /\ responses = <<>>

Timeout(c) ==
    /\ call[c].place = "waiting"
    /\ call' = [call EXCEPT ![c].place = "timedOut", ![c].read = retryCount]
    /\ early' = (early \/ ~Quiet)
    /\ UNCHANGED <<sharedVars, responses, stopped, toOutstation, toMaster, outVars,
                   budget, issued, succeeded, shared>>

\* Mutant: the counter stays as it is.
CountTimeoutNot(c) ==
    /\ call[c].place = "timedOut"
    /\ Move(c, "sending")
    /\ UNCHANGED <<state, fcb, stopped, toMaster, outVars, budget, issued, succeeded>>
    /\ UNCHANGED <<lastSent, retryCount, responses, toOutstation, early, shared>>

\* Mutant: a retransmission has the other bit.
CountTimeoutToggles(c) ==
    /\ call[c].place = "timedOut"
    /\ retryCount' = Incremented(call[c].read)
    /\ IF retryCount' > MaxRetries
       THEN Conclude(c, FALSE)
       ELSE /\ call' = [call EXCEPT ![c].place = "sending", ![c].frame.fcb = ~@]
            /\ UNCHANGED <<state, fcb, stopped, toMaster, outVars, budget, issued,
                           succeeded>>
    /\ UNCHANGED <<lastSent, responses, toOutstation, early, shared>>

\* retryCount++ is a read and a write with no lock.
CountTimeout(c) ==
    /\ call[c].place = "timedOut"
    /\ retryCount' = Incremented(call[c].read)
    /\ IF retryCount' > MaxRetries
       THEN Conclude(c, FALSE)
       ELSE /\ Move(c, "sending")
            /\ UNCHANGED <<state, fcb, stopped, toMaster, outVars, budget, issued,
                           succeeded>>
    /\ UNCHANGED <<lastSent, responses, toOutstation, early, shared>>

\* After a NACK the frame is sent once more, with no wait for its answer.
CountRefusal(c) ==
    /\ call[c].place = "refused"
    /\ retryCount' = Incremented(call[c].read)
    /\ IF retryCount' > MaxRetries
       THEN Conclude(c, FALSE)
       ELSE /\ call' = [call EXCEPT ![c].place = "resending", ![c].copy = lastSent]
            /\ UNCHANGED <<state, fcb, stopped, toMaster, outVars, budget, issued,
                           succeeded>>
    /\ UNCHANGED <<lastSent, responses, toOutstation, early, shared>>

Resend(c) ==
    /\ call[c].place = "resending"
    /\ Transmit(call[c].copy)
    /\ Conclude(c, TRUE)
    /\ UNCHANGED <<lastSent, retryCount, responses, early, shared>>

Stop ==
    /\ Spend("stops")
    /\ stopped' = TRUE
    /\ UNCHANGED <<sharedVars, responses, call, toOutstation, toMaster, outVars,
                   ghostVars>>

GoesOn(c) ==
    \/ StartSending(c) \/ Send(c) \/ SendNot(c) \/ WaitNot(c) \/ TakeResponse(c)
    \/ Timeout(c) \/ CountTimeout(c) \/ CountRefusal(c) \/ Resend(c)

Calling(c) ==
    \/ SendConfirmedUserData(c) \/ SendUnconfirmedUserData(c)
    \/ \E op \in {"Reset", "Test"} : Claim(c, op)
    \/ \E op \in {"Process", "Status"} : Share(c, op)

-----------------------------------------------------------------------------
(* OutstationLink: one frame is handled by one call of OnFrameReceived.    *)

Take(fn) ==
    /\ toOutstation # <<>>
    /\ Head(toOutstation).fn = fn
    /\ toOutstation' = Tail(toOutstation)

Answer(fn) ==
    /\ Len(toMaster) < SendSize
    /\ toMaster' = Append(toMaster, fn)
    /\ online' = TRUE

ElseUnchanged ==
    UNCHANGED <<sharedVars, responses, stopped, call, ghostVars>>

\* Mutant: the validator keeps its bit.
HandleResetLinkKeepsBit ==
    /\ Take("Reset")
    /\ Answer("Ack")
    /\ UNCHANGED <<lastFCB, delivered, budget>>
    /\ ElseUnchanged

HandleResetLink ==
    /\ Take("Reset")
    /\ lastFCB' = {}
    /\ Answer("Ack")
    /\ UNCHANGED <<delivered, budget>>
    /\ ElseUnchanged

\* handleResetUserProcess, handleTestLink, handleRequestLinkStatus.
HandleOther ==
    /\ \E fn \in {"Process", "Test", "Status"} :
        /\ Take(fn)
        /\ Answer(IF fn = "Status" THEN "LinkStatus" ELSE "Ack")
    /\ UNCHANGED <<lastFCB, delivered, budget>>
    /\ ElseUnchanged

\* FCBValidator.ValidateAndUpdate: a bit that was seen last time is a repetition.
IsDuplicate(frame) == frame.fcb \in lastFCB

HandleDuplicate ==
    /\ Take("Data")
    /\ IsDuplicate(Head(toOutstation))
    /\ Answer("Ack")
    /\ UNCHANGED <<lastFCB, delivered, budget>>
    /\ ElseUnchanged

HandleConfirmedUserData ==
    /\ Take("Data")
    /\ ~IsDuplicate(Head(toOutstation))
    /\ lastFCB' = {Head(toOutstation).fcb}
    /\ delivered' = Append(delivered, Head(toOutstation).n)
    /\ Answer("Ack")
    /\ UNCHANGED budget
    /\ ElseUnchanged

\* The bit is taken over before the callback is known to succeed.
CallbackFails ==
    /\ Take("Data")
    /\ ~IsDuplicate(Head(toOutstation))
    /\ Spend("failures")
    /\ lastFCB' = {Head(toOutstation).fcb}
    /\ Answer("Nack")
    /\ UNCHANGED delivered
    /\ ElseUnchanged

HandleUnconfirmedUserData ==
    /\ Take("Unconfirmed")
    /\ \/ online' = TRUE /\ UNCHANGED budget
       \/ online' = FALSE /\ Spend("failures")
    /\ UNCHANGED <<lastFCB, delivered, toMaster>>
    /\ ElseUnchanged

\* With unsolicited responses enabled.
SendUnsolicitedData ==
    /\ Spend("unsolicited")
    /\ Len(toMaster) < SendSize
    /\ toMaster' = Append(toMaster, "Unsolicited")
    /\ UNCHANGED <<toOutstation, outVars>>
    /\ ElseUnchanged

OutstationHandles ==
    \/ HandleResetLink \/ HandleOther \/ HandleDuplicate \/ HandleConfirmedUserData
    \/ CallbackFails \/ HandleUnconfirmedUserData

-----------------------------------------------------------------------------
(* MasterLink.OnFrameReceived, and the physical layer.                     *)

\* Mutant: a response is kept although responseChan is full.
MasterReceivesAll ==
    /\ toMaster # <<>>
    /\ toMaster' = Tail(toMaster)
    /\ responses' = IF Head(toMaster) = "Unsolicited" THEN responses
                    ELSE Append(responses, Head(toMaster))
    /\ UNCHANGED <<sharedVars, stopped, call, toOutstation, outVars, budget, ghostVars>>

\* Unsolicited data goes to the callback; a response for which there is no room
\* is dropped.
MasterReceives ==
    /\ toMaster # <<>>
    /\ toMaster' = Tail(toMaster)
    /\ responses' = IF Head(toMaster) = "Unsolicited" \/ Len(responses) = ResponseSize
                    THEN responses
                    ELSE Append(responses, Head(toMaster))
    /\ UNCHANGED <<sharedVars, stopped, call, toOutstation, outVars, budget,
                   ghostVars>>

LoseRequest ==
    /\ toOutstation # <<>>
    /\ toOutstation' = Tail(toOutstation)
    /\ UNCHANGED <<toMaster, outVars, budget>>
    /\ ElseUnchanged

LoseResponse ==
    /\ toMaster # <<>>
    /\ toMaster' = Tail(toMaster)
    /\ UNCHANGED <<toOutstation, outVars, budget>>
    /\ ElseUnchanged

-----------------------------------------------------------------------------
Next ==
    \/ \E c \in Caller : Calling(c) \/ GoesOn(c)
    \/ Stop
    \/ OutstationHandles \/ SendUnsolicitedData
    \/ MasterReceives
    \/ LoseRequest \/ LoseResponse

Spec == Init /\ [][Next]_vars

\* Goroutines that can go on do, timers expire, and both ends are served by the
\* physical layer. A Go channel serves the senders that wait for room in the order
\* they came, so whoever waits for sendChan is not overtaken for ever.
Fairness ==
    /\ \A c \in Caller : WF_vars(GoesOn(c)) /\ SF_vars(Send(c)) /\ SF_vars(Resend(c))
    /\ WF_vars(OutstationHandles)
    /\ WF_vars(MasterReceives)

FairSpec == Spec /\ Fairness
-----------------------------------------------------------------------------
(* Properties.                                                             *)

Delivered == {delivered[i] : i \in DOMAIN delivered}

\* As long as no two calls run at once, no confirmed data is handed over twice or
\* out of order, whatever was lost, late, refused or reset.
AtMostOnce ==
    ~shared => \A i, j \in DOMAIN delivered : i < j => delivered[i] < delivered[j]

\* If besides no timeout passed with the answer on its way, no callback failed
\* and nobody called Stop, data whose call returned nil was handed over.
SuccessIsDelivery ==
    (~shared /\ ~early /\ ~stopped /\ budget.failures = MaxFailures)
    => succeeded \subseteq Delivered

\* A call returns, whether or not anybody answers and however the counter is shared,
\* unless other goroutines begin calls beside it for ever: a call that does not claim
\* the link sets the counter of all of them to 0, so that the others repeat for ever.
CallsReturn ==
    \A c \in Caller :
        <>[][\A d \in Caller \ {c} : ~StartSending(d)]_vars
        => ((call[c].place # "idle") ~> (call[c].place = "idle"))
=============================================================================
