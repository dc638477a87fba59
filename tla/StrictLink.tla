------------------------------ MODULE StrictLink ------------------------------
(***************************************************************************)
(* Two stations running the strict link layer: each is one StrictState     *)
(* (pkg/link/strict_state.go) driven by one StrictChannel                  *)
(* (pkg/link/strict_channel.go) over one net.Conn.                         *)
(*                                                                         *)
(* A station runs one call at a time, because StrictChannel.acquire turns  *)
(* every concurrent call away without touching any state.  Between two     *)
(* reads a call is alone with its StrictState, so a step of the model is   *)
(* what a call does from one read of the connection to the next: apply the *)
(* frame, write the response, hand over the data, return, retry or read    *)
(* again.  The two connections are lossless FIFO byte streams, one inbox   *)
(* per station.  Each request a station issues is given the next number    *)
(* (id); numbers are ghosts, and no guard reads them.                      *)
(***************************************************************************)
EXTENDS Naturals, Sequences, FiniteSets

CONSTANTS
    Master, Outstation,     \* the two ends of the connection
    MaximumRetries,         \* StrictChannel.maximumRetries
    Resetters,              \* stations that call Reset
    Senders,                \* stations that call SendConfirmed
    Announcers,             \* stations that call SendUnconfirmed
    Pollers,                \* stations that call KeepAlive
    WithHandler,            \* stations that pass a StrictUserDataHandler to their calls
    Faults,                 \* what can go wrong in this environment, see AllFaults
    MaxRequests             \* bound: requests each station issues in a behaviour

Station == {Master, Outstation}

\* What the environment of a call can do to it:
\*   cancelBefore  the context is done before the first frame is written
\*   cancelDuring  the context is done, or the connection fails, during a read
\*   tornRead      the read deadline passes in the middle of a frame
\*   replyFails    the write of a response fails after the frame was applied
\*   handlerFails  the StrictUserDataHandler returns an error
AllFaults == {"cancelBefore", "cancelDuring", "tornRead", "replyFails", "handlerFails"}

ASSUME StrictLinkAssumption ==
    /\ Master # Outstation
    /\ MaximumRetries \in Nat
    /\ MaxRequests \in [Station -> Nat]
    /\ Resetters \cup Senders \cup Announcers \cup Pollers \cup WithHandler \subseteq Station
    /\ Faults \subseteq AllFaults

Peer(s) == IF s = Master THEN Outstation ELSE Master

PrimaryFn == {"ResetLink", "ConfirmedData", "UnconfirmedData", "LinkStatusRequest"}
SecondaryFn == {"Ack", "Nack", "LinkStatus"}
Frame == [fn : PrimaryFn \cup SecondaryFn, fcb : BOOLEAN, id : Nat]

\* The frames that wait for an answer.
Request == [fn : PrimaryFn \ {"UnconfirmedData"}, fcb : BOOLEAN, id : Nat]

None == [fn |-> "None", fcb |-> FALSE, id |-> 0]

Primary(fn, fcb, n) == [fn |-> fn, fcb |-> fcb, id |-> n]
Secondary(fn) == [fn |-> fn, fcb |-> FALSE, id |-> 0]

IsPrimary(f) == f.fn \in PrimaryFn

VARIABLES
    ready,          \* StrictState.ready
    nextSendFCB,    \* StrictState.nextSendFCB
    expectedFCB,    \* StrictState.expectedFCB
    pending,        \* StrictState.pending and pendingFn; None is nil
    call,           \* the call holding StrictChannel.busy
    request,        \* the frame a transact call was started with; None otherwise
    attempt,        \* transact's loop counter
    inbox,          \* frames written by the peer and not read yet
    torn,           \* the next read of this station starts inside the first frame of inbox
    issued,         \* ghost: number of requests issued
    delivered,      \* ghost: numbers of the user data handed to the station's caller
    succeeded       \* ghost: requests whose call returned nil

stateVars == <<ready, nextSendFCB, expectedFCB, pending>>
callVars == <<call, request, attempt>>
vars == <<ready, nextSendFCB, expectedFCB, pending, call, request, attempt,
          inbox, torn, issued, delivered, succeeded>>

TypeOK ==
    /\ ready \in [Station -> BOOLEAN]
    /\ nextSendFCB \in [Station -> BOOLEAN]
    /\ expectedFCB \in [Station -> BOOLEAN]
    /\ pending \in [Station -> Request \cup {None}]
    /\ call \in [Station -> {"idle", "receive", "transact"}]
    /\ request \in [Station -> Request \cup {None}]
    /\ attempt \in [Station -> 0..MaximumRetries]
    /\ inbox \in [Station -> Seq(Frame)]
    /\ torn \in [Station -> BOOLEAN]
    /\ issued \in [Station -> Nat]
    /\ delivered \in [Station -> Seq(Nat)]
    /\ succeeded \in [Station -> SUBSET Request]
    /\ \A s \in Station : call[s] = "transact" <=> request[s] # None

Init ==
    /\ ready = [s \in Station |-> FALSE]
    /\ nextSendFCB = [s \in Station |-> TRUE]
    /\ expectedFCB = [s \in Station |-> TRUE]
    /\ pending = [s \in Station |-> None]
    /\ call = [s \in Station |-> "idle"]
    /\ request = [s \in Station |-> None]
    /\ attempt = [s \in Station |-> 0]
    /\ inbox = [s \in Station |-> <<>>]
    /\ torn = [s \in Station |-> FALSE]
    /\ issued = [s \in Station |-> 0]
    /\ delivered = [s \in Station |-> <<>>]
    /\ succeeded = [s \in Station |-> {}]

-----------------------------------------------------------------------------
(* What a call does with its stream.                                       *)

Write(s, frames) == inbox' = [inbox EXCEPT ![Peer(s)] = @ \o frames]

\* One frame is read from the stream of s and frames are written to its peer.
Exchange(s, frames) ==
    inbox' = [t \in Station |-> IF t = s THEN Tail(inbox[s]) ELSE inbox[t] \o frames]

\* ReadStrictFrame returns a frame of function fn to the call running at s.
Reads(s, fn) ==
    /\ call[s] # "idle"
    /\ ~torn[s]
    /\ inbox[s] # <<>>
    /\ Head(inbox[s]).fn = fn

Return(s) ==
    /\ call' = [call EXCEPT ![s] = "idle"]
    /\ request' = [request EXCEPT ![s] = None]
    /\ attempt' = [attempt EXCEPT ![s] = 0]

\* The call of s returns nil.
Succeed(s) ==
    /\ Return(s)
    /\ succeeded' = [succeeded EXCEPT ![s] = @ \cup {request[s]}]

\* The call of s goes on with the next iteration of transact's loop.
\* Mutant: one attempt too many.
CanRetryOnceMore(s, stillPending) == attempt[s] <= MaximumRetries /\ stillPending # None

CanRetry(s, stillPending) == attempt[s] < MaximumRetries /\ stillPending # None

\* Mutant: the call keeps reading after its last attempt.
RetryReadsOn(s, stillPending) ==
    IF CanRetry(s, stillPending)
    THEN /\ attempt' = [attempt EXCEPT ![s] = @ + 1]
         /\ UNCHANGED <<call, request>>
    ELSE UNCHANGED callVars

Retry(s, stillPending) ==
    IF CanRetry(s, stillPending)
    THEN /\ attempt' = [attempt EXCEPT ![s] = @ + 1]
         /\ UNCHANGED <<call, request>>
    ELSE Return(s)

\* Mutant: the retransmission is built anew with the other frame count bit.
RetransmissionToggled(s, stillPending) ==
    IF CanRetry(s, stillPending) THEN <<[stillPending EXCEPT !.fcb = ~@]>> ELSE <<>>

Retransmission(s, stillPending) ==
    IF CanRetry(s, stillPending) THEN <<stillPending>> ELSE <<>>

-----------------------------------------------------------------------------
(* Starting a call.                                                        *)

\* transact is entered with f as the pending request of s.  A context that is
\* already done ends the call after the state was changed and before the write.
Begin(s, f) ==
    /\ issued' = [issued EXCEPT ![s] = @ + 1]
    /\ pending' = [pending EXCEPT ![s] = f]
    /\ \/ /\ Write(s, <<f>>)
          /\ call' = [call EXCEPT ![s] = "transact"]
          /\ request' = [request EXCEPT ![s] = f]
          /\ UNCHANGED attempt
       \/ /\ "cancelBefore" \in Faults
          /\ UNCHANGED <<callVars, inbox>>

MayBegin(s) == call[s] = "idle" /\ pending[s] = None /\ issued[s] < MaxRequests[s]

Reset(s) ==
    /\ s \in Resetters
    /\ MayBegin(s)
    /\ ready' = [ready EXCEPT ![s] = FALSE]
    /\ nextSendFCB' = [nextSendFCB EXCEPT ![s] = TRUE]
    /\ Begin(s, Primary("ResetLink", FALSE, issued[s] + 1))
    /\ UNCHANGED <<expectedFCB, torn, delivered, succeeded>>

SendConfirmed(s) ==
    /\ s \in Senders
    /\ MayBegin(s)
    /\ ready[s]
    /\ Begin(s, Primary("ConfirmedData", nextSendFCB[s], issued[s] + 1))
    /\ UNCHANGED <<ready, nextSendFCB, expectedFCB, torn, delivered, succeeded>>

KeepAlive(s) ==
    /\ s \in Pollers
    /\ MayBegin(s)
    /\ Begin(s, Primary("LinkStatusRequest", FALSE, issued[s] + 1))
    /\ UNCHANGED <<ready, nextSendFCB, expectedFCB, torn, delivered, succeeded>>

\* Needs neither a reset link nor a free request slot, and waits for nothing.
SendUnconfirmed(s) ==
    /\ s \in Announcers
    /\ call[s] = "idle"
    /\ issued[s] < MaxRequests[s]
    /\ issued' = [issued EXCEPT ![s] = @ + 1]
    /\ Write(s, <<Primary("UnconfirmedData", FALSE, issued[s] + 1)>>)
    /\ UNCHANGED <<stateVars, callVars, torn, delivered, succeeded>>

Receive(s) ==
    /\ call[s] = "idle"
    /\ call' = [call EXCEPT ![s] = "receive"]
    /\ UNCHANGED <<stateVars, request, attempt, inbox, torn, issued, delivered, succeeded>>

-----------------------------------------------------------------------------
(* A frame read by the running call: what Handle does to the state, the    *)
(* response, the data, and what the call makes of the action.              *)

\* The response of a frame cannot be written: the call returns the error.
ReplyLost(s) ==
    /\ "replyFails" \in Faults
    /\ Exchange(s, <<>>)
    /\ Return(s)

\* The frame is answered and the call reads on.
ReplyAndReadOn(s, fn) ==
    \/ /\ Exchange(s, <<Secondary(fn)>>)
       /\ UNCHANGED callVars
    \/ ReplyLost(s)

\* The data of frame f reaches the caller of s: Receive returns it, transact
\* gives it to its handler and reads on, or drops it when there is no handler.
HandOver(s, f, frames) ==
    /\ Exchange(s, frames)
    /\ IF call[s] = "receive" \/ s \in WithHandler
       THEN delivered' = [delivered EXCEPT ![s] = Append(@, f.id)]
       ELSE UNCHANGED delivered
    /\ \/ /\ call[s] = "transact"
          /\ UNCHANGED callVars
       \/ /\ call[s] = "receive" \/ (s \in WithHandler /\ "handlerFails" \in Faults)
          /\ Return(s)

\* MarkReset: besides answering, the station discards its own pending request
\* and restarts the FCB of the frames it sends itself.
HandleReset(s) ==
    /\ Reads(s, "ResetLink")
    /\ ready' = [ready EXCEPT ![s] = TRUE]
    /\ nextSendFCB' = [nextSendFCB EXCEPT ![s] = TRUE]
    /\ expectedFCB' = [expectedFCB EXCEPT ![s] = TRUE]
    /\ pending' = [pending EXCEPT ![s] = None]
    /\ ReplyAndReadOn(s, "Ack")
    /\ UNCHANGED <<torn, issued, delivered, succeeded>>

\* The NACK this station answers with is a NegativeAcknowledgement of the same
\* action, so a transact call also retransmits its own request.
RefuseConfirmed(s) ==
    /\ Reads(s, "ConfirmedData")
    /\ ~ready[s]
    /\ \/ /\ call[s] = "receive"
          /\ ReplyAndReadOn(s, "Nack")
       \/ /\ call[s] = "transact"
          /\ \/ /\ Exchange(s, <<Secondary("Nack")>> \o Retransmission(s, pending[s]))
                /\ Retry(s, pending[s])
             \/ ReplyLost(s)
    /\ UNCHANGED <<stateVars, torn, issued, delivered, succeeded>>

\* Mutant: the frame count bit is not looked at.
DuplicateNever(s, f) == FALSE

\* Whether a confirmed frame repeats the one accepted before.
Duplicate(s, f) == f.fcb # expectedFCB[s]

RepeatConfirmed(s) ==
    /\ Reads(s, "ConfirmedData")
    /\ ready[s]
    /\ Duplicate(s, Head(inbox[s]))
    /\ ReplyAndReadOn(s, "Ack")
    /\ UNCHANGED <<stateVars, torn, issued, delivered, succeeded>>

AcceptConfirmed(s) ==
    /\ Reads(s, "ConfirmedData")
    /\ ready[s]
    /\ ~Duplicate(s, Head(inbox[s]))
    /\ expectedFCB' = [expectedFCB EXCEPT ![s] = ~@]
    /\ \/ HandOver(s, Head(inbox[s]), <<Secondary("Ack")>>)
       \/ /\ ReplyLost(s)
          /\ UNCHANGED delivered
    /\ UNCHANGED <<ready, nextSendFCB, pending, torn, issued, succeeded>>

AcceptUnconfirmed(s) ==
    /\ Reads(s, "UnconfirmedData")
    /\ HandOver(s, Head(inbox[s]), <<>>)
    /\ UNCHANGED <<stateVars, torn, issued, succeeded>>

\* The action of an inbound status request has LinkStatus set, which is what
\* the completion test of KeepAlive looks for.
AnswerStatus(s) ==
    /\ Reads(s, "LinkStatusRequest")
    /\ \/ /\ request[s].fn = "LinkStatusRequest"
          /\ Exchange(s, <<Secondary("LinkStatus")>>)
          /\ Succeed(s)
       \/ /\ request[s].fn # "LinkStatusRequest"
          /\ Exchange(s, <<Secondary("LinkStatus")>>)
          /\ UNCHANGED <<callVars, succeeded>>
       \/ /\ ReplyLost(s)
          /\ UNCHANGED succeeded
    /\ UNCHANGED <<stateVars, torn, issued, delivered>>

\* The pending request is answered: transact returns, Receive reads on.
Conclude(s) ==
    /\ pending' = [pending EXCEPT ![s] = None]
    /\ Exchange(s, <<>>)
    /\ IF call[s] = "transact" THEN Succeed(s) ELSE UNCHANGED <<callVars, succeeded>>

\* Mutant: an acknowledged frame does not advance the send frame count bit.
HandleAckKeepsFCB(s) ==
    /\ Reads(s, "Ack")
    /\ \/ /\ pending[s].fn = "ResetLink"
          /\ ready' = [ready EXCEPT ![s] = TRUE]
          /\ nextSendFCB' = [nextSendFCB EXCEPT ![s] = TRUE]
       \/ /\ pending[s].fn = "ConfirmedData"
          /\ UNCHANGED <<ready, nextSendFCB>>
    /\ Conclude(s)
    /\ UNCHANGED <<expectedFCB, torn, issued, delivered>>

HandleAck(s) ==
    /\ Reads(s, "Ack")
    /\ \/ /\ pending[s].fn = "ResetLink"
          /\ ready' = [ready EXCEPT ![s] = TRUE]
          /\ nextSendFCB' = [nextSendFCB EXCEPT ![s] = TRUE]
       \/ /\ pending[s].fn = "ConfirmedData"
          /\ nextSendFCB' = [nextSendFCB EXCEPT ![s] = ~@]
          /\ UNCHANGED ready
    /\ Conclude(s)
    /\ UNCHANGED <<expectedFCB, torn, issued, delivered>>

HandleStatus(s) ==
    /\ Reads(s, "LinkStatus")
    /\ pending[s].fn = "LinkStatusRequest"
    /\ Conclude(s)
    /\ UNCHANGED <<ready, nextSendFCB, expectedFCB, torn, issued, delivered>>

\* A NACK leaves the request pending and starts transact's next attempt.
HandleNack(s) ==
    /\ Reads(s, "Nack")
    /\ pending[s] # None
    /\ \/ /\ call[s] = "receive"
          /\ Exchange(s, <<>>)
          /\ UNCHANGED callVars
       \/ /\ call[s] = "transact"
          /\ Exchange(s, Retransmission(s, pending[s]))
          /\ Retry(s, pending[s])
    /\ UNCHANGED <<stateVars, torn, issued, delivered, succeeded>>

\* A secondary frame nothing is pending for, or that answers another function,
\* ends the call with an error and changes no state.
RejectSecondary(s) ==
    /\ \/ Reads(s, "Ack") /\ pending[s].fn \notin {"ResetLink", "ConfirmedData"}
       \/ Reads(s, "LinkStatus") /\ pending[s].fn # "LinkStatusRequest"
       \/ Reads(s, "Nack") /\ pending[s] = None
    /\ Exchange(s, <<>>)
    /\ Return(s)
    /\ UNCHANGED <<stateVars, torn, issued, delivered, succeeded>>

-----------------------------------------------------------------------------
(* A read that brings no frame.                                            *)

\* A read that ends in an error has consumed nothing, or the beginning of a
\* frame; in a torn stream it has consumed more of what is left of that frame,
\* perhaps all of it, perhaps the beginning of the next one as well, because a
\* header is read in one piece wherever it starts.
LosePlace(s, frames) ==
    \/ /\ Write(s, frames)
       /\ \/ UNCHANGED torn
          \/ /\ "tornRead" \in Faults
             /\ inbox[s] # <<>>
             /\ torn' = [torn EXCEPT ![s] = TRUE]
    \/ /\ torn[s]
       /\ inbox[s] # <<>>
       /\ Exchange(s, frames)
       /\ \E inside \in BOOLEAN :
             /\ inside => Tail(inbox[s]) # <<>>
             /\ torn' = [torn EXCEPT ![s] = inside]

ReadTimeout(s) ==
    /\ call[s] = "transact"
    /\ LosePlace(s, Retransmission(s, pending[s]))
    /\ Retry(s, pending[s])
    /\ UNCHANGED <<stateVars, issued, delivered, succeeded>>

Abandon(s) ==
    /\ "cancelDuring" \in Faults
    /\ call[s] # "idle"
    /\ LosePlace(s, <<>>)
    /\ Return(s)
    /\ UNCHANGED <<stateVars, issued, delivered, succeeded>>

\* After a torn read the next bytes are no header, and the call fails.
ReadGarbage(s) ==
    /\ call[s] # "idle"
    /\ torn[s]
    /\ inbox[s] # <<>>
    /\ LosePlace(s, <<>>)
    /\ Return(s)
    /\ UNCHANGED <<stateVars, issued, delivered, succeeded>>

-----------------------------------------------------------------------------
Start(s) == Reset(s) \/ SendConfirmed(s) \/ KeepAlive(s) \/ SendUnconfirmed(s) \/ Receive(s)

Handle(s) ==
    \/ HandleReset(s) \/ RefuseConfirmed(s) \/ RepeatConfirmed(s) \/ AcceptConfirmed(s)
    \/ AcceptUnconfirmed(s) \/ AnswerStatus(s)
    \/ HandleAck(s) \/ HandleStatus(s) \/ HandleNack(s) \/ RejectSecondary(s)

NoFrame(s) == ReadTimeout(s) \/ Abandon(s) \/ ReadGarbage(s)

Next == \E s \in Station : Start(s) \/ Handle(s) \/ NoFrame(s)

Spec == Init /\ [][Next]_vars

\* The deadline of each attempt passes (setOperationDeadline), whatever the
\* peer does or does not send.
DeadlinesPass == \A s \in Station : WF_vars(ReadTimeout(s))

TimelySpec == Spec /\ DeadlinesPass

-----------------------------------------------------------------------------
(* Properties of every use of the link.                                    *)

\* No user data reaches a station's caller twice or out of order, whatever
\* timeouts, retries, resets and failures happened: the frame count bit
\* recognises every repetition (handleConfirmedPrimary).
AtMostOnce ==
    \A s \in Station : \A i, j \in DOMAIN delivered[s] :
        i < j => delivered[s][i] < delivered[s][j]

\* Why AtMostOnce holds.  For one direction: q is what the receiver has still
\* to read, n the number of the sender's last request, open the request its
\* running call would retransmit, exp the receiver's expectedFCB and del what
\* the receiver has handed over.
DeliveredInOrder(n, del) ==
    /\ \A k \in DOMAIN del : del[k] <= n
    /\ \A j, k \in DOMAIN del : j < k => del[j] < del[k]

\* Requests are on the wire in the order issued; two frames with one number
\* are the same frame, and only frames that are retransmitted repeat.
FramesInOrder(q, n) ==
    /\ \A i \in DOMAIN q : IsPrimary(q[i]) => 1 <= q[i].id /\ q[i].id <= n
    /\ \A i, j \in DOMAIN q :
        (IsPrimary(q[i]) /\ IsPrimary(q[j]) /\ i < j)
        => /\ q[i].id <= q[j].id
           /\ q[i].id = q[j].id => q[i] = q[j] /\ q[i].fn # "UnconfirmedData"

\* What was handed over is not ahead of the reader any more, except as copies
\* whose frame count bit the receiver will take for a repetition.
AheadIsNew(q, exp, del) ==
    \A i \in DOMAIN q : \A k \in DOMAIN del :
        IsPrimary(q[i])
        => /\ del[k] <= q[i].id
           /\ del[k] = q[i].id => q[i].fn = "ConfirmedData" /\ q[i].fcb # exp

\* A retransmission can only be of the last request, and if that has been
\* handed over already, the receiver will take it for a repetition.
OpenIsLast(q, n, open, exp, del) ==
    open # None =>
        /\ open.id = n /\ 1 <= n
        /\ \A i \in DOMAIN q : IsPrimary(q[i]) /\ q[i].id = n => q[i] = open
        /\ \A k \in DOMAIN del : del[k] = n => open.fn = "ConfirmedData" /\ open.fcb # exp

Direction(q, n, open, exp, del) ==
    /\ DeliveredInOrder(n, del)
    /\ FramesInOrder(q, n)
    /\ AheadIsNew(q, exp, del)
    /\ OpenIsLast(q, n, open, exp, del)

Open(s) == IF call[s] = "transact" THEN pending[s] ELSE None

FCBInv == \A s \in Station :
    Direction(inbox[s], issued[Peer(s)], Open(Peer(s)), expectedFCB[s], delivered[s])

\* The link implements the at-most-once, in-order delivery of LinkService.
Service == INSTANCE LinkService WITH offered <- issued
DeliveryService == Service!Spec

\* Reset, SendConfirmed and KeepAlive return, even to a caller whose peer never
\* reads: transact makes a bounded number of attempts, each with a deadline.
CallsReturn == \A s \in Station : (call[s] = "transact") ~> (call[s] # "transact")

-----------------------------------------------------------------------------
(* Properties of a link on which one station resets and sends.             *)

Acked(s) == {f \in succeeded[s] : f.fn = "ConfirmedData"}
Received(s) == {delivered[s][i] : i \in DOMAIN delivered[s]}
InFlight(s) == {inbox[s][i].id : i \in {j \in DOMAIN inbox[s] : IsPrimary(inbox[s][j])}}

\* Data SendConfirmed reported acknowledged has been handed to the peer's
\* caller or is still on its way there: the peer never drops it as a Duplicate.
\* (Where no read is torn: a torn frame still counts as on its way.)
AckedNotLost ==
    \A s \in Station : \A f \in Acked(s) : f.id \in Received(Peer(s)) \cup InFlight(Peer(s))
=============================================================================
