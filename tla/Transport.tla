------------------------------- MODULE Transport -------------------------------
(***************************************************************************)
(* One direction of the classic transport layer: the Layer                 *)
(* (pkg/transport/layer.go) of a session that sends, as sendAPDU uses it,  *)
(* the channels between, and the Layer of the session that receives, as    *)
(* OnReceive uses it (pkg/master/session.go, pkg/outstation/outstation.go).*)
(*                                                                         *)
(* A Layer has no lock.  Send runs in every goroutine that calls sendAPDU, *)
(* Receive in readLoop, and Reset in whichever goroutine sees a connection *)
(* come or go, so a step is what one of them does between two points where *)
(* another may change what it sees.  The bytes of a segment are the number *)
(* of its message and its place in it; sizes are counted in segments.      *)
(***************************************************************************)
EXTENDS Naturals, Sequences

CONSTANTS
    Sender,         \* goroutines that call sendAPDU
    Modulus,        \* TransportSeqMask + 1
    Capacity,       \* MaxReassemblySize, in segments
    MaxSegments,    \* bounds: segments of a message,
    MaxMessages,    \*   messages,
    MaxInFlight,    \*   segments on their way,
    MaxLosses,      \*   segments lost, or not written after an error,
    MaxResets       \*   connections established or lost

ASSUME TransportAssumption ==
    /\ Modulus \in Nat \ {0} /\ Capacity \in Nat
    /\ MaxSegments \in Nat \ {0} /\ MaxInFlight \in Nat \ {0}
    /\ MaxMessages \in Nat /\ MaxLosses \in Nat /\ MaxResets \in Nat

VARIABLES
    txSequence,     \* Layer.txSequence of the sending end
    sending,        \* what each goroutine in sendAPDU has still to write
    wire,           \* segments on their way
    place,          \* where readLoop is in Layer.Receive
    segment,        \* the segment it holds
    buffer,         \* Reassembler.buffer
    expectedSeq,    \* Reassembler.expectedSeq
    inProgress,     \* Reassembler.inProgress
    budget,         \* bounds: what the environment may still do
    count,          \* ghost: the number of segments of each message offered
    received,       \* ghost: what Receive returned
    spoiled,        \* ghost: messages a segment of which was lost or discarded by Reset
    raced           \* ghost: a Reset or a second sender came in between

rxVars == <<buffer, expectedSeq, inProgress>>
readVars == <<place, segment>>
sendVars == <<txSequence, sending, count>>
vars == <<sendVars, wire, readVars, rxVars, budget, received, spoiled, raced>>

Seq64 == 0..(Modulus - 1)
Piece == [message : 1..MaxMessages, index : 1..MaxSegments]
Segment == [fir : BOOLEAN, fin : BOOLEAN, seq : Seq64, data : Piece]
NoSegment == [fir |-> FALSE, fin |-> FALSE, seq |-> 0, data |-> [message |-> 0, index |-> 0]]

TypeOK ==
    /\ txSequence \in Seq64
    /\ sending \in [Sender -> [advance : 0..MaxSegments, left : Seq(Segment)]]
    /\ wire \in Seq(Segment)
    /\ place \in {"idle", "received", "accepted"}
    /\ segment \in Segment \cup {NoSegment}
    /\ buffer \in Seq(Piece) /\ Len(buffer) <= Capacity
    /\ expectedSeq \in Seq64
    /\ inProgress \in BOOLEAN
    /\ budget \in [losses : 0..MaxLosses, resets : 0..MaxResets]
    /\ count \in Seq(1..MaxSegments) /\ Len(count) <= MaxMessages
    /\ received \in Seq(Seq(Piece))
    /\ spoiled \subseteq 1..MaxMessages
    /\ raced \in BOOLEAN

NotSending == [advance |-> 0, left |-> <<>>]

Init ==
    /\ txSequence = 0
    /\ sending = [s \in Sender |-> NotSending]
    /\ wire = <<>>
    /\ place = "idle" /\ segment = NoSegment
    /\ buffer = <<>> /\ expectedSeq = 0 /\ inProgress = FALSE
    /\ budget = [losses |-> MaxLosses, resets |-> MaxResets]
    /\ count = <<>> /\ received = <<>> /\ spoiled = {} /\ raced = FALSE

Spend(what, n) == budget[what] >= n /\ budget' = [budget EXCEPT ![what] = @ - n]

-----------------------------------------------------------------------------
(* sendAPDU.                                                               *)

Sending(s) == sending[s] # NotSending

SegmentData(m, n, start) ==
    [i \in 1..n |-> [fir |-> i = 1, fin |-> i = n, seq |-> (start + i - 1) % Modulus,
                     data |-> [message |-> m, index |-> i]]]

\* Layer.Send reads txSequence, and then advances it.
SendReads(s) ==
    /\ ~Sending(s)
    /\ Len(count) < MaxMessages
    /\ \E n \in 1..MaxSegments :
        /\ count' = Append(count, n)
        /\ sending' = [sending EXCEPT ![s] =
               [advance |-> n, left |-> SegmentData(Len(count) + 1, n, txSequence)]]
    /\ raced' = (raced \/ \E t \in Sender : Sending(t))
    /\ UNCHANGED <<txSequence, wire, readVars, rxVars, budget, received, spoiled>>

\* Mutant: the sequence number is not kept in its 6 bits.
SendAdvancesUnmasked(s) ==
    /\ sending[s].advance > 0
    /\ txSequence' = txSequence + sending[s].advance
    /\ sending' = [sending EXCEPT ![s].advance = 0]
    /\ UNCHANGED <<count, wire, readVars, rxVars, budget, received, spoiled, raced>>

SendAdvances(s) ==
    /\ sending[s].advance > 0
    /\ txSequence' = (txSequence + sending[s].advance) % Modulus
    /\ sending' = [sending EXCEPT ![s].advance = 0]
    /\ UNCHANGED <<count, wire, readVars, rxVars, budget, received, spoiled, raced>>

Writing(s) == sending[s].advance = 0 /\ sending[s].left # <<>>

WriteSegment(s) ==
    /\ Writing(s)
    /\ Len(wire) < MaxInFlight
    /\ wire' = Append(wire, Head(sending[s].left))
    /\ sending' = [sending EXCEPT ![s].left = Tail(@)]
    /\ UNCHANGED <<txSequence, count, readVars, rxVars, budget, received, spoiled, raced>>

\* Channel.Write fails: the rest of the message is not written.
WriteFails(s) ==
    /\ Writing(s)
    /\ Spend("losses", Len(sending[s].left))
    /\ spoiled' = spoiled \cup {Head(sending[s].left).data.message}
    /\ sending' = [sending EXCEPT ![s] = NotSending]
    /\ UNCHANGED <<txSequence, count, wire, readVars, rxVars, received, raced>>

\* A frame that is damaged or lost; no channel repeats it.
LoseSegment ==
    /\ wire # <<>>
    /\ Spend("losses", 1)
    /\ spoiled' = spoiled \cup {Head(wire).data.message}
    /\ wire' = Tail(wire)
    /\ UNCHANGED <<sendVars, readVars, rxVars, received, raced>>

-----------------------------------------------------------------------------
(* OnReceive.                                                              *)

TakeSegment ==
    /\ place = "idle"
    /\ wire # <<>>
    /\ wire' = Tail(wire)
    /\ segment' = Head(wire)
    /\ place' = "received"
    /\ UNCHANGED <<sendVars, rxVars, budget, received, spoiled, raced>>

Clear ==
    /\ buffer' = <<>>
    /\ inProgress' = FALSE
    /\ expectedSeq' = 0

Dropped ==
    /\ place' = "idle" /\ segment' = NoSegment
    /\ UNCHANGED <<sendVars, wire, budget, received, spoiled, raced>>

\* A first segment starts over.
Kept == IF segment.fir THEN <<>> ELSE buffer

\* Mutant: the expected number is that of the segment before, whatever it was.
ExpectedNext == expectedSeq

Expected == IF segment.fir THEN segment.seq ELSE expectedSeq

\* Process, where it returns without data: nothing is in progress, the sequence
\* number is not the one expected, or the buffer would overflow.
ProcessDiscards ==
    /\ place = "received"
    /\ \/ ~segment.fir /\ ~inProgress /\ UNCHANGED rxVars
       \/ /\ segment.fir \/ inProgress
          /\ segment.seq # Expected \/ Len(Kept) + 1 > Capacity
          /\ Clear
    /\ Dropped

Accepting ==
    /\ place' = "accepted"
    /\ buffer' = Kept /\ expectedSeq' = Expected /\ inProgress' = TRUE
    /\ UNCHANGED <<sendVars, wire, segment, budget, received, spoiled, raced>>

\* Mutant: the sequence number is not compared.
ProcessAcceptsAny ==
    /\ place = "received"
    /\ segment.fir \/ inProgress
    /\ Len(Kept) + 1 <= Capacity
    /\ Accepting

\* Process, up to the writing of the buffer.
ProcessAccepts ==
    /\ place = "received"
    /\ segment.fir \/ inProgress
    /\ segment.seq = Expected
    /\ Len(Kept) + 1 <= Capacity
    /\ Accepting

\* Process, from there on.
ProcessStores ==
    /\ place = "accepted"
    /\ place' = "idle" /\ segment' = NoSegment
    /\ IF segment.fin
       THEN /\ received' = Append(received, Append(buffer, segment.data))
            /\ Clear
       ELSE /\ buffer' = Append(buffer, segment.data)
            /\ expectedSeq' = (expectedSeq + 1) % Modulus
            /\ UNCHANGED <<inProgress, received>>
    /\ UNCHANGED <<sendVars, wire, budget, spoiled, raced>>

-----------------------------------------------------------------------------
(* OnConnectionEstablished and OnConnectionLost.                           *)

\* At the receiving end: what was in the buffer is given up.
ResetReceiver ==
    /\ Spend("resets", 1)
    /\ Clear
    /\ spoiled' = spoiled \cup {buffer[i].message : i \in DOMAIN buffer}
    /\ raced' = (raced \/ place = "accepted")
    /\ UNCHANGED <<sendVars, wire, readVars, received>>

\* At the sending end.  The receiver may be in the middle of a message.
ResetSender ==
    /\ Spend("resets", 1)
    /\ txSequence' = 0
    /\ raced' = (\/ raced \/ inProgress \/ place # "idle" \/ wire # <<>>
                 \/ \E s \in Sender : Sending(s))
    /\ UNCHANGED <<sending, count, wire, readVars, rxVars, received, spoiled>>

-----------------------------------------------------------------------------
Send(s) == SendReads(s) \/ SendAdvances(s) \/ WriteSegment(s) \/ WriteFails(s)
Receive == TakeSegment \/ ProcessDiscards \/ ProcessAccepts \/ ProcessStores

Next ==
    \/ \E s \in Sender : Send(s)
    \/ LoseSegment
    \/ Receive
    \/ ResetReceiver \/ ResetSender

Spec == Init /\ [][Next]_vars

\* readLoop reads what arrives.
FairSpec == Spec /\ WF_vars(Receive)
-----------------------------------------------------------------------------
(* Properties.                                                             *)

Whole(m) == [i \in 1..count[m] |-> [message |-> m, index |-> i]]

\* Layer.Receive: what it returns is a message that was sent, all of it and nothing
\* else, and no message comes twice or before an earlier one, whatever segments
\* were lost (fewer than Modulus of them: then the numbers would match again);
\* where no Reset and no second sender came in between.
WholeMessages ==
    ~raced =>
        /\ \A k \in DOMAIN received : \E m \in DOMAIN count : received[k] = Whole(m)
        /\ \A j, k \in DOMAIN received :
               j < k => received[j][1].message < received[k][1].message

\* Process resynchronises: a message that was written and not hurt itself is handed
\* up in the end, whatever happened to those before it, if the buffer can hold it.
Written(m) ==
    /\ m \in DOMAIN count
    /\ \A s \in Sender : \A i \in DOMAIN sending[s].left : sending[s].left[i].data.message # m

Settled(m) ==
    /\ m \in DOMAIN count
    /\ m \in spoiled \/ raced \/ count[m] > Capacity
       \/ \E k \in DOMAIN received : received[k] = Whole(m)

Arrives == \A m \in 1..MaxMessages : Written(m) ~> Settled(m)
=============================================================================
