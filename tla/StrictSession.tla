---------------------------- MODULE StrictSession ----------------------------
(***************************************************************************)
(* Two strict sessions (pkg/session/strict.go) facing each other, each     *)
(* with its transport segmenting and reassembly (pkg/transport/strict.go)  *)
(* and its application reassembly (pkg/app/strict.go and                   *)
(* strict_reassembler.go).  Of the link below only the service is kept     *)
(* that StrictLink shows it gives, LinkService: segments arrive in order   *)
(* and at most once, and one may be lost.  A confirmed segment the sender  *)
(* gave up on may still arrive.                                            *)
(*                                                                         *)
(* One byte string of transport-segment size is one piece; a fragment is   *)
(* size pieces and its header travels in the first.  The fields msg, k, q, *)
(* size and part of a piece, and n of a segment, are ghosts that say where *)
(* it came from: no guard reads them.                                      *)
(***************************************************************************)
EXTENDS Naturals, Sequences

CONSTANTS
    Master, Outstation,
    Modulus,                \* transport sequence numbers; 64 in the code
    AppModulus,             \* application sequence numbers; 16 in the code
    MaximumApplication,     \* Strict.maximumApplication of each station, in pieces
    Modes,                  \* how each station sends: asking for a confirmation (con) or
                            \* not, by SendApplication (acked) or SendApplicationUnconfirmed
    MaxSize,                \* bound: pieces of a fragment of each station
    MaxFragments,           \* bound: fragments each station's caller sends
    MaxFaults               \* bound: losses, failed writes, expired contexts, other calls

Station == {Master, Outstation}

ASSUME StrictSessionAssumption ==
    /\ Master # Outstation
    /\ Modulus \in Nat \ {0} /\ AppModulus \in Nat \ {0}
    /\ MaximumApplication \in [Station -> Nat \ {0}]
    /\ Modes \in [Station -> SUBSET [con : BOOLEAN, acked : BOOLEAN]]
    /\ MaxSize \in [Station -> Nat] /\ MaxFaults \in Nat
    /\ MaxFragments \in [Station -> Nat]

Peer(s) == IF s = Master THEN Outstation ELSE Master

\* app.StrictFragment: kind stands for Function and UNS, objects for Objects.
Header == [FIR : BOOLEAN, FIN : BOOLEAN, CON : BOOLEAN, kind : {"data", "confirm"},
           Sequence : 0..(AppModulus - 1)]

Piece == [msg : Nat, k : Nat, q : Nat, size : Nat, part : Nat, last : BOOLEAN]

\* What a transport segment carries: its header byte, and one piece.
Segment == [Sequence : 0..(Modulus - 1), FIR : BOOLEAN, FIN : BOOLEAN,
            header : Header, piece : Piece, n : Nat]

VARIABLES
    wire,           \* user data of the link on its way to a station
    call,           \* the call holding Strict.busy
    segments,       \* segments the running SendApplication has not yet sent
    confirmed,      \* it is SendApplication, not SendApplicationUnconfirmed
    waiting,        \* its SendConfirmed waits for the ACK of Head(segments)
    nextTransport,  \* Strict.nextTransport
    transportInput, \* transport.StrictReassembler
    applicationInput, \* app.StrictReassembler
    open,           \* the caller's message: its number, its fragments and pieces so far
    sent,           \* ghost: fragments and segments sent, sends given up, longest message
    complete,       \* ghost: messages every fragment of which was sent
    handed,         \* ghost: what ReceiveApplication returned, in pieces
    spoiled,        \* ghost: a segment to the station was lost, or its input disturbed
    rejected,       \* ghost: ReceiveApplication has returned a reassembly error
    faults          \* ghost: what the environment may still do

callVars == <<call, segments, confirmed, waiting>>
inputVars == <<transportInput, applicationInput>>
vars == <<wire, call, segments, confirmed, waiting, nextTransport, transportInput,
          applicationInput, open, sent, complete, handed, spoiled, rejected, faults>>

NoTransport == [active |-> FALSE, nextSequence |-> 0, fragment |-> <<>>]
NoApplication == [active |-> FALSE, nextSequence |-> 0, kind |-> "data", objects |-> <<>>]

TypeOK ==
    /\ wire \in [Station -> Seq(Segment)]
    /\ call \in [Station -> {"idle", "send", "receive", "other"}]
    /\ segments \in [Station -> Seq(Segment)]
    /\ confirmed \in [Station -> BOOLEAN] /\ waiting \in [Station -> BOOLEAN]
    /\ nextTransport \in [Station -> 0..(Modulus - 1)]
    /\ transportInput \in [Station -> [active : BOOLEAN, nextSequence : 0..(Modulus - 1),
                                       fragment : Seq(Segment)]]
    /\ applicationInput \in [Station -> [active : BOOLEAN, nextSequence : 0..(AppModulus - 1),
                                         kind : {"data", "confirm"}, objects : Seq(Segment)]]
    /\ \A s \in Station :
         /\ call[s] = "send" <=> segments[s] # <<>>
         /\ waiting[s] => call[s] = "send" /\ confirmed[s]
         /\ Len(transportInput[s].fragment) <= MaximumApplication[s]
         /\ Len(applicationInput[s].objects) <= MaximumApplication[s]
         /\ ~transportInput[s].active => transportInput[s].fragment = <<>>
         /\ ~applicationInput[s].active => applicationInput[s].objects = <<>>
    /\ handed \in [Station -> Seq(Seq(Segment))]
    /\ faults \in 0..MaxFaults

Init ==
    /\ wire = [s \in Station |-> <<>>]
    /\ call = [s \in Station |-> "idle"]
    /\ segments = [s \in Station |-> <<>>]
    /\ confirmed = [s \in Station |-> FALSE]
    /\ waiting = [s \in Station |-> FALSE]
    /\ nextTransport = [s \in Station |-> 0]
    /\ transportInput = [s \in Station |-> NoTransport]
    /\ applicationInput = [s \in Station |-> NoApplication]
    /\ open = [s \in Station |-> [msg |-> 0, k |-> 0, pieces |-> 0]]
    /\ sent = [s \in Station |-> [fragments |-> 0, segments |-> 0, abandoned |-> FALSE, longest |-> 0]]
    /\ complete = [s \in Station |-> {}]
    /\ handed = [s \in Station |-> <<>>]
    /\ spoiled = [s \in Station |-> FALSE]
    /\ rejected = [s \in Station |-> FALSE]
    /\ faults = MaxFaults

Fault ==
    /\ faults > 0
    /\ faults' = faults - 1

-----------------------------------------------------------------------------
(* Sending.                                                                *)

\* transport.SegmentStrict on the encoding of a fragment of size pieces; n is
\* the number of segments of this station before it.
SegmentStrict(header, piece, size, number, n) ==
    [i \in 1..size |->
        [Sequence |-> (number + i - 1) % Modulus, FIR |-> i = 1, FIN |-> i = size,
         header |-> header, piece |-> [piece EXCEPT !.part = i], n |-> n + i]]

\* EncodeStrictFragment refuses a fragment above maximumApplication.
Encodes(s, size) == size <= MaximumApplication[s]

\* DecodeStrictFragment finds the header in the first piece.
Decode(fragment) == Head(fragment).header

\* The caller sends the next fragment of its message, or the first of a new one.
SendApplication(s) ==
    /\ call[s] = "idle"
    /\ sent[s].fragments < MaxFragments[s]
    /\ \E size \in 1..MaxSize[s], fin \in BOOLEAN, mode \in Modes[s] :
         LET m == IF open[s].k = 0 THEN open[s].msg + 1 ELSE open[s].msg
             k == open[s].k + 1
             q == sent[s].fragments + 1
             length == size + (IF k = 1 THEN 0 ELSE open[s].pieces)
             header == [FIR |-> k = 1, FIN |-> fin, CON |-> mode.con, kind |-> "data",
                        Sequence |-> q % AppModulus]
             piece == [msg |-> m, k |-> k, q |-> q, size |-> size, part |-> 0, last |-> fin]
         IN /\ Encodes(s, size)
            /\ segments' = [segments EXCEPT ![s] = SegmentStrict(header, piece, size,
                                nextTransport[s], sent[s].segments)]
            /\ confirmed' = [confirmed EXCEPT ![s] = mode.acked]
            /\ open' = [open EXCEPT ![s] = [msg |-> m, k |-> k, pieces |-> length]]
            /\ sent' = [sent EXCEPT ![s].fragments = q,
                                      ![s].longest = IF length > @ THEN length ELSE @]
    /\ call' = [call EXCEPT ![s] = "send"]
    /\ UNCHANGED <<wire, waiting, nextTransport, inputVars, complete, handed, spoiled,
                   rejected, faults>>

\* Mutant: the numbers of a message are not used up.
SegmentSentNumbersKept(s) ==
    LET last == Head(segments[s])
    IN /\ segments' = [segments EXCEPT ![s] = Tail(@)]
       /\ waiting' = [waiting EXCEPT ![s] = FALSE]
       /\ UNCHANGED nextTransport
       /\ IF Len(segments[s]) > 1
          THEN UNCHANGED <<call, open, complete>>
          ELSE /\ call' = [call EXCEPT ![s] = "idle"]
               /\ open' = [open EXCEPT ![s].k = IF last.header.FIN THEN 0 ELSE @]
               /\ complete' = [complete EXCEPT ![s] = IF last.header.FIN
                                                      THEN @ \cup {last.piece.msg} ELSE @]

\* The loop of sendApplicationLocked has sent Head(segments): the next one, or
\* the call returns nil and the numbers are used up.
SegmentSent(s) ==
    LET last == Head(segments[s])
    IN /\ segments' = [segments EXCEPT ![s] = Tail(@)]
       /\ waiting' = [waiting EXCEPT ![s] = FALSE]
       /\ IF Len(segments[s]) > 1
          THEN UNCHANGED <<call, nextTransport, open, complete>>
          ELSE /\ call' = [call EXCEPT ![s] = "idle"]
               /\ nextTransport' = [nextTransport EXCEPT ![s] = (last.Sequence + 1) % Modulus]
               /\ open' = [open EXCEPT ![s].k = IF last.header.FIN THEN 0 ELSE @]
               /\ complete' = [complete EXCEPT ![s] = IF last.header.FIN
                                                      THEN @ \cup {last.piece.msg} ELSE @]

WriteSegment(s) ==
    /\ wire' = [wire EXCEPT ![Peer(s)] = Append(@, Head(segments[s]))]
    /\ sent' = [sent EXCEPT ![s].segments = @ + 1]

\* SendUnconfirmed returns once the segment is written.
SendUnconfirmed(s) ==
    /\ call[s] = "send" /\ ~confirmed[s]
    /\ WriteSegment(s)
    /\ SegmentSent(s)
    /\ UNCHANGED <<confirmed, inputVars, handed, spoiled, rejected, faults>>

\* SendConfirmed writes the segment and reads on.
SendConfirmed(s) ==
    /\ call[s] = "send" /\ confirmed[s] /\ ~waiting[s]
    /\ WriteSegment(s)
    /\ waiting' = [waiting EXCEPT ![s] = TRUE]
    /\ UNCHANGED <<call, segments, confirmed, nextTransport, inputVars, open, complete,
                   handed, spoiled, rejected, faults>>

\* The peer's link has read the segment, and its ACK arrives.
Acknowledged(s) ==
    /\ waiting[s]
    /\ \A i \in DOMAIN wire[Peer(s)] : wire[Peer(s)][i] # Head(segments[s])
    /\ SegmentSent(s)
    /\ UNCHANGED <<wire, confirmed, inputVars, sent, handed, spoiled, rejected, faults>>

\* sendApplicationLocked returns the error of a segment: nextTransport stays.
\* The caller gives the whole message up.
SendFails(s) ==
    /\ call[s] = "send"
    /\ Fault
    /\ call' = [call EXCEPT ![s] = "idle"]
    /\ segments' = [segments EXCEPT ![s] = <<>>]
    /\ waiting' = [waiting EXCEPT ![s] = FALSE]
    /\ open' = [open EXCEPT ![s].k = 0]
    /\ sent' = [sent EXCEPT ![s].abandoned = TRUE]
    /\ UNCHANGED <<wire, confirmed, nextTransport, inputVars, complete, handed, spoiled, rejected>>

-----------------------------------------------------------------------------
(* Receiving.                                                              *)

ReceiveApplication(s) ==
    /\ call[s] = "idle"
    /\ call' = [call EXCEPT ![s] = "receive"]
    /\ UNCHANGED <<wire, segments, confirmed, waiting, nextTransport, inputVars, open, sent,
                   complete, handed, spoiled, rejected, faults>>

\* Mutant: the limit on what is joined is not looked at.
TransportPushUnbounded(s, seg) ==
    LET r == IF seg.FIR THEN [NoTransport EXCEPT !.active = TRUE, !.nextSequence = seg.Sequence]
                        ELSE transportInput[s]
        got == Append(r.fragment, seg)
    IN IF ~r.active \/ seg.Sequence # r.nextSequence
       THEN [state |-> NoTransport, result |-> "error", fragment |-> <<>>]
       ELSE IF seg.FIN
       THEN [state |-> NoTransport, result |-> "complete", fragment |-> got]
       ELSE [state |-> [r EXCEPT !.fragment = got, !.nextSequence = (seg.Sequence + 1) % Modulus],
             result |-> "more", fragment |-> <<>>]

\* transport.StrictReassembler.Push: the new state, and whether seg is refused,
\* kept, or completes a fragment.
TransportPush(s, seg) ==
    LET r == IF seg.FIR THEN [NoTransport EXCEPT !.active = TRUE, !.nextSequence = seg.Sequence]
                        ELSE transportInput[s]
        got == Append(r.fragment, seg)
    IN IF \/ ~r.active
          \/ seg.Sequence # r.nextSequence
          \/ Len(got) > MaximumApplication[s]
       THEN [state |-> NoTransport, result |-> "error", fragment |-> <<>>]
       ELSE IF seg.FIN
       THEN [state |-> NoTransport, result |-> "complete", fragment |-> got]
       ELSE [state |-> [r EXCEPT !.fragment = got, !.nextSequence = (seg.Sequence + 1) % Modulus],
             result |-> "more", fragment |-> <<>>]

\* Mutant: a completed sequence stays open.
ApplicationPushStaysOpen(s, f, objects) ==
    LET r == IF f.FIR THEN [NoApplication EXCEPT !.active = TRUE, !.kind = f.kind,
                                                 !.nextSequence = f.Sequence]
                      ELSE applicationInput[s]
        got == r.objects \o objects
    IN IF \/ f.FIR /\ applicationInput[s].active
          \/ ~r.active
          \/ f.Sequence # r.nextSequence
          \/ f.kind # r.kind
          \/ Len(got) > MaximumApplication[s]
       THEN [state |-> NoApplication, result |-> "error", objects |-> <<>>]
       ELSE IF f.FIN
       THEN [state |-> [r EXCEPT !.objects = <<>>], result |-> "complete", objects |-> got]
       ELSE [state |-> [r EXCEPT !.objects = got, !.nextSequence = (f.Sequence + 1) % AppModulus],
             result |-> "more", objects |-> <<>>]

\* app.StrictReassembler.Push, of a fragment with that header and those objects.
ApplicationPush(s, f, objects) ==
    LET r == IF f.FIR THEN [NoApplication EXCEPT !.active = TRUE, !.kind = f.kind,
                                                 !.nextSequence = f.Sequence]
                      ELSE applicationInput[s]
        got == r.objects \o objects
    IN IF \/ f.FIR /\ applicationInput[s].active
          \/ ~r.active
          \/ f.Sequence # r.nextSequence
          \/ f.kind # r.kind
          \/ Len(got) > MaximumApplication[s]
       THEN [state |-> NoApplication, result |-> "error", objects |-> <<>>]
       ELSE IF f.FIN
       THEN [state |-> NoApplication, result |-> "complete", objects |-> got]
       ELSE [state |-> [r EXCEPT !.objects = got, !.nextSequence = (f.Sequence + 1) % AppModulus],
             result |-> "more", objects |-> <<>>]

\* The confirmation ReceiveApplication writes for fragment f, one segment long.
Confirmation(s, f) ==
    Head(SegmentStrict([FIR |-> TRUE, FIN |-> TRUE, CON |-> FALSE, kind |-> "confirm",
                        Sequence |-> f.Sequence],
                       [msg |-> 0, k |-> 1, q |-> 0, size |-> 1, part |-> 0, last |-> TRUE],
                       1, nextTransport[s], sent[s].segments))

\* The confirmation is a fragment of its own: between two fragments of an
\* unfinished message it is one FIR too many for the peer.
Confirm(s, f) ==
    /\ wire' = [wire EXCEPT ![s] = Tail(@), ![Peer(s)] = Append(@, Confirmation(s, f))]
    /\ nextTransport' = [nextTransport EXCEPT ![s] = (@ + 1) % Modulus]
    /\ sent' = [sent EXCEPT ![s].segments = @ + 1]
    /\ spoiled' = [spoiled EXCEPT ![Peer(s)] = @ \/ open[s].k # 0]

NoConfirm(s) ==
    /\ wire' = [wire EXCEPT ![s] = Tail(@)]
    /\ UNCHANGED <<nextTransport, sent, spoiled>>

\* Mutant: the loop goes on once the confirmation is written.
AcceptUnconfirmedOnly(s, f, objects) ==
    LET push == ApplicationPush(s, f, objects)
    IN IF f.CON
       THEN UNCHANGED <<applicationInput, call, handed, rejected>>
       ELSE /\ applicationInput' = [applicationInput EXCEPT ![s] = push.state]
            /\ call' = [call EXCEPT ![s] = IF push.result = "more" THEN @ ELSE "idle"]
            /\ handed' = [handed EXCEPT ![s] = IF push.result = "complete"
                                               THEN Append(@, push.objects) ELSE @]
            /\ rejected' = [rejected EXCEPT ![s] = @ \/ push.result = "error"]

\* ReceiveApplication hands a complete fragment with header f to the application
\* reassembler, and returns on a complete message or an error.
Accept(s, f, objects) ==
    LET push == ApplicationPush(s, f, objects)
    IN /\ applicationInput' = [applicationInput EXCEPT ![s] = push.state]
       /\ call' = [call EXCEPT ![s] = IF push.result = "more" THEN @ ELSE "idle"]
       /\ handed' = [handed EXCEPT ![s] = IF push.result = "complete"
                                          THEN Append(@, push.objects) ELSE @]
       /\ rejected' = [rejected EXCEPT ![s] = @ \/ push.result = "error"]

\* A segment arrives at a running ReceiveApplication.
Receive(s) ==
    /\ call[s] = "receive"
    /\ wire[s] # <<>>
    /\ LET push == TransportPush(s, Head(wire[s]))
       IN /\ transportInput' = [transportInput EXCEPT ![s] = push.state]
          /\ \/ /\ push.result = "error"
                /\ NoConfirm(s)
                /\ call' = [call EXCEPT ![s] = "idle"]
                /\ rejected' = [rejected EXCEPT ![s] = TRUE]
                /\ UNCHANGED <<applicationInput, handed>>
             \/ /\ push.result = "more"
                /\ NoConfirm(s)
                /\ UNCHANGED <<applicationInput, handed, call, rejected>>
             \/ /\ push.result = "complete"
                /\ LET f == Decode(push.fragment)
                   IN /\ IF f.CON THEN Confirm(s, f) ELSE NoConfirm(s)
                      /\ Accept(s, f, push.fragment)
    /\ UNCHANGED <<segments, confirmed, waiting, open, complete, faults>>

\* The write of the confirmation fails: the fragment is gone.
ConfirmFails(s) ==
    /\ call[s] = "receive"
    /\ wire[s] # <<>>
    /\ Fault
    /\ LET push == TransportPush(s, Head(wire[s]))
       IN /\ push.result = "complete"
          /\ Decode(push.fragment).CON
          /\ transportInput' = [transportInput EXCEPT ![s] = push.state]
    /\ wire' = [wire EXCEPT ![s] = Tail(@)]
    /\ call' = [call EXCEPT ![s] = "idle"]
    /\ spoiled' = [spoiled EXCEPT ![s] = TRUE]
    /\ UNCHANGED <<segments, confirmed, waiting, nextTransport, applicationInput, open, sent,
                   complete, handed, rejected>>

\* The context of ReceiveApplication is done: what was joined so far stays.
ReceiveExpires(s) ==
    /\ call[s] = "receive"
    /\ Fault
    /\ call' = [call EXCEPT ![s] = "idle"]
    /\ UNCHANGED <<wire, segments, confirmed, waiting, nextTransport, inputVars, open, sent,
                   complete, handed, spoiled, rejected>>

-----------------------------------------------------------------------------
(* Reset and KeepAlive, and what the link loses.                           *)

ResetOrKeepAlive(s) ==
    /\ call[s] = "idle"
    /\ Fault
    /\ call' = [call EXCEPT ![s] = "other"]
    /\ UNCHANGED <<wire, segments, confirmed, waiting, nextTransport, inputVars, open, sent,
                   complete, handed, spoiled, rejected>>

ResetOrKeepAliveReturns(s) ==
    /\ call[s] = "other"
    /\ call' = [call EXCEPT ![s] = "idle"]
    /\ UNCHANGED <<wire, segments, confirmed, waiting, nextTransport, inputVars, open, sent,
                   complete, handed, spoiled, rejected, faults>>

\* User data that arrives while a call of s waits for an answer goes to the
\* handler of that call, and never to the reassembler.
Divert(s) ==
    /\ waiting[s] \/ call[s] = "other"
    /\ wire[s] # <<>>
    /\ wire' = [wire EXCEPT ![s] = Tail(@)]
    /\ spoiled' = [spoiled EXCEPT ![s] = TRUE]
    /\ UNCHANGED <<callVars, nextTransport, inputVars, open, sent, complete, handed,
                   rejected, faults>>

\* The link of s reads the segment and refuses it.
Lose(s) ==
    /\ call[s] # "idle"
    /\ wire[s] # <<>>
    /\ Fault
    /\ wire' = [wire EXCEPT ![s] = Tail(@)]
    /\ spoiled' = [spoiled EXCEPT ![s] = TRUE]
    /\ UNCHANGED <<callVars, nextTransport, inputVars, open, sent, complete, handed, rejected>>

Next ==
    \E s \in Station :
        \/ SendApplication(s) \/ SendUnconfirmed(s) \/ SendConfirmed(s)
        \/ Acknowledged(s) \/ SendFails(s)
        \/ ReceiveApplication(s) \/ Receive(s) \/ ConfirmFails(s) \/ ReceiveExpires(s)
        \/ ResetOrKeepAlive(s) \/ ResetOrKeepAliveReturns(s) \/ Divert(s) \/ Lose(s)

Spec == Init /\ [][Next]_vars

\* Calls make progress, and the caller of a session comes back to receive.
FairSpec ==
    /\ Spec
    /\ \A s \in Station :
         /\ WF_vars(SendUnconfirmed(s)) /\ WF_vars(SendConfirmed(s)) /\ WF_vars(Acknowledged(s))
         /\ WF_vars(ReceiveApplication(s)) /\ WF_vars(Receive(s))
         /\ WF_vars(ResetOrKeepAliveReturns(s))

-----------------------------------------------------------------------------
(* Properties.                                                             *)

\* b is the piece the sender cut off right after a.
Follows(a, b) ==
    \/ /\ b.piece.q = a.piece.q
       /\ b.piece.part = a.piece.part + 1
    \/ /\ b.piece.q = a.piece.q + 1 /\ b.piece.k = a.piece.k + 1
       /\ a.piece.part = a.piece.size /\ b.piece.part = 1

\* What was joined is one message of the peer, from its first piece to its last.
Whole(m) ==
    /\ m[1].piece.k = 1 /\ m[1].piece.part = 1
    /\ m[Len(m)].piece.last /\ m[Len(m)].piece.part = m[Len(m)].piece.size
    /\ \A i \in 1..(Len(m) - 1) : Follows(m[i], m[i + 1])

\* A full cycle of segment numbers, or of fragment numbers, went by unseen in m.
Wrapped(m) ==
    \E i \in 1..(Len(m) - 1) :
        \/ m[i + 1].n > m[i].n + Modulus
        \/ m[i + 1].piece.q > m[i].piece.q + AppModulus

\* Every piece of a was written before every piece of b.
Earlier(a, b) == \A i \in DOMAIN a, j \in DOMAIN b : a[i].n < b[j].n

\* Whatever was lost, diverted or cut short, what ReceiveApplication returns is
\* one message of the peer, complete; the exceptions are a peer that had given
\* up a send, whose next message bears the numbers of the segments it already
\* wrote, and numbers that have gone round.  With no exception, what it returns
\* comes in the order written, and nothing of it twice.
JoinsOneMessage ==
    \A s \in Station :
        /\ \A i \in DOMAIN handed[s] :
             \/ Whole(handed[s][i])
             \/ sent[Peer(s)].abandoned
             \/ Wrapped(handed[s][i])
        /\ \A i, j \in DOMAIN handed[s] : i < j => Earlier(handed[s][i], handed[s][j])

\* A session passes on what LinkService promises it: taking what it returns by the
\* number of its first segment, it is handed over at most once, and in the order
\* in which the peer wrote it.
Firsts(messages) == [i \in DOMAIN messages |-> messages[i][1].n]
Offered == [s \in Station |-> sent[s].segments]
Returned == [s \in Station |-> Firsts(handed[s])]

Service == INSTANCE LinkService WITH offered <- Offered, delivered <- Returned
MessageService == Service!Spec

\* A message of the peer of s is above what s takes.
Oversized(s) == sent[Peer(s)].longest > MaximumApplication[s]

\* ReceiveApplication refuses no fragment as long as no segment was lost or
\* diverted, no send was given up and no confirmation came between two fragments,
\* and the messages of the peer fit.
RefusesOnlyBrokenInput ==
    \A s \in Station :
        rejected[s] => spoiled[s] \/ sent[Peer(s)].abandoned \/ Oversized(s)

HandedUp(s, m) == \E i \in DOMAIN handed[s] : Whole(handed[s][i]) /\ handed[s][i][1].piece.msg = m

\* A message whose fragments have all been sent is returned by ReceiveApplication
\* of the peer, unless something was lost, given up or refused on the way.
MessageArrives ==
    []<>(\A s \in Station : \A m \in complete[s] :
             \/ HandedUp(Peer(s), m)
             \/ spoiled[Peer(s)] \/ rejected[Peer(s)] \/ sent[s].abandoned)
=============================================================================
