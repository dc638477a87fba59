------------------------------ MODULE LinkService ------------------------------
(***************************************************************************)
(* What two ends of a DNP3 link promise the layer above, in either         *)
(* direction: requests are offered in order and numbered, and the user     *)
(* data of each is handed over at most once, in the order offered.  Data   *)
(* may be lost; it is never repeated, reordered or invented.  The layers   *)
(* above the link keep the same promise of what they are given to send.    *)
(***************************************************************************)
EXTENDS Naturals, Sequences

CONSTANTS Master, Outstation

VARIABLES offered, delivered

Station == {Master, Outstation}

Peer(s) == IF s = Master THEN Outstation ELSE Master

\* The number of the last data handed over at s.
LastOf(seq) == IF seq = <<>> THEN 0 ELSE seq[Len(seq)]

Init ==
    /\ offered = [s \in Station |-> 0]
    /\ delivered = [s \in Station |-> <<>>]

Offer(s) ==
    /\ offered' = [offered EXCEPT ![s] = @ + 1]
    /\ UNCHANGED delivered

Deliver(s) ==
    /\ \E n \in (LastOf(delivered[s]) + 1)..offered[Peer(s)] :
           delivered' = [delivered EXCEPT ![s] = Append(@, n)]
    /\ UNCHANGED offered

\* What is handed over may be answered in the same step.
DeliverAndAnswer(s) ==
    /\ \E n \in (LastOf(delivered[s]) + 1)..offered[Peer(s)] :
           delivered' = [delivered EXCEPT ![s] = Append(@, n)]
    /\ offered' = [offered EXCEPT ![s] = @ + 1]

Next == \E s \in Station : Offer(s) \/ Deliver(s) \/ DeliverAndAnswer(s)

Spec == Init /\ [][Next]_<<offered, delivered>>
=============================================================================
