------------------------------ MODULE WriteService ------------------------------
(***************************************************************************)
(* What Channel.Write promises the goroutines that call it: a frame goes   *)
(* onto the wire once at most, and only while the call that gave it runs;  *)
(* a call returns once, and nil only if its frame is on the wire,          *)
(* ErrChannelClosed only if it is not and so never will be.                *)
(***************************************************************************)
EXTENDS Naturals, Sequences

CONSTANT Caller

VARIABLES
    calls,      \* how many calls each caller has made
    wire,       \* those whose frame was written, in order
    reported    \* what each call that is over has returned

Init ==
    /\ calls = [c \in Caller |-> 0]
    /\ wire = [c \in Caller |-> <<>>]
    /\ reported = [c \in Caller |-> <<>>]

Running(c) == calls[c] = Len(reported[c]) + 1
Over(c) == calls[c] = Len(reported[c])

\* The frame of the last call of c.
OnWire(c) == \E i \in DOMAIN wire[c] : wire[c][i] = calls[c]

Call(c) ==
    /\ Over(c)
    /\ calls' = [calls EXCEPT ![c] = @ + 1]
    /\ UNCHANGED <<wire, reported>>

Put(c) ==
    /\ Running(c)
    /\ ~OnWire(c)
    /\ wire' = [wire EXCEPT ![c] = Append(@, calls[c])]
    /\ UNCHANGED <<calls, reported>>

Return(c) ==
    /\ Running(c)
    /\ \E outcome \in {"ok", "closed", "failed"} :
        /\ outcome = "ok" => OnWire(c)
        /\ outcome = "closed" => ~OnWire(c)
        /\ reported' = [reported EXCEPT ![c] = Append(@, outcome)]
    /\ UNCHANGED <<calls, wire>>

\* A channel that is closed says so at once.
Refuse(c) ==
    /\ Over(c)
    /\ calls' = [calls EXCEPT ![c] = @ + 1]
    /\ reported' = [reported EXCEPT ![c] = Append(@, "closed")]
    /\ UNCHANGED wire

Next == \E c \in Caller : Call(c) \/ Put(c) \/ Return(c) \/ Refuse(c)

Spec == Init /\ [][Next]_<<calls, wire, reported>>
=============================================================================
