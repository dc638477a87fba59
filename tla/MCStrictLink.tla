----------------------------- MODULE MCStrictLink -----------------------------
(* StrictLink on small instances: who uses the link, and how much.         *)
EXTENDS StrictLink

Both == {Master, Outstation}
OnlyMaster == {Master}
OnlyOutstation == {Outstation}
Nobody == {}

WaitingFaults == {"cancelDuring", "handlerFails"}
EveryFault == AllFaults

Requests(m, o) == [s \in Station |-> IF s = Master THEN m ELSE o]
ThreeToOne == Requests(3, 1)
=============================================================================
