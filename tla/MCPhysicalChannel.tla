---------------------------- MODULE MCPhysicalChannel ----------------------------
(* PhysicalChannel on small instances.                                     *)
EXTENDS PhysicalChannel

CONSTANTS k1, k2, k3

EveryKind == {"tcp", "quic"} \X {"server", "client"}
ThreeConnections == {k1, k2, k3}

\* Bound: the third connection is one a client dials.
MCSpec == Init /\ [][Next /\ (Server => link'[k3] = "new")]_vars /\ Fairness
=============================================================================
