------------------------------- MODULE MCChannel -------------------------------
(* Channel on small instances.                                             *)
EXTENDS Channel

CONSTANTS c1, c2, a1, a2

OneClient == {c1}
TwoClients == {c1, c2}
OneAddress == {a1}
=============================================================================
