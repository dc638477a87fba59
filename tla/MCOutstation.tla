------------------------------- MODULE MCOutstation -------------------------------
(* Outstation on small instances.                                          *)
EXTENDS Outstation

CONSTANTS c1, c2, p1, p2, x

TwoCallers == {c1, c2}
OneCaller == {c1}
TwoProcessors == {p1, p2}
OneProcessor == {p1}
OnePoint == {x}
=============================================================================
