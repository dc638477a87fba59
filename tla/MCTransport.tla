------------------------------ MODULE MCTransport ------------------------------
(* Transport on small instances.                                           *)
EXTENDS Transport

CONSTANTS t1, t2

TwoSenders == {t1, t2}
=============================================================================
