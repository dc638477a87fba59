--------------------------- MODULE MCStrictSession ---------------------------
(***************************************************************************)
(* The outstation sends up to two fragments, of up to three pieces, and    *)
(* the master one of one piece; the master takes messages of two pieces.   *)
(***************************************************************************)
EXTENDS StrictSession

FragmentBounds == [s \in Station |-> IF s = Master THEN 1 ELSE 2]
SizeBounds == [s \in Station |-> IF s = Master THEN 1 ELSE 3]
ApplicationLimits == [s \in Station |-> IF s = Master THEN 2 ELSE 3]
SendingModes ==
    [s \in Station |-> {[con |-> TRUE, acked |-> s = Outstation]}]
=============================================================================
