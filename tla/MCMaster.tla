-------------------------------- MODULE MCMaster --------------------------------
(* Master on small instances.                                              *)
EXTENDS Master

CONSTANTS s1, s2, c1, c2, p1, p2

OneScan == {s1}
OneCommand == {c1}
OneProcessor == {p1}
TwoProcessors == {p1, p2}

\* Bounds: when Shutdown has begun nobody asks for anything more and no period ends;
\* when the command has been asked for no scan is removed, and a master that is shut
\* down is not enabled again.
Asking ==
    \/ \E s \in Scan : AddScan(s) \/ RemoveScan(s) \/ DemandScan(s) \/ Due(s)
    \/ ScanOnce
    \/ \E c \in Command : Operate(c)
Asked == \E c \in Command : told[c] # "idle"
Bounds ==
    /\ done => ~Asking
    /\ Asked => ~(\E s \in Scan : RemoveScan(s)) /\ ~(done /\ Enable)

\* The processors are alike: the first that is started is p1.
InOrder == place'[p2] # "off" => place'[p1] # "off"

MCSpec == Init /\ [][Next /\ Bounds /\ InOrder]_vars /\ Fairness
=============================================================================
