----------------------------- MODULE MCClassicLink -----------------------------
(* ClassicLink on small instances.                                         *)
EXTENDS ClassicLink

CONSTANTS m1, m2

OneCaller == {m1}
TwoCallers == {m1, m2}

ThirdData == {3}

MostUsed == {"Reset", "Data", "Status", "Unconfirmed"}

\* Bounds: two calls run beside each other with one call for confirmed data at most
\* and nothing worse than losses and timeouts.  Alone, one thing more goes wrong: a
\* callback fails, Stop is called, unsolicited data is sent, or data does not fit.
Spent ==
    (MaxFailures - budget.failures) + (MaxStops - budget.stops)
        + (MaxUnsolicited - budget.unsolicited) + (IF issued \in TooLong THEN 1 ELSE 0)
Calls(c) == call[c].place # "idle"
Alone == ~shared /\ ~(Calls(m1) /\ Calls(m2))
Bounds == Spent <= 1 /\ (Spent > 0 \/ issued > 1 => Alone)

\* The goroutines are alike: m2 is the one that comes to call beside the other.
InOrder == ~Calls(m2) /\ Calls(m2)' => Calls(m1)

MCSpec == Init /\ [][Next /\ Bounds' /\ InOrder]_vars /\ Fairness
=============================================================================
