------------------------------ MODULE ReadHandler ------------------------------
(***************************************************************************)
(* buildReadResponse (pkg/outstation/outstation.go): the outstation reads  *)
(* its database, header by header of the request, while the points are     *)
(* updated.  Each builder holds db.mu for reading, and buildStaticData     *)
(* holds it once more around the builders it calls.  What the octets of    *)
(* the request and the response are is left to Poll: here a header asks    *)
(* for kinds of points, and a response is the points that were read.       *)
(***************************************************************************)
EXTENDS Database

VARIABLES
    headers,    \* the headers of the request that are still to be answered
    held,       \* the read locks on db.mu this takes
    parts,      \* responseData so far: what each builder has read
    seen        \* ghost: the contents of the database since the request arrived

readVars == <<headers, held, parts, seen>>

\* The kinds a header has still to be given, the variation it asks for, and whether
\* buildStaticData answers it.
Header(kinds, asked, static) == [kinds |-> kinds, asked |-> asked, static |-> static]

ReadInit ==
    /\ headers = <<>> /\ held = 0
    /\ parts = <<>>
    /\ seen = {point}

\* A request comes that has headers hs.
BeginRead(hs) ==
    /\ headers = <<>>
    /\ headers' = hs
    /\ parts' = <<>>
    /\ seen' = {point}
    /\ UNCHANGED held

dbRest == <<point, events, writer, update, occurred, updates, clears>>

\* RLock in buildStaticData.
EnterStatic ==
    /\ headers # <<>>
    /\ headers[1].static /\ held = 0
    /\ RLock
    /\ held' = 1
    /\ UNCHANGED <<dbRest, headers, parts, seen>>

\* The locks held where a builder is called.
Around(h) == IF h.static THEN 1 ELSE 0

\* RLock in the builder of one kind.
EnterBuilder ==
    /\ headers # <<>>
    /\ headers[1].kinds # <<>> /\ held = Around(headers[1])
    /\ RLock
    /\ held' = held + 1
    /\ UNCHANGED <<dbRest, headers, parts, seen>>

\* The builder reads all points of its kind, whatever range was asked for.
Part(h, number) ==
    [kind |-> Head(h.kinds), asked |-> h.asked, points |-> point[Head(h.kinds)], header |-> number]

\* It returns, to buildReadResponse or to buildStaticData.
LeaveBuilder ==
    /\ headers # <<>>
    /\ headers[1].kinds # <<>> /\ held = Around(headers[1]) + 1
    /\ parts' = Append(parts, Part(headers[1], Len(headers)))
    /\ headers' = IF headers[1].static THEN [headers EXCEPT ![1].kinds = Tail(@)] ELSE Tail(headers)
    /\ RUnlock
    /\ held' = held - 1
    /\ UNCHANGED <<dbRest, seen>>

\* RUnlock in buildStaticData.
LeaveStatic ==
    /\ headers # <<>>
    /\ headers[1].static /\ headers[1].kinds = <<>> /\ held = 1
    /\ headers' = Tail(headers)
    /\ RUnlock
    /\ held' = 0
    /\ UNCHANGED <<dbRest, parts, seen>>

ReadSteps == EnterStatic \/ EnterBuilder \/ LeaveBuilder \/ LeaveStatic

\* A step of the database, noted while a request is being answered.
DatabaseStep ==
    /\ DBNext
    /\ seen' = IF headers # <<>> THEN seen \cup {point'} ELSE seen
    /\ UNCHANGED <<headers, held, parts>>

-----------------------------------------------------------------------------
(* Properties.                                                             *)

\* All that is read for one header, by however many builders, is of one moment since
\* the request arrived.
HeaderOfOneMoment ==
    \A n \in {parts[i].header : i \in DOMAIN parts} :
        \E d \in seen : \A i \in DOMAIN parts :
            parts[i].header = n => parts[i].points = d[parts[i].kind]
=============================================================================
