------------------------------- MODULE Database -------------------------------
(***************************************************************************)
(* The outstation's measurement database and event buffer                  *)
(* (pkg/outstation/database.go, event_buffer.go) and the goroutines that   *)
(* update points.  An update holds db.mu from before it stores the value   *)
(* until its event, if there is one, is in the buffer, which it enters     *)
(* under eb.mu; the buffer can be cleared at any time in between.          *)
(*                                                                         *)
(* db.mu is a sync.RWMutex: a writer that waits keeps new readers out.     *)
(***************************************************************************)
EXTENDS Integers, Sequences

CONSTANTS
    PointKinds,     \* kinds of points, each an array of the database
    Points,         \* configured points: kind -> sequence of [class, deadband]
    Values,         \* bound: kind -> the values points are updated to, [value, flags]
    Updaters,       \* goroutines that call UpdateBinary, UpdateAnalog, UpdateCounter
    MaxEvents,      \* EventBuffer.maxSize
    MaxUpdates,     \* bound: updates in a behaviour
    MaxClears       \* bound: ClearClass1, 2 and 3 in a behaviour

ASSUME DatabaseAssumption ==
    /\ DOMAIN Points = PointKinds /\ DOMAIN Values = PointKinds
    /\ \A kind \in PointKinds : Points[kind] \in Seq([class : 0..3, deadband : Int])
    /\ "none" \notin Updaters
    /\ MaxEvents \in Nat \ {0}      \* a buffer of size 0 removes an element it has not got
    /\ MaxUpdates \in Nat /\ MaxClears \in Nat

Classes == 1..3
Modes == {"detect", "force", "suppress"}

VARIABLES
    point,      \* kind -> sequence of values
    events,     \* EventBuffer.class1, class2, class3
    readers,    \* holders of db.mu for reading
    writer,     \* the updater that holds db.mu, or "none"
    update,     \* updater -> what its call is doing
    occurred,   \* ghost: the events of each class in the order of the stores, since it was cleared
    updates,    \* ghost: number of updates
    clears      \* ghost: number of clears

dbVars == <<point, events, readers, writer, update, occurred, updates, clears>>

Idle == [step |-> "idle"]

\* The sequence without all but its last MaxEvents elements.
Newest(seq) ==
    IF Len(seq) <= MaxEvents THEN seq ELSE SubSeq(seq, Len(seq) - MaxEvents + 1, Len(seq))

DBInit ==
    /\ point = [kind \in PointKinds |->
                    [i \in DOMAIN Points[kind] |-> [value |-> 0, flags |-> 0]]]
    /\ events = [c \in Classes |-> <<>>]
    /\ readers = 0
    /\ writer = "none"
    /\ update = [u \in Updaters |-> Idle]
    /\ occurred = [c \in Classes |-> <<>>]
    /\ updates = 0
    /\ clears = 0

-----------------------------------------------------------------------------
(* db.mu.                                                                  *)

WriterWaits == \E u \in Updaters : update[u].step = "waits"

RLock ==
    /\ writer = "none" /\ ~WriterWaits
    /\ readers' = readers + 1

RUnlock == readers' = readers - 1

-----------------------------------------------------------------------------
(* Updates.                                                                *)

\* An update is called: it waits for db.mu.
Update(u) ==
    /\ update[u] = Idle
    /\ updates < MaxUpdates
    /\ \E kind \in PointKinds, mode \in Modes :
         \E i \in 1..(Len(Points[kind]) + 1), v \in Values[kind] :
            update' = [update EXCEPT ![u] =
                [step |-> "waits", kind |-> kind, index |-> i, value |-> v, mode |-> mode]]
    /\ updates' = updates + 1
    /\ UNCHANGED <<point, events, readers, writer, occurred, clears>>

Lock(u) ==
    /\ update[u].step = "waits"
    /\ writer = "none" /\ readers = 0
    /\ writer' = u
    /\ update' = [update EXCEPT ![u].step = "locked"]
    /\ UNCHANGED <<point, events, readers, occurred, updates, clears>>

Difference(a, b) == IF a > b THEN a - b ELSE b - a

\* shouldGenerate, and the class that has events.  A binary point has no
\* deadband: any change of its value is beyond it.
Generates(up, old) ==
    LET p == Points[up.kind][up.index]
    IN /\ p.class > 0
       /\ \/ up.mode = "force"
          \/ up.mode = "detect" /\ Difference(old.value, up.value.value) > p.deadband

Event(up) == [kind |-> up.kind, index |-> up.index, value |-> up.value]

Unlock(u) ==
    /\ writer' = "none"
    /\ update' = [update EXCEPT ![u] = Idle]

\* The value is stored; the update goes on to the event buffer, or returns.
Store(u) ==
    LET up == update[u]
    IN /\ up.step = "locked"
       /\ up.index \in DOMAIN Points[up.kind]
       /\ point' = [point EXCEPT ![up.kind][up.index] = up.value]
       /\ IF Generates(up, point[up.kind][up.index])
          THEN /\ update' = [update EXCEPT ![u].step = "event"]
               /\ occurred' = [occurred EXCEPT ![Points[up.kind][up.index].class] =
                                   Append(@, Event(up))]
               /\ UNCHANGED writer
          ELSE /\ Unlock(u)
               /\ UNCHANGED occurred
       /\ UNCHANGED <<events, readers, updates, clears>>

\* There is no such point.
NoPoint(u) ==
    /\ update[u].step = "locked"
    /\ update[u].index \notin DOMAIN Points[update[u].kind]
    /\ Unlock(u)
    /\ UNCHANGED <<point, events, readers, occurred, updates, clears>>

\* Mutant: the newest event comes first.
AddedInFront(list, e) ==
    IF Len(list) >= MaxEvents THEN <<e>> \o Tail(list) ELSE <<e>> \o list

\* EventBuffer.addEvent on the list of the event's class.
Added(list, e) == IF Len(list) >= MaxEvents THEN Append(Tail(list), e) ELSE Append(list, e)

\* AddBinaryEvent, AddAnalogEvent, AddCounterEvent, and the end of the update.
AddEvent(u) ==
    /\ update[u].step = "event"
    /\ LET e == Event(update[u])
       IN events' = [events EXCEPT ![Points[e.kind][e.index].class] = Added(@, e)]
    /\ Unlock(u)
    /\ UNCHANGED <<point, readers, occurred, updates, clears>>

\* The events of class c that are stored and not yet added, while db.mu is held.
Pending(c) ==
    IF writer # "none" /\ update[writer].step = "event"
         /\ Points[update[writer].kind][update[writer].index].class = c
    THEN <<Event(update[writer])>> ELSE <<>>

\* ClearClass1, ClearClass2, ClearClass3.
ClearClass(c) ==
    /\ clears < MaxClears
    /\ events' = [events EXCEPT ![c] = <<>>]
    /\ occurred' = [occurred EXCEPT ![c] = Pending(c)]
    /\ clears' = clears + 1
    /\ UNCHANGED <<point, readers, writer, update, updates>>

\* Somebody reads the database: its lock is all that changes.
ReadStep ==
    /\ RLock \/ (readers > 0 /\ RUnlock)
    /\ UNCHANGED <<point, events, writer, update, occurred, updates, clears>>

DBNext ==
    \/ \E u \in Updaters : Update(u) \/ Lock(u) \/ Store(u) \/ NoPoint(u) \/ AddEvent(u)
    \/ \E c \in Classes : ClearClass(c)

\* The database alone, whoever reads it.
DBSpec == DBInit /\ [][DBNext \/ ReadStep]_dbVars

-----------------------------------------------------------------------------
(* Properties.                                                             *)

\* The buffer of a class holds the newest events since it was cleared, no more than
\* its size, in the order in which the points took the values: the last event of a
\* point never carries a value older than an earlier one.
EventsFollowStores ==
    \A c \in Classes :
        /\ Len(events[c]) <= MaxEvents
        /\ Newest(events[c] \o Pending(c)) = Newest(occurred[c])
=============================================================================
