------------------------------ MODULE Outstation_proofs ------------------------------
(***************************************************************************)
(* Theorems about the outstation, for every bound: about its processors,   *)
(* its callers and the handling of a request (Outstation), for any number  *)
(* of callers, processors and points and any capacity of the queue; and    *)
(* about its database and event buffer (Database) and the reading of it    *)
(* (ReadHandler), for any points, updaters and size of the buffer.  The    *)
(* two have no variable in common.                                         *)
(***************************************************************************)
EXTENDS Outstation, ReadHandler, SequenceTheorems, TLAPS

(***************************************************************************)
(* TypeOK bounds the read locks readLoop holds.  That is a matter of what  *)
(* it has left to do: a depth for each place in todo, which starts with    *)
(* the locks held now, moves with each lock and unlock, is zero at each    *)
(* write and at the end.                                                   *)
(***************************************************************************)
Moves(step, a, b) ==
    \/ step = "RLock" /\ b = a + 1
    \/ step = "RUnlock" /\ a = b + 1
    \/ step = "write" /\ a = 0 /\ b = 0

\* The steps of s lead from a read locks to b, never to more than two.
Nested(s, a, b) ==
    \E depth \in [0..Len(s) -> 0..2] :
        /\ depth[0] = a /\ depth[Len(s)] = b
        /\ \A i \in 1..Len(s) : Moves(s[i], depth[i - 1], depth[i])

TypeInv == TypeOK /\ Nested(todo, readLocks, 0)

LEMMA NestedEmpty ==
    ASSUME NEW a \in 0..2
    PROVE  Nested(<<>>, a, a)
<1> DEFINE depth == [i \in 0..0 |-> a]
<1>1. depth \in [0..Len(<<>>) -> 0..2]
    OBVIOUS
<1>2. depth[0] = a /\ depth[Len(<<>>)] = a /\ 1..Len(<<>>) = {}
    OBVIOUS
<1> HIDE DEF depth
<1> QED
    BY <1>1, <1>2 DEF Nested

LEMMA NestedOne ==
    ASSUME NEW step \in Step, NEW a \in 0..2, NEW b \in 0..2, Moves(step, a, b)
    PROVE  Nested(<<step>>, a, b)
<1> DEFINE depth == [i \in 0..1 |-> IF i = 0 THEN a ELSE b]
<1>1. depth \in [0..Len(<<step>>) -> 0..2]
    OBVIOUS
<1>2. depth[0] = a /\ depth[1] = b /\ Len(<<step>>) = 1 /\ <<step>>[1] = step
    OBVIOUS
<1> HIDE DEF depth
<1>3. \A i \in 1..Len(<<step>>) : Moves(<<step>>[i], depth[i - 1], depth[i])
    <2>1. 1..Len(<<step>>) = {1} /\ 1 - 1 = 0
        BY <1>2
    <2> QED
        BY <1>2, <2>1
<1> QED
    BY <1>1, <1>2, <1>3 DEF Nested

LEMMA NestedConcat ==
    ASSUME NEW s \in Seq(Step), NEW t \in Seq(Step), NEW a, NEW b, NEW c,
           Nested(s, a, b), Nested(t, b, c)
    PROVE  s \o t \in Seq(Step) /\ Nested(s \o t, a, c)
<1>1. PICK d \in [0..Len(s) -> 0..2] :
        /\ d[0] = a /\ d[Len(s)] = b
        /\ \A i \in 1..Len(s) : Moves(s[i], d[i - 1], d[i])
    BY DEF Nested
<1>2. PICK e \in [0..Len(t) -> 0..2] :
        /\ e[0] = b /\ e[Len(t)] = c
        /\ \A i \in 1..Len(t) : Moves(t[i], e[i - 1], e[i])
    BY DEF Nested
<1> DEFINE f == [i \in 0..(Len(s) + Len(t)) |-> IF i <= Len(s) THEN d[i] ELSE e[i - Len(s)]]
<1>3. Len(s) \in Nat /\ Len(t) \in Nat /\ Len(s \o t) = Len(s) + Len(t)
    OBVIOUS
<1>4. f \in [0..Len(s \o t) -> 0..2]
    BY <1>3
<1>5. f[0] = a /\ f[Len(s \o t)] = c
    <2>1. f[0] = d[0]
        BY <1>3
    <2>2. CASE Len(t) = 0
        <3>1. f[Len(s \o t)] = d[Len(s)]
            BY <2>2, <1>3
        <3> QED
            BY <1>1, <1>2, <2>1, <2>2, <3>1
    <2>3. CASE Len(t) # 0
        <3>1. f[Len(s \o t)] = e[Len(t)]
            BY <2>3, <1>3
        <3> QED
            BY <1>1, <1>2, <2>1, <3>1
    <2> QED
        BY <2>2, <2>3
<1>6. ASSUME NEW i \in 1..Len(s \o t)
      PROVE  Moves((s \o t)[i], f[i - 1], f[i])
    <2>1. CASE i <= Len(s)
        <3>1. (s \o t)[i] = s[i] /\ f[i] = d[i] /\ f[i - 1] = d[i - 1] /\ i \in 1..Len(s)
            BY <2>1, <1>3
        <3> QED
            BY <3>1, <1>1
    <2>2. CASE i = Len(s) + 1
        <3>1. (s \o t)[i] = t[1] /\ f[i] = e[1] /\ f[i - 1] = e[0] /\ 1 \in 1..Len(t)
            BY <2>2, <1>1, <1>2, <1>3
        <3> QED
            BY <3>1, <1>2
    <2>3. CASE i > Len(s) + 1
        <3> DEFINE j == i - Len(s)
        <3>1. /\ (s \o t)[i] = t[j] /\ f[i] = e[j] /\ f[i - 1] = e[j - 1]
              /\ j \in 1..Len(t)
            BY <2>3, <1>3
        <3> QED
            BY <3>1, <1>2
    <2> QED
        BY <2>1, <2>2, <2>3, <1>3
<1> HIDE DEF f
<1> QED
    <2>1. s \o t \in Seq(Step)
        OBVIOUS
    <2>2. Nested(s \o t, a, c)
        BY <1>4, <1>5, <1>6 DEF Nested
    <2> QED
        BY <2>1, <2>2

\* What is left after the first step is nested from where that step leads.
LEMMA NestedTail ==
    ASSUME NEW s \in Seq(Step), s # <<>>, NEW a, NEW c, Nested(s, a, c)
    PROVE  \E b \in 0..2 : Moves(Head(s), a, b) /\ Nested(Tail(s), b, c)
<1>1. PICK d \in [0..Len(s) -> 0..2] :
        /\ d[0] = a /\ d[Len(s)] = c
        /\ \A i \in 1..Len(s) : Moves(s[i], d[i - 1], d[i])
    BY DEF Nested
<1>2. Len(s) \in Nat \ {0} /\ Len(Tail(s)) = Len(s) - 1 /\ Head(s) = s[1]
    OBVIOUS
<1>3. Moves(Head(s), a, d[1]) /\ d[1] \in 0..2
    <2>1. 1 \in 1..Len(s) /\ 1 - 1 = 0 /\ 1 \in 0..Len(s)
        BY <1>2
    <2> QED
        BY <1>1, <1>2, <2>1
<1> DEFINE e == [i \in 0..(Len(s) - 1) |-> d[i + 1]]
<1>4. e \in [0..Len(Tail(s)) -> 0..2] /\ e[0] = d[1] /\ e[Len(Tail(s))] = c
    BY <1>1, <1>2
<1>5. ASSUME NEW i \in 1..Len(Tail(s))
      PROVE  Moves(Tail(s)[i], e[i - 1], e[i])
    <2>1. /\ Tail(s)[i] = s[i + 1] /\ e[i - 1] = d[i] /\ e[i] = d[i + 1]
          /\ i + 1 \in 1..Len(s) /\ (i + 1) - 1 = i
        BY <1>2
    <2> QED
        BY <2>1, <1>1
<1> HIDE DEF e
<1>6. Nested(Tail(s), d[1], c)
    BY <1>4, <1>5 DEF Nested
<1> QED
    BY <1>3, <1>6

LEMMA ReadLocksNested ==
    ASSUME NEW n \in Nat, NEW a \in 0..1
    PROVE  ReadLocks(n) \in Seq(Step) /\ Nested(ReadLocks(n), a, a)
<1> DEFINE depth == [i \in 0..(2 * n) |-> a + (i % 2)]
<1>1. 2 * n \in Nat /\ (2 * n) % 2 = 0
    OBVIOUS
<1>2. ReadLocks(n) \in Seq(Step) /\ Len(ReadLocks(n)) = 2 * n
    BY <1>1 DEF ReadLocks, Step
<1>3. depth \in [0..(2 * n) -> 0..2] /\ depth[0] = a /\ depth[2 * n] = a
    BY <1>1
<1>4. ASSUME NEW i \in 1..(2 * n)
      PROVE  Moves(ReadLocks(n)[i], depth[i - 1], depth[i])
    <2>1. ReadLocks(n)[i] = IF i % 2 = 1 THEN "RLock" ELSE "RUnlock"
        BY DEF ReadLocks
    <2>2. depth[i] = a + (i % 2) /\ depth[i - 1] = a + ((i - 1) % 2)
        BY <1>1
    <2>3. \/ i % 2 = 1 /\ (i - 1) % 2 = 0
          \/ i % 2 = 0 /\ (i - 1) % 2 = 1
        OBVIOUS
    <2> QED
        BY <2>1, <2>2, <2>3 DEF Moves
<1> HIDE DEF depth
<1> QED
    BY <1>2, <1>3, <1>4 DEF Nested

\* Handling a frame ends with as many locks as it began with: none.
LEMMA HandlingNested ==
    ASSUME NEW frame \in LinkFrame, NEW content \in Content
    PROVE  Handling(frame, content) \in Seq(Step) /\ Nested(Handling(frame, content), 0, 0)
<1>1. <<>> \in Seq(Step) /\ Nested(<<>>, 0, 0)
    BY NestedEmpty
<1>2. <<"write">> \in Seq(Step) /\ Nested(<<"write">>, 0, 0)
    BY NestedOne DEF Moves, Step
<1>3. <<"write", "write">> \in Seq(Step) /\ Nested(<<"write", "write">>, 0, 0)
    <2>1. <<"write", "write">> = <<"write">> \o <<"write">>
        OBVIOUS
    <2> QED
        BY <1>2, <2>1, NestedConcat
<1>4. Locking(content) \in Seq(Step) /\ Nested(Locking(content), 0, 0)
    <2>1. CASE content = "class0"
        <3>1. <<"RLock">> \in Seq(Step) /\ Nested(<<"RLock">>, 0, 1)
            BY NestedOne DEF Moves, Step
        <3>2. <<"RUnlock">> \in Seq(Step) /\ Nested(<<"RUnlock">>, 1, 0)
            BY NestedOne DEF Moves, Step
        <3>3. ReadLocks(Parts) \in Seq(Step) /\ Nested(ReadLocks(Parts), 1, 1)
            BY ReadLocksNested, OutstationAssumption
        <3>4. /\ <<"RLock">> \o ReadLocks(Parts) \in Seq(Step)
              /\ Nested(<<"RLock">> \o ReadLocks(Parts), 0, 1)
            BY <3>1, <3>3, NestedConcat
        <3>5. Locking(content) = (<<"RLock">> \o ReadLocks(Parts)) \o <<"RUnlock">>
            BY <2>1 DEF Locking
        <3>6. /\ (<<"RLock">> \o ReadLocks(Parts)) \o <<"RUnlock">> \in Seq(Step)
              /\ Nested((<<"RLock">> \o ReadLocks(Parts)) \o <<"RUnlock">>, 0, 0)
            BY <3>2, <3>4, NestedConcat
        <3> QED
            BY <3>5, <3>6
    <2>2. CASE content = "points"
        <3>1. Locking(content) = ReadLocks(1)
            BY <2>2 DEF Locking
        <3> QED
            BY <3>1, ReadLocksNested
    <2>3. CASE content \notin {"class0", "points"}
        BY <2>3, <1>1 DEF Locking
    <2> QED
        BY <2>1, <2>2, <2>3
<1> DEFINE Answer == IF frame = "unconfirmed" THEN <<>> ELSE <<"write">>
           Respond == IF content = "class0" THEN <<"write", "write">> ELSE <<"write">>
<1>5. /\ Answer \in Seq(Step) /\ Nested(Answer, 0, 0)
      /\ Respond \in Seq(Step) /\ Nested(Respond, 0, 0)
    BY <1>1, <1>2, <1>3
<1>6. \/ Handling(frame, content) = Answer
      \/ Handling(frame, content) = (Answer \o Locking(content)) \o Respond
    BY DEF Handling
<1> HIDE DEF Answer, Respond
<1>7. Answer \o Locking(content) \in Seq(Step) /\ Nested(Answer \o Locking(content), 0, 0)
    BY <1>4, <1>5, NestedConcat
<1>8. /\ (Answer \o Locking(content)) \o Respond \in Seq(Step)
      /\ Nested((Answer \o Locking(content)) \o Respond, 0, 0)
    BY <1>5, <1>7, NestedConcat
<1> QED
    BY <1>5, <1>6, <1>8

-----------------------------------------------------------------------------
(* Type correctness.                                                       *)

LEMMA TypeInit == Init => TypeInv
<1> SUFFICES ASSUME Init PROVE TypeInv
    OBVIOUS
<1>1. Nested(todo, readLocks, 0)
    BY NestedEmpty DEF Init
<1>2. queue \in Seq(Caller) /\ Len(queue) <= QueueSize
    BY OutstationAssumption DEF Init
<1>3. /\ place \in [Processor -> {"off", "idle", "applying", "ended"}]
      /\ request \in [Processor -> Caller \cup {None}]
      /\ \A p \in Processor : place[p] = "applying" <=> request[p] # None
    BY DEF Init
<1>4. /\ given \in [Caller -> SUBSET Point] /\ stored \in [Caller -> SUBSET Point]
      /\ call \in [Caller -> {"idle", "queuing", "waiting", "answered", "ok"} \cup Errors]
    BY DEF Init
<1>5. applies \in [Caller -> 0..MaxApplies] /\ handled \in [Caller -> Nat]
    BY OutstationAssumption DEF Init
<1>6. /\ enabled \in BOOLEAN /\ done \in BOOLEAN
      /\ shutdown \in {"no", "waiting", "returned"}
    BY DEF Init
<1>7. readLocks \in 0..2 /\ frames \in 0..MaxFrames /\ failures \in 0..MaxFailures
    BY OutstationAssumption DEF Init
<1>8. todo \in Seq(Step)
    BY DEF Init
<1> QED
    BY <1>1, <1>2, <1>3, <1>4, <1>5, <1>6, <1>7, <1>8 DEF TypeInv, TypeOK

\* Steps of the callers, of the processors and of Enable, Disable and Shutdown.
LEMMA OthersKeepTypes ==
    ASSUME TypeInv,
           \/ Enable \/ Disable \/ Shutdown \/ ShutdownReturns
           \/ \E c \in Caller :
                ApplyDisabled(c) \/ Apply(c) \/ Enqueue(c) \/ GiveUp(c) \/ ApplyReturns(c)
           \/ \E p \in Processor : Process(p)
           \/ UNCHANGED vars
    PROVE  TypeInv'
<1> USE OutstationAssumption
<1>1. UNCHANGED <<todo, readLocks>>
    BY DEF Enable, Disable, Shutdown, ShutdownReturns, ApplyDisabled, Apply, Enqueue,
           GiveUp, ApplyReturns, Process, TakeRequest, Finish, ProcessorEnds, vars, handlerVars
<1>2. Nested(todo, readLocks, 0)'
    BY <1>1 DEF TypeInv, Nested
<1>3. TypeOK'
    <2>1. CASE Enable
        BY <2>1 DEF TypeInv, TypeOK, Enable, applyVars, handlerVars
    <2>2. CASE Disable \/ Shutdown \/ ShutdownReturns
        BY <2>2 DEF TypeInv, TypeOK, Disable, Shutdown, ShutdownReturns, applyVars, handlerVars
    <2>3. ASSUME NEW c \in Caller, ApplyDisabled(c)
          PROVE  TypeOK'
        <3>1. given' \in [Caller -> SUBSET Point] /\ stored' \in [Caller -> SUBSET Point]
            BY <2>3 DEF TypeInv, TypeOK, ApplyDisabled, Anew
        <3> QED
            BY <2>3, <3>1 DEF TypeInv, TypeOK, ApplyDisabled, Anew, Calls, handlerVars, Errors
    <2>4. ASSUME NEW c \in Caller, Apply(c)
          PROVE  TypeOK'
        <3>1. given' \in [Caller -> SUBSET Point] /\ stored' \in [Caller -> SUBSET Point]
            BY <2>4 DEF TypeInv, TypeOK, Apply, Anew
        <3> QED
            BY <2>4, <3>1 DEF TypeInv, TypeOK, Apply, Anew, Calls, handlerVars, Errors
    <2>5. ASSUME NEW c \in Caller, Enqueue(c)
          PROVE  TypeOK'
        <3>1. queue' \in Seq(Caller) /\ Len(queue') <= QueueSize
            BY <2>5 DEF TypeInv, TypeOK, Enqueue
        <3> QED
            BY <2>5, <3>1 DEF TypeInv, TypeOK, Enqueue, handlerVars
    <2>6. ASSUME NEW c \in Caller, GiveUp(c) \/ ApplyReturns(c)
          PROVE  TypeOK'
        BY <2>6 DEF TypeInv, TypeOK, GiveUp, ApplyReturns, handlerVars, Errors
    <2>7. ASSUME NEW p \in Processor, TakeRequest(p)
          PROVE  TypeOK'
        <3>1. /\ Head(queue) \in Caller /\ Tail(queue) \in Seq(Caller)
              /\ Len(Tail(queue)) <= QueueSize
            BY <2>7 DEF TypeInv, TypeOK, TakeRequest
        <3> QED
            BY <2>7, <3>1 DEF TypeInv, TypeOK, TakeRequest, handlerVars
    <2>8. ASSUME NEW p \in Processor, Finish(p)
          PROVE  TypeOK'
        <3>1. request[p] \in Caller
            BY <2>8 DEF TypeInv, TypeOK, Finish
        <3>2. call' \in [Caller -> {"idle", "queuing", "waiting", "answered", "ok"} \cup Errors]
            BY <2>8, <3>1 DEF TypeInv, TypeOK, Finish
        <3>3. handled' \in [Caller -> Nat]
            BY <2>8, <3>1 DEF TypeInv, TypeOK, Finish
        <3>4. stored' \in [Caller -> SUBSET Point]
            BY <2>8, <3>1 DEF TypeInv, TypeOK, Finish, Batch, Queued
        <3> QED
            BY <2>8, <3>2, <3>3, <3>4 DEF TypeInv, TypeOK, Finish, handlerVars
    <2>9. ASSUME NEW p \in Processor, ProcessorEnds(p)
          PROVE  TypeOK'
        BY <2>9 DEF TypeInv, TypeOK, ProcessorEnds, applyVars, handlerVars
    <2>10. CASE UNCHANGED vars
        BY <2>10 DEF TypeInv, TypeOK, vars, applyVars, handlerVars
    <2> QED
        BY <2>1, <2>2, <2>3, <2>4, <2>5, <2>6, <2>7, <2>8, <2>9, <2>10 DEF Process
<1> QED
    BY <1>2, <1>3 DEF TypeInv

\* Steps of readLoop.
LEMMA HandlerKeepsTypes ==
    ASSUME TypeInv,
           \/ \E frame \in LinkFrame, content \in Content : OnReceive(frame, content)
           \/ ReadLock \/ WriteOut
    PROVE  TypeInv'
<1> USE DEF TypeInv, TypeOK
<1>1. /\ UNCHANGED <<enabled, done, shutdown, place, request, applyVars>>
      /\ frames' \in 0..MaxFrames /\ failures' \in 0..MaxFailures
    BY OutstationAssumption DEF OnReceive, ReadLock, WriteOut
<1>2. todo' \in Seq(Step) /\ readLocks' \in 0..2 /\ Nested(todo', readLocks', 0)
    <2>1. ASSUME NEW frame \in LinkFrame, NEW content \in Content, OnReceive(frame, content)
          PROVE  todo' \in Seq(Step) /\ readLocks' \in 0..2 /\ Nested(todo', readLocks', 0)
        <3>1. readLocks = 0
            BY <2>1 DEF Nested, OnReceive
        <3> QED
            BY <2>1, <3>1, HandlingNested DEF OnReceive
    <2>2. CASE ReadLock
        <3>1. PICK b \in 0..2 : Moves(Head(todo), readLocks, b) /\ Nested(Tail(todo), b, 0)
            BY <2>2, NestedTail DEF ReadLock
        <3>2. b = readLocks'
            BY <2>2, <3>1 DEF ReadLock, Moves
        <3>3. todo' = Tail(todo) /\ Tail(todo) \in Seq(Step)
            BY <2>2 DEF ReadLock
        <3> QED
            BY <3>1, <3>2, <3>3
    <2>3. CASE WriteOut
        <3>1. PICK b \in 0..2 : Moves(Head(todo), readLocks, b) /\ Nested(Tail(todo), b, 0)
            BY <2>3, NestedTail DEF WriteOut
        <3>2. readLocks = 0 /\ b = 0 /\ readLocks' = 0
            BY <2>3, <3>1 DEF WriteOut, Moves
        <3>3. \/ todo' = Tail(todo) /\ Tail(todo) \in Seq(Step)
              \/ todo' = <<>>
            BY <2>3 DEF WriteOut
        <3>4. <<>> \in Seq(Step) /\ Nested(<<>>, 0, 0)
            BY NestedEmpty
        <3> QED
            BY <3>1, <3>2, <3>3, <3>4
    <2> QED
        BY <2>1, <2>2, <2>3
<1>3. Nested(todo, readLocks, 0)'
    BY <1>2 DEF Nested
<1> QED
    BY <1>1, <1>2, <1>3 DEF applyVars

LEMMA TypeStep == TypeInv /\ [Next]_vars => TypeInv'
<1> SUFFICES ASSUME TypeInv, [Next]_vars PROVE TypeInv'
    OBVIOUS
<1> QED
    BY OthersKeepTypes, HandlerKeepsTypes DEF Next, Handler

\* Every variable keeps its type; in particular readLoop never holds more than two
\* read locks of the database, and the queue never more than its capacity.
THEOREM TypeCorrect == Spec => []TypeOK
<1>1. TypeInv => TypeOK
    BY DEF TypeInv
<1> QED
    BY <1>1, TypeInit, TypeStep, PTL DEF Spec

\* When no request is being handled readLoop holds no lock of the database.
THEOREM LocksAreReleased == Spec => [](todo = <<>> => readLocks = 0)
<1>1. TypeInv => (todo = <<>> => readLocks = 0)
    BY DEF TypeInv, TypeOK, Nested
<1> QED
    BY <1>1, TypeInit, TypeStep, PTL DEF Spec

-----------------------------------------------------------------------------
(* What Apply reports of its request.                                      *)

(***************************************************************************)
(* RequestHandledOnce says nothing of a caller that waits.  The invariant  *)
(* adds that a request is in one place, once, and only while its caller    *)
(* waits for it, and that until it is answered nobody has handled it.      *)
(***************************************************************************)
QueuedOnce == \A i, j \in DOMAIN queue : queue[i] = queue[j] => i = j

TakenOnce ==
    /\ \A p, r \in Processor : request[p] # None /\ request[p] = request[r] => p = r
    /\ \A p \in Processor : ~InQueue(request[p])

AwaitedInv ==
    \A c \in Caller :
        InQueue(c) \/ (\E p \in Processor : request[p] = c) => call[c] = "waiting"

HandledInv ==
    \A c \in Caller : handled[c] = IF call[c] \in {"answered", "ok"} THEN 1 ELSE 0

RequestInv == QueuedOnce /\ TakenOnce /\ AwaitedInv /\ HandledInv

LEMMA RequestInit == Init => RequestInv
<1> SUFFICES ASSUME Init PROVE RequestInv
    OBVIOUS
<1>1. /\ DOMAIN queue = {} /\ \A p \in Processor : request[p] = None
      /\ \A c \in Caller : call[c] = "idle" /\ handled[c] = 0 /\ c # None
    BY OutstationAssumption DEF Init
<1>2. \A d : ~InQueue(d)
    BY <1>1 DEF InQueue
<1>3. QueuedOnce /\ TakenOnce /\ AwaitedInv
    BY <1>1, <1>2 DEF QueuedOnce, TakenOnce, AwaitedInv
<1>4. HandledInv
    BY <1>1 DEF HandledInv
<1> QED
    BY <1>3, <1>4 DEF RequestInv

\* The queue after Enqueue and after TakeRequest.
LEMMA QueueAppend ==
    ASSUME NEW c \in Caller, TypeOK, queue' = Append(queue, c)
    PROVE  /\ \A d \in Caller : InQueue(d)' <=> InQueue(d) \/ d = c
           /\ QueuedOnce /\ ~InQueue(c) => QueuedOnce'
<1>1. /\ DOMAIN queue = 1..Len(queue) /\ Len(queue) \in Nat
      /\ DOMAIN queue' = 1..(Len(queue) + 1)
      /\ queue'[Len(queue) + 1] = c
      /\ \A i \in 1..Len(queue) : queue'[i] = queue[i]
    BY DEF TypeOK
<1>2. \A d \in Caller : InQueue(d)' <=> InQueue(d) \/ d = c
    BY <1>1 DEF InQueue
<1>3. ASSUME QueuedOnce, ~InQueue(c) PROVE QueuedOnce'
    BY <1>1, <1>3 DEF QueuedOnce, InQueue
<1> QED
    BY <1>2, <1>3

LEMMA QueueTail ==
    ASSUME TypeOK, QueuedOnce, queue # <<>>, queue' = Tail(queue)
    PROVE  /\ InQueue(Head(queue)) /\ Head(queue) \in Caller
           /\ \A d : InQueue(d)' <=> InQueue(d) /\ d # Head(queue)
           /\ QueuedOnce'
<1>1. /\ DOMAIN queue = 1..Len(queue) /\ Len(queue) \in Nat \ {0}
      /\ DOMAIN queue' = 1..(Len(queue) - 1)
      /\ Head(queue) = queue[1] /\ Head(queue) \in Caller
      /\ \A i \in 1..(Len(queue) - 1) : queue'[i] = queue[i + 1]
    BY DEF TypeOK
<1>2. InQueue(Head(queue))
    BY <1>1 DEF InQueue
<1>3. ASSUME NEW d, InQueue(d)' PROVE InQueue(d) /\ d # Head(queue)
    <2>1. PICK i \in 1..(Len(queue) - 1) : queue[i + 1] = d
        BY <1>1, <1>3 DEF InQueue
    <2>2. i + 1 \in DOMAIN queue /\ 1 \in DOMAIN queue /\ i + 1 # 1
        BY <1>1
    <2> QED
        BY <1>1, <2>1, <2>2 DEF InQueue, QueuedOnce
<1>4. ASSUME NEW d, InQueue(d), d # Head(queue) PROVE InQueue(d)'
    <2>1. PICK i \in DOMAIN queue : queue[i] = d
        BY <1>4 DEF InQueue
    <2>2. i - 1 \in 1..(Len(queue) - 1) /\ (i - 1) + 1 = i
        BY <1>1, <1>4, <2>1
    <2> QED
        BY <1>1, <2>1, <2>2 DEF InQueue
<1>5. QueuedOnce'
    <2>1. ASSUME NEW i \in DOMAIN queue', NEW j \in DOMAIN queue', queue'[i] = queue'[j]
          PROVE  i = j
        <3>1. i + 1 \in DOMAIN queue /\ j + 1 \in DOMAIN queue /\ queue[i + 1] = queue[j + 1]
            BY <1>1, <2>1
        <3>2. i + 1 = j + 1
            BY <3>1 DEF QueuedOnce
        <3> QED
            BY <3>2, <1>1
    <2> QED
        BY <2>1 DEF QueuedOnce
<1> QED
    BY <1>1, <1>2, <1>3, <1>4, <1>5

LEMMA RequestStep == TypeInv /\ RequestInv /\ [Next]_vars => RequestInv'
<1> SUFFICES ASSUME TypeInv, RequestInv, [Next]_vars PROVE RequestInv'
    OBVIOUS
<1> USE OutstationAssumption DEF TypeInv, RequestInv
<1>1. CASE UNCHANGED <<queue, request, call, handled>>
    BY <1>1 DEF QueuedOnce, TakenOnce, AwaitedInv, HandledInv, InQueue
<1>2. ASSUME NEW c \in Caller, ApplyDisabled(c) \/ Apply(c) \/ GiveUp(c) \/ ApplyReturns(c)
      PROVE  RequestInv'
    <2>1. /\ call[c] # "waiting"
          /\ UNCHANGED <<queue, request>>
          /\ \A d \in Caller \ {c} : call'[d] = call[d] /\ handled'[d] = handled[d]
        BY <1>2 DEF TypeOK, ApplyDisabled, Apply, Anew, GiveUp, ApplyReturns, Calls
    <2>2. handled'[c] = IF call'[c] \in {"answered", "ok"} THEN 1 ELSE 0
        BY <1>2 DEF TypeOK, HandledInv, ApplyDisabled, Apply, Anew, GiveUp, ApplyReturns
    <2>3. QueuedOnce' /\ TakenOnce'
        BY <2>1 DEF QueuedOnce, TakenOnce, InQueue
    <2>4. AwaitedInv'
        BY <2>1 DEF AwaitedInv, InQueue
    <2>5. HandledInv'
        BY <2>1, <2>2 DEF HandledInv
    <2> QED
        BY <2>3, <2>4, <2>5
<1>3. ASSUME NEW c \in Caller, Enqueue(c)
      PROVE  RequestInv'
    <2>1. /\ queue' = Append(queue, c) /\ call[c] = "queuing"
          /\ call' = [call EXCEPT ![c] = "waiting"]
          /\ UNCHANGED <<request, handled>>
        BY <1>3 DEF Enqueue
    <2>2. ~InQueue(c) /\ \A p \in Processor : request[p] # c
        BY <2>1 DEF AwaitedInv
    <2>3. (\A d \in Caller : InQueue(d)' <=> InQueue(d) \/ d = c) /\ QueuedOnce'
        BY <2>1, <2>2, QueueAppend
    <2>4. TakenOnce'
        <3>1. ASSUME NEW p \in Processor PROVE ~InQueue(request[p])'
            <4>1. CASE request[p] = None
                <5>1. \A i \in DOMAIN queue' : queue'[i] \in Caller
                    BY <2>1 DEF TypeOK
                <5> QED
                    BY <4>1, <5>1, <2>1 DEF InQueue
            <4>2. CASE request[p] # None
                <5>1. request[p] \in Caller /\ request[p] # c /\ ~InQueue(request[p])
                    BY <4>2, <2>2 DEF TypeOK, TakenOnce
                <5> QED
                    BY <5>1, <2>1, <2>3 DEF InQueue
            <4> QED
                BY <4>1, <4>2
        <3> QED
            BY <3>1, <2>1 DEF TakenOnce
    <2>5. AwaitedInv'
        BY <2>1, <2>3 DEF AwaitedInv, TypeOK
    <2>6. HandledInv'
        BY <2>1 DEF HandledInv, TypeOK
    <2> QED
        BY <2>3, <2>4, <2>5, <2>6
<1>4. ASSUME NEW p \in Processor, TakeRequest(p)
      PROVE  RequestInv'
    <2> DEFINE c == Head(queue)
    <2>1. /\ place[p] = "idle" /\ queue # <<>>
          /\ request' = [request EXCEPT ![p] = c] /\ queue' = Tail(queue)
          /\ UNCHANGED <<call, handled>>
        BY <1>4 DEF TakeRequest
    <2>2. /\ InQueue(c) /\ c \in Caller
          /\ \A d : InQueue(d)' <=> InQueue(d) /\ d # c
          /\ QueuedOnce'
        BY <2>1, QueueTail
    <2>3. \A q \in Processor : request[q] # c
        BY <2>2 DEF TakenOnce
    <2> HIDE DEF c
    <2>4. /\ request'[p] = c
          /\ \A q \in Processor \ {p} : request'[q] = request[q]
        BY <2>1 DEF TypeOK
    <2>5. TakenOnce'
        <3>1. ASSUME NEW q \in Processor PROVE ~InQueue(request[q])'
            <4>1. request'[q] = c \/ ~InQueue(request'[q])
                BY <2>4 DEF TakenOnce
            <4>2. \A d : (\E i \in DOMAIN queue' : queue'[i] = d) => InQueue(d) /\ d # c
                BY <2>2 DEF InQueue
            <4> QED
                BY <4>1, <4>2 DEF InQueue
        <3>2. ASSUME NEW q \in Processor, NEW r \in Processor,
                     request'[q] # None, request'[q] = request'[r]
              PROVE  q = r
            BY <2>3, <2>4, <3>2 DEF TakenOnce
        <3> QED
            BY <3>1, <3>2 DEF TakenOnce
    <2>6. AwaitedInv'
        BY <2>1, <2>2, <2>4 DEF AwaitedInv
    <2>7. HandledInv'
        BY <2>1 DEF HandledInv
    <2> QED
        BY <2>2, <2>5, <2>6, <2>7
<1>5. ASSUME NEW p \in Processor, Finish(p)
      PROVE  RequestInv'
    <2> DEFINE c == request[p]
    <2>1. c \in Caller /\ ~InQueue(c) /\ call[c] = "waiting" /\ handled[c] = 0
        BY <1>5 DEF Finish, TypeOK, TakenOnce, AwaitedInv, HandledInv
    <2>2. /\ handled' = [handled EXCEPT ![c] = @ + 1]
          /\ call' = [call EXCEPT ![c] = "answered"]
          /\ request' = [request EXCEPT ![p] = None]
          /\ UNCHANGED queue
        BY <1>5 DEF Finish
    <2>3. \A q \in Processor \ {p} : request[q] # c
        BY <2>1 DEF TakenOnce
    <2>4. request'[p] = None /\ \A q \in Processor \ {p} : request'[q] = request[q]
        BY <2>2 DEF TypeOK
    <2> HIDE DEF c
    <2>5. /\ call'[c] = "answered" /\ handled'[c] = 1
          /\ \A d \in Caller \ {c} : call'[d] = call[d] /\ handled'[d] = handled[d]
        BY <2>1, <2>2 DEF TypeOK
    <2>6. ~InQueue(None)
        <3>1. \A i \in DOMAIN queue : queue[i] \in Caller
            BY DEF TypeOK
        <3> QED
            BY <3>1 DEF InQueue
    <2>7. QueuedOnce' /\ TakenOnce'
        <3>1. QueuedOnce'
            BY <2>2 DEF QueuedOnce
        <3>2. \A q \in Processor : ~InQueue(request[q])'
            BY <2>2, <2>4, <2>6 DEF TakenOnce, InQueue
        <3>3. \A q, r \in Processor : request'[q] # None /\ request'[q] = request'[r] => q = r
            BY <2>4 DEF TakenOnce
        <3> QED
            BY <3>1, <3>2, <3>3 DEF TakenOnce
    <2>8. AwaitedInv'
        <3>1. ASSUME NEW d \in Caller,
                     InQueue(d)' \/ (\E q \in Processor : request'[q] = d)
              PROVE  call'[d] = "waiting"
            <4>1. d # c
                BY <3>1, <2>1, <2>2, <2>3, <2>4 DEF InQueue
            <4>2. InQueue(d) \/ (\E q \in Processor : request[q] = d)
                BY <3>1, <2>2, <2>4 DEF InQueue
            <4> QED
                BY <4>1, <4>2, <2>5 DEF AwaitedInv
        <3> QED
            BY <3>1 DEF AwaitedInv
    <2>9. HandledInv'
        BY <2>5 DEF HandledInv
    <2> QED
        BY <2>7, <2>8, <2>9
<1>6. CASE \/ Enable \/ Disable \/ Shutdown \/ ShutdownReturns \/ Handler
           \/ \E p \in Processor : ProcessorEnds(p)
           \/ \E frame \in LinkFrame, content \in Content : OnReceive(frame, content)
    <2>1. UNCHANGED <<queue, request, call, handled>>
        BY <1>6 DEF Enable, Disable, Shutdown, ShutdownReturns, Handler, ReadLock, WriteOut,
                    ProcessorEnds, OnReceive, applyVars
    <2> QED
        BY <2>1, <1>1
<1>7. CASE UNCHANGED vars
    BY <1>7, <1>1 DEF vars, applyVars
<1> QED
    BY <1>2, <1>3, <1>4, <1>5, <1>6, <1>7 DEF Next, Process

\* What Apply reports of its request is so: after nil a processor has handled it, once,
\* and after an error none has and none will.
THEOREM RequestsAreHandledOnce == Spec => []RequestHandledOnce
<1>1. Init => TypeInv /\ RequestInv
    BY TypeInit, RequestInit
<1>2. TypeInv /\ RequestInv /\ [Next]_vars => (TypeInv /\ RequestInv)'
    BY TypeStep, RequestStep
<1>3. TypeInv /\ RequestInv => RequestHandledOnce
    BY DEF TypeInv, RequestInv, TypeOK, AwaitedInv, HandledInv, RequestHandledOnce, Errors
<1> QED
    BY <1>1, <1>2, <1>3, PTL DEF Spec

-----------------------------------------------------------------------------
(***************************************************************************)
(* The order of events.  Poll runs the database together with a master;    *)
(* here the readers of db.mu are any that take and release it (DBSpec).    *)
(***************************************************************************)

-----------------------------------------------------------------------------
(* The newest elements of a sequence.                                      *)

\* The elements of the newest part, counted from the end.
LEMMA NewestIs ==
    ASSUME NEW S, NEW s \in Seq(S)
    PROVE  /\ Newest(s) \in Seq(S)
           /\ Len(Newest(s)) = IF Len(s) <= MaxEvents THEN Len(s) ELSE MaxEvents
           /\ \A i \in 1..Len(Newest(s)) :
                Newest(s)[i] = s[i + Len(s) - Len(Newest(s))]
  <1>1. MaxEvents \in Nat \ {0} /\ Len(s) \in Nat
    BY DatabaseAssumption
  <1>2. CASE Len(s) <= MaxEvents
    BY <1>1, <1>2 DEF Newest
  <1>3. CASE Len(s) > MaxEvents
    <2>1. Newest(s) = SubSeq(s, Len(s) - MaxEvents + 1, Len(s))
      BY <1>1, <1>3 DEF Newest
    <2>2. Len(s) - MaxEvents + 1 \in 1..Len(s)
      BY <1>1, <1>3
    <2>3. /\ Newest(s) \in Seq(S) /\ Len(Newest(s)) = MaxEvents
          /\ \A i \in 1..MaxEvents : Newest(s)[i] = s[Len(s) - MaxEvents + 1 + i - 1]
      BY <1>1, <1>3, <2>1, <2>2
    <2> QED
      BY <1>1, <1>3, <2>3
  <1> QED
    BY <1>1, <1>2, <1>3

\* What was newest stays so when both sequences get the same element.
LEMMA NewestAppend ==
    ASSUME NEW S, NEW s \in Seq(S), NEW t \in Seq(S), NEW e \in S, Newest(s) = Newest(t)
    PROVE  Newest(Append(s, e)) = Newest(Append(t, e))
  <1> DEFINE a == Append(s, e)
             b == Append(t, e)
  <1>1. MaxEvents \in Nat \ {0} /\ Len(s) \in Nat /\ Len(t) \in Nat
    BY DatabaseAssumption
  <1>2. /\ a \in Seq(S) /\ Len(a) = Len(s) + 1 /\ a[Len(a)] = e
        /\ \A i \in 1..Len(s) : a[i] = s[i]
    OBVIOUS
  <1>3. /\ b \in Seq(S) /\ Len(b) = Len(t) + 1 /\ b[Len(b)] = e
        /\ \A i \in 1..Len(t) : b[i] = t[i]
    OBVIOUS
  <1> HIDE DEF a, b
  <1>4. /\ Len(Newest(s)) = IF Len(s) <= MaxEvents THEN Len(s) ELSE MaxEvents
        /\ \A i \in 1..Len(Newest(s)) : Newest(s)[i] = s[i + Len(s) - Len(Newest(s))]
    BY NewestIs
  <1>5. /\ Len(Newest(t)) = IF Len(t) <= MaxEvents THEN Len(t) ELSE MaxEvents
        /\ \A i \in 1..Len(Newest(t)) : Newest(t)[i] = t[i + Len(t) - Len(Newest(t))]
    BY NewestIs
  <1>6. /\ Newest(a) \in Seq(S)
        /\ Len(Newest(a)) = IF Len(a) <= MaxEvents THEN Len(a) ELSE MaxEvents
        /\ \A i \in 1..Len(Newest(a)) : Newest(a)[i] = a[i + Len(a) - Len(Newest(a))]
    BY <1>2, NewestIs
  <1>7. /\ Newest(b) \in Seq(S)
        /\ Len(Newest(b)) = IF Len(b) <= MaxEvents THEN Len(b) ELSE MaxEvents
        /\ \A i \in 1..Len(Newest(b)) : Newest(b)[i] = b[i + Len(b) - Len(Newest(b))]
    BY <1>3, NewestIs
  <1>8. Len(Newest(a)) = Len(Newest(b))
    BY <1>1, <1>2, <1>3, <1>4, <1>5, <1>6, <1>7
  <1>9. ASSUME NEW i \in 1..Len(Newest(a))
        PROVE  Newest(a)[i] = Newest(b)[i]
    <2>1. Newest(a)[i] = a[i + Len(a) - Len(Newest(a))]
      BY <1>6
    <2>2. Newest(b)[i] = b[i + Len(b) - Len(Newest(b))]
      BY <1>7, <1>8
    <2>3. CASE i = Len(Newest(a))
      BY <1>1, <1>2, <1>3, <1>8, <2>1, <2>2, <2>3
    <2>4. CASE i # Len(Newest(a))
      <3> DEFINE n == Len(Newest(a))
                 m == Len(Newest(s))
                 j == i + m + 1 - n
      <3>1. n \in Nat /\ m \in Nat /\ n >= 1 /\ (n = m + 1 \/ n = m)
        BY <1>1, <1>2, <1>4, <1>6
      <3>2. j \in 1..m /\ m = Len(Newest(t))
        BY <2>4, <3>1
      <3>3. Newest(s)[j] = s[j + Len(s) - m] /\ Newest(t)[j] = t[j + Len(t) - m]
        BY <3>2, <1>4, <1>5
      <3>4. /\ j + Len(s) - m = i + Len(a) - n /\ j + Len(t) - m = i + Len(b) - Len(Newest(b))
            /\ j + Len(s) - m \in 1..Len(s) /\ j + Len(t) - m \in 1..Len(t)
        <4>1. m <= Len(s) /\ m <= Len(t)
          BY <1>1, <1>4, <1>5, <3>2
        <4>2. Len(a) = Len(s) + 1 /\ Len(b) = Len(t) + 1 /\ Len(Newest(b)) = n
          BY <1>2, <1>3, <1>8
        <4> HIDE DEF n, m
        <4>3. i \in Int
          OBVIOUS
        <4> QED
          BY <1>1, <3>1, <3>2, <4>1, <4>2, <4>3
      <3>5. a[i + Len(a) - n] = s[j + Len(s) - m]
        BY <1>2, <3>4
      <3>6. b[i + Len(b) - Len(Newest(b))] = t[j + Len(t) - m]
        BY <1>3, <3>4
      <3> QED
        BY <2>1, <2>2, <3>3, <3>5, <3>6
    <2> QED
      BY <2>3, <2>4
  <1> QED
    BY <1>6, <1>7, <1>8, <1>9 DEF a, b

\* EventBuffer.addEvent keeps the newest of what the list was with the event behind it.
LEMMA AddedIsNewest ==
    ASSUME NEW S, NEW list \in Seq(S), NEW e \in S, Len(list) <= MaxEvents
    PROVE  /\ Added(list, e) \in Seq(S) /\ Len(Added(list, e)) <= MaxEvents
           /\ Newest(Added(list, e)) = Newest(Append(list, e))
  <1>1. MaxEvents \in Nat \ {0} /\ Len(list) \in Nat
    BY DatabaseAssumption
  <1>2. CASE Len(list) < MaxEvents
    BY <1>1, <1>2 DEF Added
  <1>3. CASE Len(list) = MaxEvents
    <2> DEFINE a == Append(Tail(list), e)
               b == Append(list, e)
    <2>1. Added(list, e) = a /\ list # <<>>
      BY <1>1, <1>3 DEF Added
    <2>2. Tail(list) \in Seq(S) /\ Len(Tail(list)) = MaxEvents - 1
      BY <1>1, <1>3
    <2>3. /\ a \in Seq(S) /\ Len(a) = MaxEvents
          /\ \A i \in 1..(MaxEvents - 1) : a[i] = list[i + 1]
          /\ a[MaxEvents] = e
      BY <1>1, <1>3, <2>2
    <2>4. /\ b \in Seq(S) /\ Len(b) = MaxEvents + 1
          /\ \A i \in 1..MaxEvents : b[i] = list[i]
          /\ b[MaxEvents + 1] = e
      BY <1>1, <1>3
    <2> HIDE DEF a, b
    <2>5. Newest(a) = a
      BY <1>1, <2>3 DEF Newest
    <2>6. /\ Newest(b) \in Seq(S) /\ Len(Newest(b)) = MaxEvents
          /\ \A i \in 1..MaxEvents : Newest(b)[i] = b[i + 1]
      <3>1. /\ Newest(b) \in Seq(S)
            /\ Len(Newest(b)) = IF Len(b) <= MaxEvents THEN Len(b) ELSE MaxEvents
            /\ \A i \in 1..Len(Newest(b)) : Newest(b)[i] = b[i + Len(b) - Len(Newest(b))]
        BY <2>4, NewestIs
      <3>2. Len(Newest(b)) = MaxEvents
        BY <1>1, <2>4, <3>1
      <3>3. \A i \in 1..MaxEvents : i + Len(b) - Len(Newest(b)) = i + 1
        BY <1>1, <2>4, <3>2
      <3> QED
        BY <3>1, <3>2, <3>3
    <2>7. \A i \in 1..MaxEvents : b[i + 1] = a[i]
      <3> SUFFICES ASSUME NEW i \in 1..MaxEvents PROVE b[i + 1] = a[i]
        OBVIOUS
      <3>1. CASE i = MaxEvents
        BY <2>3, <2>4, <3>1
      <3>2. CASE i # MaxEvents
        BY <1>1, <2>3, <2>4, <3>2
      <3> QED
        BY <3>1, <3>2
    <2>8. a = Newest(b)
      BY <1>1, <2>3, <2>6, <2>7, SMTT(20)
    <2> QED
      BY <1>1, <2>1, <2>3, <2>5, <2>8 DEF b
  <1> QED
    BY <1>1, <1>2, <1>3

-----------------------------------------------------------------------------
(* The lock, and what an update carries from the store to the buffer.      *)

AnyValue == UNION {Values[kind] : kind \in PointKinds}
Events == [kind : PointKinds, index : Nat, value : AnyValue]
Working == [step : {"waits", "locked", "event"}, kind : PointKinds, index : Nat,
            value : AnyValue, mode : Modes]

DBTypeInv ==
    /\ events \in [Classes -> Seq(Events)] /\ occurred \in [Classes -> Seq(Events)]
    /\ readers \in Nat /\ writer \in Updaters \cup {"none"}
    /\ update \in [Updaters -> {Idle} \cup Working]

ClassOf(up) == Points[up.kind][up.index].class

\* An update holds db.mu from Lock to the end, nobody else does, and what it brings to
\* the buffer is an event of a point that has a class.
LockInv ==
    /\ \A u \in Updaters : update[u].step \in {"locked", "event"} <=> writer = u
    /\ writer # "none" => readers = 0
    /\ \A u \in Updaters : update[u].step = "event" =>
          /\ update[u].index \in DOMAIN Points[update[u].kind]
          /\ ClassOf(update[u]) \in Classes

\* An event of class c is stored and not yet in the buffer.
Underway(c) ==
    writer # "none" /\ update[writer].step = "event" /\ ClassOf(update[writer]) = c

OrderInv ==
    \A c \in Classes :
        /\ Len(events[c]) <= MaxEvents
        /\ Underway(c) =>
              Newest(Append(events[c], Event(update[writer]))) = Newest(occurred[c])
        /\ ~Underway(c) => Newest(events[c]) = Newest(occurred[c])

DBInv == DBTypeInv /\ LockInv /\ OrderInv

\* What the types say of an update that is not idle.
LEMMA WorkingUpdate ==
    ASSUME DBTypeInv, NEW u \in Updaters, update[u].step # "idle"
    PROVE  update[u] \in Working /\ Event(update[u]) \in Events
  <1>1. update[u] \in Working
    BY DEF DBTypeInv, Idle
  <1> QED
    BY <1>1 DEF Working, Events, Event

LEMMA InitInv == DBInit => DBInv
  <1> SUFFICES ASSUME DBInit PROVE DBInv
    OBVIOUS
  <1> USE DatabaseAssumption DEF DBInit
  <1>1. DBTypeInv
    <2>1. events \in [Classes -> Seq(Events)] /\ occurred \in [Classes -> Seq(Events)]
      OBVIOUS
    <2>2. update \in [Updaters -> {Idle} \cup Working]
      OBVIOUS
    <2> QED
      BY <2>1, <2>2 DEF DBTypeInv
  <1>2. LockInv
    BY DEF LockInv, Idle
  <1>3. OrderInv
    <2>1. \A c \in Classes : events[c] = <<>> /\ occurred[c] = <<>> /\ ~Underway(c)
      BY DEF Underway
    <2>2. Len(<<>>) <= MaxEvents
      OBVIOUS
    <2> QED
      BY <2>1, <2>2 DEF OrderInv
  <1> QED
    BY <1>1, <1>2, <1>3 DEF DBInv

-----------------------------------------------------------------------------
(* One lemma for each step.                                                *)

\* Steps that leave the buffer, the ghost and every event on its way alone.
LEMMA AsideKeepsOrder ==
    ASSUME OrderInv, UNCHANGED <<events, occurred>>,
           \A c \in Classes : Underway(c)' <=> Underway(c),
           \A c \in Classes : Underway(c) => Event(update[writer])' = Event(update[writer])
    PROVE  OrderInv'
  BY DEF OrderInv

LEMMA UpdateKeeps == ASSUME DBInv, NEW u \in Updaters, Update(u) PROVE DBInv'
  <1> USE DEF DBInv
  <1>1. PICK kind \in PointKinds, mode \in Modes :
          \E i \in 1..(Len(Points[kind]) + 1), v \in Values[kind] :
            update' = [update EXCEPT ![u] =
                [step |-> "waits", kind |-> kind, index |-> i, value |-> v, mode |-> mode]]
    BY DEF Update
  <1>2. PICK i \in 1..(Len(Points[kind]) + 1), v \in Values[kind] :
            update' = [update EXCEPT ![u] =
                [step |-> "waits", kind |-> kind, index |-> i, value |-> v, mode |-> mode]]
    BY <1>1
  <1>3. Len(Points[kind]) \in Nat
    BY DatabaseAssumption
  <1>4. [step |-> "waits", kind |-> kind, index |-> i, value |-> v, mode |-> mode] \in Working
    BY <1>3 DEF Working, AnyValue
  <1>5. /\ UNCHANGED <<events, occurred, readers, writer>>
        /\ update[u] = Idle
    BY DEF Update
  <1>6. DBTypeInv'
    BY <1>2, <1>4, <1>5 DEF DBTypeInv
  <1>7. /\ update'[u].step = "waits" /\ update[u].step = "idle"
        /\ \A w \in Updaters \ {u} : update'[w] = update[w]
    BY <1>2, <1>5 DEF DBTypeInv, Idle
  <1>8. LockInv'
    BY <1>5, <1>7 DEF LockInv, ClassOf
  <1>9. writer # u
    BY <1>7 DEF LockInv
  <1>10. writer # "none" => update'[writer] = update[writer]
    BY <1>7, <1>9 DEF DBTypeInv
  <1>11. OrderInv'
    BY <1>5, <1>10 DEF OrderInv, Underway, ClassOf, Event
  <1> QED
    BY <1>6, <1>8, <1>11

LEMMA LockKeeps == ASSUME DBInv, NEW u \in Updaters, Lock(u) PROVE DBInv'
  <1> USE DEF DBInv
  <1>1. /\ update[u].step = "waits" /\ writer = "none" /\ readers = 0
        /\ writer' = u /\ update' = [update EXCEPT ![u].step = "locked"]
        /\ UNCHANGED <<events, occurred, readers>>
    BY DEF Lock
  <1>2. update[u] \in Working
    BY <1>1, WorkingUpdate
  <1>3. /\ update'[u] = [update[u] EXCEPT !.step = "locked"]
        /\ \A w \in Updaters \ {u} : update'[w] = update[w]
    BY <1>1 DEF DBTypeInv
  <1>4. update'[u] \in Working /\ update'[u].step = "locked"
    BY <1>2, <1>3 DEF Working
  <1>5. DBTypeInv'
    BY <1>1, <1>4 DEF DBTypeInv
  <1>6. u # "none"
    BY DatabaseAssumption
  <1>7. LockInv'
    <2>1. \A w \in Updaters : update[w].step \notin {"locked", "event"}
      BY <1>1, DatabaseAssumption DEF LockInv
    <2>2. \A w \in Updaters : update'[w].step \in {"locked", "event"} <=> w = u
      BY <1>3, <1>4, <2>1
    <2>3. \A w \in Updaters : update'[w].step # "event"
      BY <1>3, <1>4, <2>1
    <2> QED
      BY <1>1, <2>2, <2>3 DEF LockInv
  <1>8. \A c \in Classes : ~Underway(c) /\ ~Underway(c)'
    BY <1>1, <1>4 DEF Underway
  <1>9. OrderInv'
    BY <1>1, <1>8 DEF OrderInv
  <1> QED
    BY <1>5, <1>7, <1>9

\* The lock is given back, nothing else is done: NoPoint, and Store of a value that
\* is no event.
LEMMA UnlockKeeps ==
    ASSUME DBInv, NEW u \in Updaters, update[u].step = "locked", Unlock(u),
           UNCHANGED <<events, occurred, readers>>
    PROVE  DBInv'
  <1> USE DEF DBInv
  <1>1. /\ writer = u /\ writer' = "none"
        /\ update'[u] = Idle /\ \A w \in Updaters \ {u} : update'[w] = update[w]
    BY DEF Unlock, LockInv, DBTypeInv
  <1>2. DBTypeInv'
    BY <1>1 DEF DBTypeInv, Unlock
  <1>3. "none" \notin Updaters
    BY DatabaseAssumption
  <1>4. LockInv'
    BY <1>1, <1>3 DEF LockInv, ClassOf, Idle
  <1>5. \A c \in Classes : ~Underway(c) /\ ~Underway(c)'
    BY <1>1 DEF Underway
  <1>6. OrderInv'
    BY <1>5 DEF OrderInv
  <1> QED
    BY <1>2, <1>4, <1>6

\* A value is stored that is an event.
LEMMA StoreKeeps == ASSUME DBInv, NEW u \in Updaters, Store(u) PROVE DBInv'
  <1> USE DEF DBInv
  <1> DEFINE up == update[u]
             k == ClassOf(up)
             e == Event(up)
  <1>1. /\ up.step = "locked" /\ up.index \in DOMAIN Points[up.kind]
        /\ UNCHANGED <<events, readers>>
    BY DEF Store
  <1>2. CASE ~Generates(up, point[up.kind][up.index])
    BY <1>1, <1>2, UnlockKeeps DEF Store
  <1>3. CASE Generates(up, point[up.kind][up.index])
    <2>1. /\ update' = [update EXCEPT ![u].step = "event"]
          /\ occurred' = [occurred EXCEPT ![k] = Append(@, e)]
          /\ UNCHANGED writer
      BY <1>3 DEF Store, ClassOf
    <2>2. up \in Working /\ e \in Events
      BY <1>1, WorkingUpdate
    <2>3. k \in Classes
      <3>1. up.kind \in PointKinds
        BY <2>2 DEF Working
      <3>2. Points[up.kind] \in Seq([class : 0..3, deadband : Int])
        BY <3>1, DatabaseAssumption
      <3>3. Points[up.kind][up.index] \in [class : 0..3, deadband : Int]
        <4> DEFINE list == Points[up.kind]
        <4>1. list \in Seq([class : 0..3, deadband : Int]) /\ up.index \in DOMAIN list
          BY <1>1, <3>2
        <4> HIDE DEF list
        <4>2. list[up.index] \in [class : 0..3, deadband : Int]
          BY <4>1, LenProperties, ElementOfSeq
        <4> QED
          BY <4>2 DEF list
      <3>4. k \in 0..3
        BY <3>3 DEF ClassOf
      <3>5. k > 0
        BY <1>3 DEF Generates, ClassOf
      <3> QED
        BY <3>4, <3>5 DEF Classes
    <2>4. /\ update'[u] = [up EXCEPT !.step = "event"]
          /\ \A w \in Updaters \ {u} : update'[w] = update[w]
      BY <2>1 DEF DBTypeInv
    <2>5. /\ update'[u] \in Working /\ update'[u].step = "event"
          /\ update'[u].kind = up.kind /\ update'[u].index = up.index
          /\ update'[u].value = up.value
      BY <2>2, <2>4 DEF Working
    <2>6. writer = u /\ writer' = u /\ u # "none"
      BY <1>1, <2>1, DatabaseAssumption DEF LockInv
    <2>7. DBTypeInv'
      <3>1. occurred' \in [Classes -> Seq(Events)]
        BY <2>1, <2>2, <2>3 DEF DBTypeInv
      <3>2. update' \in [Updaters -> {Idle} \cup Working]
        BY <2>1, <2>4, <2>5 DEF DBTypeInv
      <3> QED
        BY <1>1, <2>1, <3>1, <3>2 DEF DBTypeInv
    <2>8. LockInv'
      <3>1. \A w \in Updaters : update'[w].step \in {"locked", "event"} <=> writer' = w
        BY <1>1, <2>4, <2>5, <2>6 DEF LockInv
      <3>2. writer' # "none" => readers' = 0
        BY <1>1, <2>1 DEF LockInv
      <3>3. ASSUME NEW w \in Updaters, update'[w].step = "event"
            PROVE  /\ update'[w].index \in DOMAIN Points[update'[w].kind]
                   /\ Points[update'[w].kind][update'[w].index].class \in Classes
        <4>1. w = u
          BY <2>6, <3>1, <3>3
        <4> QED
          BY <4>1, <1>1, <2>3, <2>5 DEF ClassOf
      <3> QED
        BY <3>1, <3>2, <3>3 DEF LockInv, ClassOf
    <2>9. /\ Event(update[writer])' = e
          /\ \A c \in Classes : ~Underway(c) /\ (Underway(c)' <=> c = k)
      BY <1>1, <2>5, <2>6 DEF Event, Underway, ClassOf
    <2>10. \A c \in Classes : occurred'[c] = IF c = k THEN Append(occurred[k], e) ELSE occurred[c]
      BY <2>1, <2>3 DEF DBTypeInv
    <2>11. events[k] \in Seq(Events) /\ occurred[k] \in Seq(Events)
      BY <2>3 DEF DBTypeInv
    <2>12. Newest(Append(events[k], e)) = Newest(Append(occurred[k], e))
      <3>1. Newest(events[k]) = Newest(occurred[k])
        BY <2>3, <2>9 DEF OrderInv
      <3> QED
        BY <2>2, <2>11, <3>1, NewestAppend
    <2> HIDE DEF up, k, e
    <2>13. OrderInv'
      BY <1>1, <2>9, <2>10, <2>12 DEF OrderInv
    <2> QED
      BY <2>7, <2>8, <2>13
  <1> QED
    BY <1>2, <1>3

\* The event that was underway is in the buffer.
LEMMA AddEventKeeps == ASSUME DBInv, NEW u \in Updaters, AddEvent(u) PROVE DBInv'
  <1> USE DEF DBInv
  <1> DEFINE k == ClassOf(update[u])
             e == Event(update[u])
  <1>1. /\ update[u].step = "event" /\ Unlock(u) /\ UNCHANGED <<occurred, readers>>
        /\ events' = [events EXCEPT ![k] = Added(@, e)]
    BY DEF AddEvent, ClassOf, Event
  <1>2. e \in Events /\ k \in Classes
    BY <1>1, WorkingUpdate DEF LockInv
  <1>3. /\ writer = u /\ u # "none" /\ writer' = "none"
        /\ update'[u] = Idle /\ \A w \in Updaters \ {u} : update'[w] = update[w]
    BY <1>1, DatabaseAssumption DEF LockInv, Unlock, DBTypeInv
  <1>4. /\ \A c \in Classes : Underway(c) <=> c = k
        /\ \A c \in Classes : ~Underway(c)'
    BY <1>1, <1>3 DEF Underway
  <1>5. /\ events[k] \in Seq(Events) /\ Len(events[k]) <= MaxEvents
        /\ Newest(Append(events[k], e)) = Newest(occurred[k])
    BY <1>2, <1>3, <1>4 DEF DBTypeInv, OrderInv
  <1>6. /\ Added(events[k], e) \in Seq(Events) /\ Len(Added(events[k], e)) <= MaxEvents
        /\ Newest(Added(events[k], e)) = Newest(occurred[k])
    BY <1>2, <1>5, AddedIsNewest
  <1>7. \A c \in Classes : events'[c] = IF c = k THEN Added(events[k], e) ELSE events[c]
    BY <1>1, <1>2 DEF DBTypeInv
  <1>8. LockInv'
    <2>1. "none" \notin Updaters
      BY DatabaseAssumption
    <2> QED
      BY <1>1, <1>3, <2>1 DEF LockInv, ClassOf, Idle
  <1> HIDE DEF k, e
  <1>9. DBTypeInv'
    <2>1. events' \in [Classes -> Seq(Events)]
      BY <1>1, <1>2, <1>6 DEF DBTypeInv
    <2> QED
      BY <1>1, <1>3, <2>1 DEF DBTypeInv, Unlock
  <1>10. OrderInv'
    BY <1>1, <1>4, <1>6, <1>7 DEF OrderInv
  <1> QED
    BY <1>8, <1>9, <1>10

LEMMA ClearKeeps == ASSUME DBInv, NEW k \in Classes, ClearClass(k) PROVE DBInv'
  <1> USE DEF DBInv
  <1>1. /\ events' = [events EXCEPT ![k] = <<>>]
        /\ occurred' = [occurred EXCEPT ![k] = Pending(k)]
        /\ UNCHANGED <<readers, writer, update>>
    BY DEF ClearClass
  <1>2. /\ Underway(k) => Pending(k) = <<Event(update[writer])>>
        /\ ~Underway(k) => Pending(k) = <<>>
    BY DEF Pending, Underway, ClassOf
  <1>3. Underway(k) => Event(update[writer]) \in Events
    <2>1. ASSUME Underway(k) PROVE writer \in Updaters /\ update[writer].step # "idle"
      BY <2>1 DEF Underway, DBTypeInv
    <2> QED
      BY <2>1, WorkingUpdate
  <1>4. Pending(k) \in Seq(Events)
    <2>1. CASE Underway(k)
      <3> DEFINE e == Event(update[writer])
      <3>1. Pending(k) = <<e>> /\ e \in Events
        BY <1>2, <1>3, <2>1
      <3> HIDE DEF e
      <3> QED
        BY <3>1
    <2>2. CASE ~Underway(k)
      BY <1>2, <2>2
    <2> QED
      BY <2>1, <2>2
  <1>5. DBTypeInv'
    BY <1>1, <1>4 DEF DBTypeInv
  <1>6. LockInv'
    BY <1>1 DEF LockInv, ClassOf
  <1>7. \A c \in Classes :
          /\ events'[c] = IF c = k THEN <<>> ELSE events[c]
          /\ occurred'[c] = IF c = k THEN Pending(k) ELSE occurred[c]
          /\ Underway(c)' <=> Underway(c)
          /\ Event(update[writer])' = Event(update[writer])
    BY <1>1 DEF DBTypeInv, Underway, ClassOf, Event
  <1>8. /\ Len(<<>>) <= MaxEvents
        /\ Append(<<>>, Event(update[writer])) = <<Event(update[writer])>>
    BY DatabaseAssumption
  <1>9. OrderInv'
    BY <1>2, <1>7, <1>8 DEF OrderInv
  <1> QED
    BY <1>5, <1>6, <1>9

LEMMA ReadKeeps == ASSUME DBInv, ReadStep PROVE DBInv'
  <1>1. /\ UNCHANGED <<events, occurred, writer, update>>
        /\ readers' \in Nat /\ (writer # "none" => readers' = 0)
    BY DEF ReadStep, RLock, RUnlock, DBInv, DBTypeInv, LockInv
  <1>2. DBTypeInv' /\ LockInv'
    BY <1>1 DEF DBInv, DBTypeInv, LockInv, ClassOf
  <1>3. OrderInv'
    BY <1>1 DEF DBInv, OrderInv, Underway, ClassOf, Event
  <1> QED
    BY <1>2, <1>3 DEF DBInv

LEMMA StepInv == DBInv /\ [DBNext \/ ReadStep]_dbVars => DBInv'
  <1> SUFFICES ASSUME DBInv, [DBNext \/ ReadStep]_dbVars PROVE DBInv'
    OBVIOUS
  <1>1. ASSUME NEW u \in Updaters, NoPoint(u) PROVE DBInv'
    BY <1>1, UnlockKeeps DEF NoPoint
  <1>2. CASE UNCHANGED dbVars
    BY <1>2 DEF dbVars, DBInv, DBTypeInv, LockInv, OrderInv, Underway, ClassOf, Event
  <1> QED
    BY <1>1, <1>2, UpdateKeeps, LockKeeps, StoreKeeps, AddEventKeeps, ClearKeeps, ReadKeeps
       DEF DBNext

LEMMA Invariance == DBSpec => []DBInv
  <1> QED
    BY InitInv, StepInv, PTL DEF DBSpec

-----------------------------------------------------------------------------
(* Theorems.                                                               *)

\* The event buffer of a class holds the newest events since it was cleared, in the
\* order of the stores, however updates, clears and readers are interleaved.
THEOREM EventsInOrder == DBSpec => []EventsFollowStores
  <1>1. DBInv => EventsFollowStores
    <2> SUFFICES ASSUME DBInv, NEW c \in Classes
                 PROVE  /\ Len(events[c]) <= MaxEvents
                        /\ Newest(events[c] \o Pending(c)) = Newest(occurred[c])
      BY DEF EventsFollowStores
    <2>1. events[c] \in Seq(Events)
      BY DEF DBInv, DBTypeInv
    <2>2. CASE Underway(c)
      <3> DEFINE e == Event(update[writer])
      <3>1. Pending(c) = <<e>>
        BY <2>2 DEF Pending, Underway, ClassOf
      <3>2. e \in Events
        <4>1. writer \in Updaters /\ update[writer].step # "idle"
          BY <2>2 DEF Underway, DBInv, DBTypeInv
        <4> QED
          BY <4>1, WorkingUpdate DEF DBInv
      <3> HIDE DEF e
      <3>3. events[c] \o <<e>> = Append(events[c], e)
        BY <2>1, <3>2
      <3> QED
        BY <2>2, <3>1, <3>3 DEF DBInv, OrderInv, e
    <2>3. CASE ~Underway(c)
      <3>1. Pending(c) = <<>>
        BY <2>3 DEF Pending, Underway, ClassOf
      <3> QED
        BY <2>1, <2>3, <3>1 DEF DBInv, OrderInv
    <2> QED
      BY <2>2, <2>3
  <1> QED
    BY <1>1, Invariance, PTL

\* db.mu excludes: while an update has it nobody reads, and no other update has it.
THEOREM UpdatesExclude ==
    DBSpec => [](/\ writer # "none" => readers = 0
                 /\ \A u, w \in Updaters :
                      /\ update[u].step \in {"locked", "event"}
                      /\ update[w].step \in {"locked", "event"}
                      => u = w)
  <1>1. DBInv => /\ writer # "none" => readers = 0
                 /\ \A u, w \in Updaters :
                      /\ update[u].step \in {"locked", "event"}
                      /\ update[w].step \in {"locked", "event"}
                      => u = w
    BY DEF DBInv, LockInv
  <1> QED
    BY <1>1, Invariance, PTL

-----------------------------------------------------------------------------
(***************************************************************************)
(* A request is answered.  Poll decides what requests there are; here they *)
(* have any headers, and others read the database too.                     *)
(***************************************************************************)

Asked == [kinds : Seq(PointKinds), asked : Nat, static : BOOLEAN]

Arrives ==
    /\ headers' \in Seq(Asked) /\ BeginRead(headers')
    /\ UNCHANGED dbVars

OthersRead ==
    /\ RLock \/ (readers > held /\ RUnlock)
    /\ UNCHANGED <<dbRest, readVars>>

handlerRead == <<dbVars, readVars>>
HandlerNext == DatabaseStep \/ Arrives \/ ReadSteps \/ OthersRead
HandlerSpec == DBInit /\ ReadInit /\ [][HandlerNext]_handlerRead

-----------------------------------------------------------------------------
LEMMA HeadersRemoved ==
    ASSUME NEW S, NEW s \in Seq(S), s # <<>>
    PROVE  /\ s[1] \in S /\ Len(s) \in Nat \ {0}
           /\ Tail(s) \in Seq(S) /\ Len(Tail(s)) = Len(s) - 1
  OBVIOUS

LEMMA KindGiven ==
    ASSUME NEW s \in Seq(Asked), s # <<>>, s[1].kinds # <<>>
    PROVE  LET t == [s EXCEPT ![1].kinds = Tail(@)]
           IN /\ t \in Seq(Asked) /\ Len(t) = Len(s) /\ t # <<>>
              /\ t[1].static = s[1].static /\ Head(s[1].kinds) \in PointKinds
  <1>1. PICK h \in Asked : h = s[1]
    BY HeadersRemoved
  <1>2. h.kinds \in Seq(PointKinds) /\ h.kinds # <<>>
    BY <1>1 DEF Asked
  <1>3. Tail(h.kinds) \in Seq(PointKinds) /\ Head(h.kinds) \in PointKinds
    BY <1>2
  <1>4. PICK g \in Asked : g = [h EXCEPT !.kinds = Tail(@)] /\ g.static = h.static
    <2>1. PICK K : K = Seq(PointKinds)
      OBVIOUS
    <2>2. PICK k \in K : k = Tail(h.kinds)
      BY <1>3, <2>1
    <2>3. h \in [kinds : K, asked : Nat, static : BOOLEAN]
      BY <2>1 DEF Asked
    <2>4. [h EXCEPT !.kinds = k] \in [kinds : K, asked : Nat, static : BOOLEAN]
          /\ [h EXCEPT !.kinds = k].static = h.static
      BY <2>3
    <2> QED
      BY <2>1, <2>2, <2>4 DEF Asked
  <1>5. [s EXCEPT ![1].kinds = Tail(@)] = [s EXCEPT ![1] = g]
    BY <1>1, <1>4
  <1>6. 1 \in 1..Len(s) /\ DOMAIN s = 1..Len(s) /\ Len(s) \in Nat \ {0}
    BY HeadersRemoved
  <1>7. PICK t \in Seq(Asked) : t = [s EXCEPT ![1] = g] /\ Len(t) = Len(s) /\ t[1] = g
    <2>1. PICK A : A = Asked
      OBVIOUS
    <2>2. s \in Seq(A) /\ g \in A
      BY <2>1
    <2>3. [s EXCEPT ![1] = g] \in Seq(A) /\ Len([s EXCEPT ![1] = g]) = Len(s)
          /\ [s EXCEPT ![1] = g][1] = g
      BY <1>6, <2>2, ExceptSeq
    <2> QED
      BY <2>1, <2>3
  <1>8. t # <<>>
    BY <1>6, <1>7
  <1> QED
    BY <1>1, <1>3, <1>4, <1>5, <1>7, <1>8

LEMMA PartAdded ==
    ASSUME NEW S, NEW s \in Seq(S), NEW x
    PROVE  /\ Append(s, x) \in Seq(S \cup {x})
           /\ \A i \in DOMAIN Append(s, x) :
                 Append(s, x)[i] = x \/ (i \in DOMAIN s /\ Append(s, x)[i] = s[i])
  <1>1. s \in Seq(S \cup {x}) /\ x \in S \cup {x}
    <2>1. Len(s) \in Nat /\ s \in [1..Len(s) -> S \cup {x}]
      BY LenProperties
    <2> QED
      BY <2>1, SeqDef
  <1>2. PICK R : R = S \cup {x}
    OBVIOUS
  <1>3. s \in Seq(R) /\ x \in R
    BY <1>1, <1>2
  <1>4. /\ Append(s, x) \in Seq(R)
        /\ \A i \in DOMAIN Append(s, x) :
             Append(s, x)[i] = x \/ (i \in DOMAIN s /\ Append(s, x)[i] = s[i])
    BY <1>3
  <1> QED
    BY <1>2, <1>4

-----------------------------------------------------------------------------
(* What was read of the header that is being answered is still so, because *)
(* the lock is held; what was read of one before was so at one moment.     *)

LocksHeld ==
    /\ headers \in Seq(Asked)
    /\ held \in 0..2 /\ held <= readers
    /\ held > 0 => headers # <<>>
    /\ headers # <<>> => point \in seen /\ held <= Around(headers[1]) + 1

Current(i) == parts[i].points = point[parts[i].kind]

OneMoment(n) ==
    \E d \in seen : \A i \in DOMAIN parts :
        parts[i].header = n => parts[i].points = d[parts[i].kind]

PartsInv ==
    /\ \E S : parts \in Seq(S)
    /\ \A i \in DOMAIN parts :
         /\ parts[i].header \in Nat \ {0} /\ parts[i].header >= Len(headers)
         /\ parts[i].header = Len(headers) => held > 0 /\ headers[1].static /\ Current(i)
    /\ \A i \in DOMAIN parts : parts[i].header > Len(headers) => OneMoment(parts[i].header)

HandlerInv == DBInv /\ LocksHeld /\ PartsInv

\* While somebody reads, the points stay as they are.
LEMMA PointsStay ==
    ASSUME DBInv, readers > 0, DBNext
    PROVE  point' = point
  <1>1. writer = "none" /\ \A u \in Updaters : update[u].step # "locked"
    BY DatabaseAssumption DEF DBInv, LockInv, DBTypeInv
  <1> QED
    BY <1>1 DEF DBNext, Update, Lock, Store, NoPoint, AddEvent, ClearClass

LEMMA DBKeeps ==
    ASSUME DBInv, LocksHeld, HandlerNext
    PROVE  DBInv'
  <1>1. CASE DatabaseStep
    BY <1>1, StepInv DEF DatabaseStep
  <1>2. CASE Arrives
    BY <1>2, StepInv DEF Arrives
  <1>3. CASE OthersRead
    <2>1. readers > held => readers > 0
      BY DEF LocksHeld, DBInv, DBTypeInv
    <2>2. ReadStep
      BY <1>3, <2>1 DEF OthersRead, ReadStep, dbRest
    <2> QED
      BY <2>2, ReadKeeps
  <1>4. CASE ReadSteps
    <2>1. held > 0 => readers > 0
      BY DEF LocksHeld, DBInv, DBTypeInv
    <2>2. held = 1 \/ held = Around(headers[1]) + 1 => held > 0
      BY DEF Around
    <2>3. ReadStep
      BY <1>4, <2>1, <2>2
      DEF ReadSteps, EnterStatic, EnterBuilder, LeaveBuilder, LeaveStatic, ReadStep, dbRest
    <2> QED
      BY <2>3, ReadKeeps
  <1> QED
    BY <1>1, <1>2, <1>3, <1>4 DEF HandlerNext

\* A step that leaves the points, the headers and the parts alone, and holds on.
LEMMA NothingRead ==
    ASSUME PartsInv, UNCHANGED <<point, parts, headers>>, seen \subseteq seen',
           held > 0 => held' > 0
    PROVE  PartsInv'
  <1>1. \A i \in DOMAIN parts : OneMoment(parts[i].header) => OneMoment(parts[i].header)'
    BY DEF OneMoment
  <1> QED
    BY <1>1 DEF PartsInv, Current

LEMMA DatabaseKeeps ==
    ASSUME HandlerInv, DatabaseStep
    PROVE  LocksHeld' /\ PartsInv'
  <1>1. UNCHANGED <<headers, held, parts, readers>> /\ seen \subseteq seen'
        /\ (headers # <<>> => point' \in seen')
    BY DEF DatabaseStep, DBNext, Update, Lock, Store, NoPoint, AddEvent, ClearClass
  <1>2. held > 0 => point' = point
    <2>1. held > 0 => readers > 0
      BY DEF HandlerInv, LocksHeld, DBInv, DBTypeInv
    <2> QED
      BY <2>1, PointsStay DEF HandlerInv, DatabaseStep
  <1>3. LocksHeld'
    BY <1>1 DEF HandlerInv, LocksHeld, Around
  <1>4. \A i \in DOMAIN parts : OneMoment(parts[i].header) => OneMoment(parts[i].header)'
    BY <1>1 DEF OneMoment
  <1>5. \A i \in DOMAIN parts : parts[i].header = Len(headers) => Current(i)'
    BY <1>1, <1>2 DEF HandlerInv, PartsInv, Current
  <1>6. PartsInv'
    BY <1>1, <1>4, <1>5 DEF HandlerInv, PartsInv
  <1> QED
    BY <1>3, <1>6

LEMMA ArrivesKeeps ==
    ASSUME HandlerInv, Arrives
    PROVE  LocksHeld' /\ PartsInv'
  <1>1. /\ headers' \in Seq(Asked) /\ held' = 0 /\ held' = held /\ UNCHANGED <<point, readers>>
        /\ parts' = <<>> /\ seen' = {point}
    BY DEF Arrives, BeginRead, HandlerInv, LocksHeld, dbVars
  <1>2. LocksHeld'
    BY <1>1 DEF HandlerInv, LocksHeld, Around
  <1>3. DOMAIN parts' = {} /\ parts' \in Seq({})
    BY <1>1
  <1> QED
    BY <1>2, <1>3 DEF PartsInv

LEMMA EntersKeeps ==
    ASSUME HandlerInv, EnterStatic \/ EnterBuilder \/ OthersRead
    PROVE  LocksHeld' /\ PartsInv'
  <1>1. /\ UNCHANGED <<point, parts, headers, seen>> /\ readers \in Nat
    BY DEF EnterStatic, EnterBuilder, OthersRead, dbRest, readVars, HandlerInv, DBInv, DBTypeInv
  <1>2. held \in 0..2 /\ held <= readers
    BY DEF HandlerInv, LocksHeld
  <1>3. CASE EnterStatic
    <2>1. held = 0 /\ held' = 1 /\ readers' = readers + 1 /\ headers # <<>>
      BY <1>3 DEF EnterStatic, RLock
    <2>2. held' \in 0..2 /\ held' <= readers' /\ 1 <= Around(headers[1]) + 1
      BY <1>1, <1>2, <2>1 DEF Around
    <2>3. LocksHeld'
      BY <1>1, <2>1, <2>2 DEF HandlerInv, LocksHeld, Around
    <2> QED
      BY <1>1, <2>1, <2>3, NothingRead DEF HandlerInv
  <1>4. CASE EnterBuilder
    <2>1. held = Around(headers[1]) /\ held' = held + 1 /\ readers' = readers + 1 /\ headers # <<>>
      BY <1>4 DEF EnterBuilder, RLock
    <2>2. held' \in 0..2 /\ held' <= readers' /\ held' <= Around(headers[1]) + 1
          /\ (held > 0 => held' > 0)
      BY <1>1, <1>2, <2>1 DEF Around
    <2>3. LocksHeld'
      BY <1>1, <2>1, <2>2 DEF HandlerInv, LocksHeld, Around
    <2> QED
      BY <1>1, <2>2, <2>3, NothingRead DEF HandlerInv
  <1>5. CASE OthersRead
    <2>1. held' = held /\ held <= readers'
      BY <1>1, <1>2, <1>5 DEF OthersRead, RLock, RUnlock, readVars
    <2>2. LocksHeld'
      BY <1>1, <2>1 DEF HandlerInv, LocksHeld, Around
    <2> QED
      BY <1>1, <2>1, <2>2, NothingRead DEF HandlerInv
  <1> QED
    BY <1>3, <1>4, <1>5

\* The header is answered: what was read for it is so at this moment.
LEMMA HeaderDone ==
    ASSUME NEW n, point \in seen, UNCHANGED seen,
           \A i \in DOMAIN parts' :
             parts'[i].header = n => parts'[i].points = point[parts'[i].kind]
    PROVE  OneMoment(n)'
  BY DEF OneMoment

LEMMA HeaderBefore ==
    ASSUME NEW n, OneMoment(n), UNCHANGED seen,
           \A i \in DOMAIN parts' :
             parts'[i].header = n => i \in DOMAIN parts /\ parts'[i] = parts[i]
    PROVE  OneMoment(n)'
  BY DEF OneMoment

LEMMA BuilderKeeps ==
    ASSUME HandlerInv, LeaveBuilder
    PROVE  LocksHeld' /\ PartsInv'
  <1> DEFINE t == [headers EXCEPT ![1].kinds = Tail(@)]
  <1>1. /\ headers \in Seq(Asked) /\ headers # <<>> /\ headers[1].kinds # <<>>
        /\ held \in 0..2 /\ held <= readers /\ readers \in Nat
        /\ held = Around(headers[1]) + 1 /\ held' = held - 1 /\ readers' = readers - 1
        /\ point \in seen /\ UNCHANGED <<point, seen>>
    BY DEF LeaveBuilder, RUnlock, HandlerInv, LocksHeld, DBInv, DBTypeInv, dbRest
  <1>2. PICK n \in Nat \ {0} :
          /\ n = Len(headers) /\ Tail(headers) \in Seq(Asked) /\ Len(Tail(headers)) = n - 1
          /\ headers[1] \in Asked
    BY <1>1, HeadersRemoved
  <1>3. t \in Seq(Asked) /\ Len(t) = n /\ t # <<>> /\ t[1].static = headers[1].static
    BY <1>1, <1>2, KindGiven
  <1>4. headers' = IF headers[1].static THEN t ELSE Tail(headers)
    BY DEF LeaveBuilder
  <1> HIDE DEF t
  <1>5. PICK x : x = Part(headers[1], n) /\ parts' = Append(parts, x)
    BY <1>2 DEF LeaveBuilder
  <1>6. x.header = n /\ x.points = point[x.kind]
    BY <1>5 DEF Part
  <1>7. PICK S : parts \in Seq(S)
    BY DEF HandlerInv, PartsInv
  <1>8. /\ parts' \in Seq(S \cup {x})
        /\ \A i \in DOMAIN parts' : parts'[i] = x \/ (i \in DOMAIN parts /\ parts'[i] = parts[i])
    BY <1>5, <1>7, PartAdded
  <1>9. \A i \in DOMAIN parts' :
           /\ parts'[i].header \in Nat \ {0} /\ parts'[i].header >= n
           /\ parts'[i].header = n => parts'[i].points = point[parts'[i].kind]
           /\ parts'[i].header > n =>
                 i \in DOMAIN parts /\ parts'[i] = parts[i] /\ OneMoment(parts'[i].header)
    <2> TAKE i \in DOMAIN parts'
    <2>1. CASE parts'[i] = x
      BY <1>6, <2>1
    <2>2. CASE i \in DOMAIN parts /\ parts'[i] = parts[i]
      BY <1>2, <2>2 DEF HandlerInv, PartsInv, Current
    <2> QED
      BY <1>8, <2>1, <2>2
  <1>10. OneMoment(n)'
    BY <1>1, <1>9, HeaderDone
  <1>11. \A m \in Nat : m > n /\ (\E i \in DOMAIN parts' : parts'[i].header = m) => OneMoment(m)'
    <2> SUFFICES ASSUME NEW m \in Nat, m > n, NEW i \in DOMAIN parts', parts'[i].header = m
                 PROVE  OneMoment(m)'
      OBVIOUS
    <2>1. OneMoment(m)
      BY <1>9
    <2>2. \A j \in DOMAIN parts' : parts'[j].header = m => j \in DOMAIN parts /\ parts'[j] = parts[j]
      BY <1>9
    <2> QED
      BY <1>1, <2>1, <2>2, HeaderBefore
  <1>12. \A m \in Nat : m >= n /\ (\E i \in DOMAIN parts' : parts'[i].header = m) => OneMoment(m)'
    BY <1>10, <1>11
  <1>13. \A i \in DOMAIN parts' : parts'[i].header >= n => OneMoment(parts[i].header)'
    BY <1>9, <1>12 DEF OneMoment
  <1>14. CASE headers[1].static
    <2>1. headers' = t /\ Len(headers') = n /\ held = 2 /\ held' = 1 /\ headers' # <<>>
          /\ headers'[1].static = headers[1].static
      <3>1. headers' = t
        BY <1>4, <1>14
      <3>2. Around(headers[1]) = 1
        BY <1>14 DEF Around
      <3>3. held = 2 /\ held' = 1
        BY <1>1, <3>2
      <3> QED
        BY <1>3, <3>1, <3>3
    <2>2. LocksHeld'
      BY <1>1, <1>3, <1>14, <2>1 DEF LocksHeld, Around
    <2>3. PartsInv'
      BY <1>1, <1>8, <1>9, <1>13, <1>14, <2>1 DEF PartsInv, Current
    <2> QED
      BY <2>2, <2>3
  <1>15. CASE ~headers[1].static
    <2>1. headers' = Tail(headers) /\ Len(headers') = n - 1 /\ held = 1 /\ held' = 0
      BY <1>1, <1>2, <1>4, <1>15 DEF Around
    <2>2. LocksHeld'
      <3>1. 0 <= Around(headers[1])' + 1
        BY DEF Around
      <3> QED
        BY <1>1, <1>2, <2>1, <3>1 DEF LocksHeld
    <2>3. PartsInv'
      BY <1>8, <1>9, <1>13, <2>1 DEF PartsInv
    <2> QED
      BY <2>2, <2>3
  <1> QED
    BY <1>14, <1>15

LEMMA StaticKeeps ==
    ASSUME HandlerInv, LeaveStatic
    PROVE  LocksHeld' /\ PartsInv'
  <1>1. /\ headers \in Seq(Asked) /\ headers # <<>>
        /\ held = 1 /\ held <= readers /\ readers \in Nat
        /\ held' = 0 /\ readers' = readers - 1 /\ headers' = Tail(headers)
        /\ point \in seen /\ UNCHANGED <<point, seen, parts>>
    BY DEF LeaveStatic, RUnlock, HandlerInv, LocksHeld, DBInv, DBTypeInv, dbRest
  <1>2. PICK n \in Nat \ {0} :
          n = Len(headers) /\ Tail(headers) \in Seq(Asked) /\ Len(Tail(headers)) = n - 1
    BY <1>1, HeadersRemoved
  <1>3. LocksHeld'
    <2>1. 0 <= Around(headers[1])' + 1
      BY DEF Around
    <2> QED
      BY <1>1, <1>2, <2>1 DEF LocksHeld
  <1>4. OneMoment(n)'
    <2>1. \A i \in DOMAIN parts' :
             parts'[i].header = n => parts'[i].points = point[parts'[i].kind]
      BY <1>1, <1>2 DEF HandlerInv, PartsInv, Current
    <2> QED
      BY <1>1, <2>1, HeaderDone
  <1>5. \A i \in DOMAIN parts : OneMoment(parts[i].header)'
    <2> TAKE i \in DOMAIN parts
    <2>1. parts[i].header \in Nat /\ (parts[i].header = n \/ parts[i].header > n)
      BY <1>2 DEF HandlerInv, PartsInv
    <2>2. CASE parts[i].header = n
      BY <1>1, <1>4, <2>2 DEF OneMoment
    <2>3. CASE parts[i].header > n
      <3>1. OneMoment(parts[i].header)
        BY <1>2, <2>3 DEF HandlerInv, PartsInv
      <3> QED
        BY <1>1, <3>1 DEF OneMoment
    <2> QED
      BY <2>1, <2>2, <2>3
  <1>6. \A i \in DOMAIN parts : parts[i].header \in Nat \ {0} /\ parts[i].header >= n
    BY <1>2 DEF HandlerInv, PartsInv
  <1>7. \E S : parts' \in Seq(S)
    BY <1>1 DEF HandlerInv, PartsInv
  <1>8. PartsInv'
    BY <1>1, <1>2, <1>5, <1>6, <1>7 DEF PartsInv
  <1> QED
    BY <1>3, <1>8

LEMMA HandlerInit == DBInit /\ ReadInit => HandlerInv
  <1> SUFFICES ASSUME DBInit, ReadInit PROVE HandlerInv
    OBVIOUS
  <1>1. DBInv
    BY InitInv
  <1>2. LocksHeld
    BY <1>1 DEF ReadInit, LocksHeld, DBInv, DBTypeInv
  <1>3. DOMAIN parts = {} /\ parts \in Seq({})
    BY DEF ReadInit
  <1> QED
    BY <1>1, <1>2, <1>3 DEF HandlerInv, PartsInv

LEMMA HandlerStep == HandlerInv /\ [HandlerNext]_handlerRead => HandlerInv'
  <1> SUFFICES ASSUME HandlerInv, [HandlerNext]_handlerRead PROVE HandlerInv'
    OBVIOUS
  <1>1. CASE UNCHANGED handlerRead
    <2>1. UNCHANGED <<point, readers, headers, held, parts, seen>> /\ UNCHANGED dbVars
      BY <1>1 DEF handlerRead, dbVars, readVars
    <2>2. LocksHeld'
      BY <2>1 DEF HandlerInv, LocksHeld, Around
    <2> QED
      BY <2>1, <2>2, NothingRead, StepInv DEF HandlerInv
  <1>2. CASE HandlerNext
    <2>1. DBInv'
      BY <1>2, DBKeeps DEF HandlerInv
    <2>2. LocksHeld' /\ PartsInv'
      BY <1>2, DatabaseKeeps, ArrivesKeeps, EntersKeeps, BuilderKeeps, StaticKeeps
         DEF HandlerNext, ReadSteps
    <2> QED
      BY <2>1, <2>2 DEF HandlerInv
  <1> QED
    BY <1>1, <1>2

\* Whatever a response holds for one header of the request was read of one state of the
\* database, while the request was being answered (buildStaticData, the builders): for any
\* points, updaters and other readers, and any headers.
THEOREM HeadersOfOneMoment == HandlerSpec => []HeaderOfOneMoment
  <1>1. HandlerInv => HeaderOfOneMoment
    <2> SUFFICES ASSUME HandlerInv, NEW i \in DOMAIN parts PROVE OneMoment(parts[i].header)
      BY DEF HeaderOfOneMoment, OneMoment
    <2>1. /\ parts[i].header \in Nat \ {0} /\ headers \in Seq(Asked)
          /\ parts[i].header >= Len(headers)
      BY DEF HandlerInv, PartsInv, LocksHeld
    <2>2. CASE parts[i].header > Len(headers)
      BY <2>2 DEF HandlerInv, PartsInv
    <2>3. CASE parts[i].header = Len(headers)
      <3>1. point \in seen
        BY <2>1, <2>3 DEF HandlerInv, PartsInv, LocksHeld
      <3>2. \A j \in DOMAIN parts :
               parts[j].header = parts[i].header => parts[j].points = point[parts[j].kind]
        BY <2>3 DEF HandlerInv, PartsInv, Current
      <3> QED
        BY <3>1, <3>2 DEF OneMoment
    <2> QED
      BY <2>1, <2>2, <2>3
  <1> QED
    BY <1>1, HandlerInit, HandlerStep, PTL DEF HandlerSpec

\* No point changes while anybody reads (UpdateBinary and the others, mu.Lock).
THEOREM ReadersSeeNoChange == HandlerSpec => [][readers > 0 => UNCHANGED point]_handlerRead
  <1>1. HandlerInv /\ [HandlerNext]_handlerRead => [readers > 0 => UNCHANGED point]_handlerRead
    <2> SUFFICES ASSUME HandlerInv, HandlerNext, readers > 0 PROVE point' = point
      BY DEF handlerRead
    <2>1. CASE DatabaseStep
      BY <2>1, PointsStay DEF DatabaseStep, HandlerInv
    <2>2. CASE ~DatabaseStep
      BY <2>2 DEF HandlerNext, Arrives, ReadSteps, OthersRead, EnterStatic, EnterBuilder,
                  LeaveBuilder, LeaveStatic, dbVars, dbRest
    <2> QED
      BY <2>1, <2>2
  <1> QED
    BY <1>1, HandlerInit, HandlerStep, PTL DEF HandlerSpec
=============================================================================
