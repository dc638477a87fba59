------------------------------- MODULE Master_proofs -------------------------------
(***************************************************************************)
(* Theorems about Master, for any scans and commands and any number of     *)
(* processors and messages on their way.                                   *)
(***************************************************************************)
EXTENDS Master, FiniteSetTheorems, TLAPS

-----------------------------------------------------------------------------
(* Where members of a set T are in a sequence.                             *)

Has(s, T) == \E i \in DOMAIN s : s[i] \in T
OnceIn(s, T) == \A i, j \in DOMAIN s : s[i] \in T /\ s[j] \in T => i = j

LEMMA AppendHas ==
    ASSUME NEW S, NEW s \in Seq(S), NEW x \in S, NEW T
    PROVE  /\ Append(s, x) \in Seq(S)
           /\ Has(Append(s, x), T) <=> Has(s, T) \/ x \in T
           /\ OnceIn(s, T) /\ ~(Has(s, T) /\ x \in T) => OnceIn(Append(s, x), T)
  <1> DEFINE a == Append(s, x)
  <1>1. /\ DOMAIN s = 1..Len(s) /\ Len(s) \in Nat /\ DOMAIN a = 1..(Len(s) + 1)
        /\ a \in Seq(S) /\ a[Len(s) + 1] = x /\ \A i \in 1..Len(s) : a[i] = s[i]
    OBVIOUS
  <1> HIDE DEF a
  <1>2. \A i \in DOMAIN a : i \in DOMAIN s \/ i = Len(s) + 1
    BY <1>1
  <1>3. Has(a, T) <=> Has(s, T) \/ x \in T
    BY <1>1, <1>2 DEF Has
  <1>4. OnceIn(s, T) /\ ~(Has(s, T) /\ x \in T) => OnceIn(a, T)
    BY <1>1, <1>2 DEF Has, OnceIn
  <1> QED
    BY <1>1, <1>3, <1>4 DEF a

LEMMA TailHas ==
    ASSUME NEW S, NEW s \in Seq(S), s # <<>>, NEW T
    PROVE  /\ Head(s) \in S /\ Tail(s) \in Seq(S)
           /\ Has(s, T) <=> Has(Tail(s), T) \/ Head(s) \in T
           /\ OnceIn(s, T) => OnceIn(Tail(s), T) /\ (Head(s) \in T => ~Has(Tail(s), T))
  <1> DEFINE a == Tail(s)
  <1>1. /\ DOMAIN s = 1..Len(s) /\ Len(s) \in Nat \ {0} /\ DOMAIN a = 1..(Len(s) - 1)
        /\ a \in Seq(S) /\ Head(s) = s[1] /\ Head(s) \in S
        /\ \A i \in 1..(Len(s) - 1) : a[i] = s[i + 1]
    OBVIOUS
  <1> HIDE DEF a
  <1>2. ASSUME NEW i \in DOMAIN a PROVE i + 1 \in DOMAIN s /\ a[i] = s[i + 1] /\ i + 1 # 1
    BY <1>1
  <1>3. ASSUME NEW i \in DOMAIN s, i # 1 PROVE i - 1 \in DOMAIN a /\ a[i - 1] = s[i]
    BY <1>1, <1>3
  <1>4. 1 \in DOMAIN s
    BY <1>1
  <1>5. Has(s, T) <=> Has(a, T) \/ Head(s) \in T
    BY <1>1, <1>2, <1>3, <1>4 DEF Has
  <1>6. ASSUME OnceIn(s, T) PROVE OnceIn(a, T)
    <2>1. ASSUME NEW i \in DOMAIN a, NEW j \in DOMAIN a, a[i] \in T, a[j] \in T PROVE i = j
      <3>1. i + 1 = j + 1
        BY <1>2, <1>6, <2>1 DEF OnceIn
      <3> QED
        BY <1>1, <3>1
    <2> QED
      BY <2>1 DEF OnceIn
  <1>7. ASSUME OnceIn(s, T), Head(s) \in T PROVE ~Has(a, T)
    BY <1>1, <1>2, <1>4, <1>7 DEF OnceIn, Has
  <1> QED
    BY <1>1, <1>5, <1>6, <1>7 DEF a

LEMMA ConcatHas ==
    ASSUME NEW S, NEW s \in Seq(S), NEW t \in Seq(S), NEW T
    PROVE  /\ s \o t \in Seq(S)
           /\ Has(s \o t, T) <=> Has(s, T) \/ Has(t, T)
           /\ OnceIn(s, T) /\ ~Has(t, T) => OnceIn(s \o t, T)
  <1> DEFINE a == s \o t
  <1>1. /\ DOMAIN s = 1..Len(s) /\ Len(s) \in Nat /\ DOMAIN t = 1..Len(t) /\ Len(t) \in Nat
        /\ a \in Seq(S) /\ DOMAIN a = 1..(Len(s) + Len(t))
        /\ \A i \in 1..Len(s) : a[i] = s[i]
        /\ \A i \in 1..Len(t) : a[Len(s) + i] = t[i]
    OBVIOUS
  <1> HIDE DEF a
  <1>2. ASSUME NEW i \in DOMAIN a
        PROVE  \/ i \in DOMAIN s /\ a[i] = s[i]
               \/ i - Len(s) \in DOMAIN t /\ a[i] = t[i - Len(s)]
    BY <1>1
  <1>3. \A i \in DOMAIN s : i \in DOMAIN a /\ a[i] = s[i]
    BY <1>1
  <1>4. \A i \in DOMAIN t : Len(s) + i \in DOMAIN a /\ a[Len(s) + i] = t[i]
    BY <1>1
  <1>5. Has(a, T) <=> Has(s, T) \/ Has(t, T)
    BY <1>2, <1>3, <1>4 DEF Has
  <1>6. OnceIn(s, T) /\ ~Has(t, T) => OnceIn(a, T)
    BY <1>2 DEF OnceIn, Has
  <1> QED
    BY <1>1, <1>5, <1>6 DEF a

-----------------------------------------------------------------------------
(* The queue.                                                              *)

\* Every entry of a scan is in later or at a place of ready.
LEMMA EntriesCount ==
    ASSUME TypeOK, NEW s \in Scan
    PROVE  /\ Entries(s) \in Nat /\ later[s] <= Entries(s)
           /\ Entries(s) > 0 <=> later[s] > 0 \/ Has(ready, {s})
  <1> DEFINE P == {i \in DOMAIN ready : ready[i] = s}
  <1>1. later[s] \in Nat
    BY MasterAssumption DEF TypeOK
  <1>2. DOMAIN ready = 1..Len(ready) /\ Len(ready) \in Nat
    BY DEF TypeOK
  <1>3. IsFiniteSet(P) /\ Cardinality(P) \in Nat
    <2>1. IsFiniteSet(1..Len(ready))
      BY <1>2, FS_Interval
    <2>2. P \in SUBSET (1..Len(ready))
      BY <1>2
    <2>3. IsFiniteSet(P)
      BY <2>1, <2>2, FS_Subset
    <2> QED
      BY <2>3, FS_CardinalityType
  <1>4. Cardinality(P) = 0 <=> ~Has(ready, {s})
    <2>1. Cardinality(P) = 0 <=> P = {}
      BY <1>3, FS_EmptySet
    <2> QED
      BY <2>1 DEF Has
  <1>5. Entries(s) = later[s] + Cardinality(P)
    BY DEF Entries
  <1> HIDE DEF P
  <1> QED
    BY <1>1, <1>3, <1>4, <1>5

\* The scans that are demanded, each once.
LEMMA OrderIsSequence ==
    ASSUME NEW S \in SUBSET Scan, NEW order \in Orders(S)
    PROVE  order \in Seq(Scan) /\ \A s \in S : Has(order, {s})
  <1>1. IsFiniteSet(S) /\ Cardinality(S) \in Nat
    BY MasterAssumption, FS_Subset, FS_CardinalityType
  <1>2. /\ order \in [1..Cardinality(S) -> S]
        /\ \A i, j \in 1..Cardinality(S) : order[i] = order[j] => i = j
    BY DEF Orders
  <1>3. order \in Seq(Scan)
    BY <1>1, <1>2
  <1>4. order \in Injection(1..Cardinality(S), S)
    BY <1>2 DEF Injection, IsInjective
  <1>5. Cardinality(1..Cardinality(S)) = Cardinality(S)
    BY <1>1, FS_Interval
  <1>6. order \in Surjection(1..Cardinality(S), S)
    BY <1>1, <1>4, <1>5, FS_Injection
  <1>7. \A s \in S : \E i \in 1..Cardinality(S) : order[i] = s
    BY <1>6 DEF Surjection
  <1> QED
    BY <1>2, <1>3, <1>7 DEF Has

\* What the end of a task does to the queue: every scan is in it, and of other tasks
\* nothing changes.
LEMMA RescheduleQueues ==
    ASSUME TypeOK, Reschedule
    PROVE  /\ ready' \in Seq(Task) /\ later' \in [Scan -> 0..MaxEntries]
           /\ scans' = scans /\ unused' = unused /\ demanded' = {}
           /\ wanted' = wanted
           /\ \A s \in scans : later'[s] > 0 \/ Has(ready', {s})
           /\ \A T : T \cap Scan = {} =>
                /\ Has(ready', T) <=> Has(ready, T)
                /\ OnceIn(ready, T) => OnceIn(ready', T)
  <1>1. PICK order \in Orders(demanded) : ready' = ready \o order
    BY DEF Reschedule
  <1>2. demanded \in SUBSET Scan /\ ready \in Seq(Task)
    BY DEF TypeOK
  <1>3. order \in Seq(Scan) /\ \A s \in demanded : Has(order, {s})
    BY <1>2, OrderIsSequence
  <1>4. order \in Seq(Task)
    BY <1>3 DEF Task
  <1>5. ready' \in Seq(Task)
    BY <1>1, <1>2, <1>4
  <1>6. later' \in [Scan -> 0..MaxEntries]
    <2> SUFFICES ASSUME NEW s \in Scan
                 PROVE  (IF s \in scans \ demanded /\ Entries(s) < MaxEntries
                         THEN later[s] + 1 ELSE later[s]) \in 0..MaxEntries
      BY DEF Reschedule
    <2>1. later[s] \in 0..MaxEntries /\ MaxEntries \in Nat
      BY MasterAssumption DEF TypeOK
    <2>2. Entries(s) \in Nat /\ later[s] <= Entries(s)
      BY EntriesCount
    <2> DEFINE e == Entries(s)
    <2> HIDE DEF e
    <2>3. e \in Nat /\ later[s] <= e
      BY <2>2 DEF e
    <2>4. (s \in scans \ demanded /\ e < MaxEntries) => later[s] + 1 \in 0..MaxEntries
      BY <2>1, <2>3
    <2> QED
      BY <2>1, <2>4 DEF e
  <1>7. ASSUME NEW s \in scans PROVE later'[s] > 0 \/ Has(ready', {s})
    <2>1. s \in Scan
      BY DEF TypeOK
    <2>2. CASE s \in demanded
      <3>1. Has(order, {s})
        BY <1>3, <2>2
      <3> QED
        BY <1>1, <1>2, <1>4, <3>1, ConcatHas
    <2>3. CASE s \notin demanded /\ Entries(s) < MaxEntries
      <3>1. later'[s] = later[s] + 1 /\ later[s] \in Nat
        BY <2>1, <2>3, MasterAssumption DEF Reschedule, TypeOK
      <3> QED
        BY <3>1
    <2>4. CASE s \notin demanded /\ ~(Entries(s) < MaxEntries)
      <3>1. later'[s] = later[s]
        BY <2>1, <2>4 DEF Reschedule
      <3>2. later[s] > 0 \/ Has(ready, {s})
        BY <2>1, <2>4, EntriesCount, MasterAssumption
      <3>3. Has(ready, {s}) => Has(ready', {s})
        BY <1>1, <1>2, <1>4, ConcatHas
      <3> QED
        BY <3>1, <3>2, <3>3
    <2> QED
      BY <2>2, <2>3, <2>4
  <1>8. ASSUME NEW T, T \cap Scan = {}
        PROVE  /\ Has(ready', T) <=> Has(ready, T)
               /\ OnceIn(ready, T) => OnceIn(ready', T)
    <2>1. ~Has(order, T)
      <3>1. \A i \in DOMAIN order : order[i] \in Scan
        BY <1>3
      <3> QED
        BY <1>8, <3>1 DEF Has
    <2> QED
      BY <1>1, <1>2, <1>4, <2>1, ConcatHas
  <1> QED
    BY <1>5, <1>6, <1>7, <1>8 DEF Reschedule
-----------------------------------------------------------------------------
(* Types.                                                                  *)

LEMMA Kinds ==
    /\ None \notin Task /\ NoJob \notin Request
    /\ Scan \subseteq Task /\ Command \subseteq Task /\ Once \in Task
    /\ Request \cup {NoJob} \subseteq [task : Task \cup {None}, phase : Phase \cup {"none"}]
    /\ \A t \in Task : [task |-> t, phase |-> FirstPhase(t)] \in Request
    /\ Empty \in Response /\ Unasked \in Response
  BY MasterAssumption
  DEF Task, NoJob, Request, Phase, FirstPhase, Empty, Unasked, Response

\* What the end of a task leaves of the types.
LEMMA EndTypes ==
    ASSUME TypeOK, NEW p \in Processor, Running(p), NEW outcome \in {"ok", "refused", "failed"},
           TaskEnds(p, outcome)
    PROVE  /\ place' \in [Processor -> {"off", "idle", "sending", "waiting", "ended"}]
           /\ job' \in [Processor -> Request \cup {NoJob}]
           /\ \A q \in Processor : Running(q)' <=> job'[q] # NoJob
           /\ result' \in [Command -> {"none", "ok", "refused", "failed"}]
           /\ UNCHANGED <<enabled, done, shutdown, told, executed>>
  BY DEF TypeOK, TaskEnds, Running

LEMMA TypeInit == Init => TypeOK
  <1> SUFFICES ASSUME Init PROVE TypeOK
    OBVIOUS
  <1>1. later \in [Scan -> 0..MaxEntries] /\ events \in 0..MaxEvents
    BY MasterAssumption DEF Init
  <1>2. \A p \in Processor : place[p] = "off" /\ job[p] = NoJob
    BY DEF Init
  <1>3. \A p \in Processor : Running(p) <=> job[p] # NoJob
    BY <1>2 DEF Running
  <1>4. /\ place \in [Processor -> {"off", "idle", "sending", "waiting", "ended"}]
        /\ job \in [Processor -> Request \cup {NoJob}]
        /\ result \in [Command -> {"none", "ok", "refused", "failed"}]
        /\ executed \in [Command -> Nat]
        /\ told \in [Command -> {"idle", "waiting", "ok", "refused", "failed", "timeout"}]
    BY DEF Init
  <1>5. ready \in Seq(Task) /\ toOutstation \in Seq(Request) /\ toMaster \in Seq(Response)
    BY DEF Init
  <1>6. /\ scans \subseteq Scan /\ unused \subseteq Scan \ scans /\ demanded \subseteq Scan
        /\ wanted \subseteq Scan /\ pendingResp \in Response
        /\ enabled \in BOOLEAN /\ done \in BOOLEAN /\ mixed \in BOOLEAN
        /\ shutdown \in {"no", "waiting", "returned"}
    BY Kinds DEF Init
  <1> QED
    BY <1>1, <1>3, <1>4, <1>5, <1>6 DEF TypeOK

LEMMA TypeStep == TypeOK /\ [Next]_vars => TypeOK'
  <1> SUFFICES ASSUME TypeOK, [Next]_vars PROVE TypeOK'
    OBVIOUS
  <1> USE MasterAssumption
  <1>1. CASE Enable \/ Disable \/ Shutdown \/ ShutdownReturns
    BY <1>1 DEF Enable, Disable, Shutdown, ShutdownReturns, TypeOK, Running, queueVars,
                scanVars, wireVars
  <1>2. ASSUME NEW s \in Scan, AddScan(s) \/ RemoveScan(s) \/ DemandScan(s) \/ Due(s)
        PROVE  TypeOK'
    <2>1. Append(ready, s) \in Seq(Task)
      BY Kinds DEF TypeOK
    <2>2. CASE AddScan(s)
      BY <2>1, <2>2 DEF AddScan, TypeOK, Running, wireVars
    <2>3. CASE RemoveScan(s)
      BY <2>3 DEF RemoveScan, TypeOK, Running, queueVars, wireVars
    <2>4. CASE DemandScan(s)
      BY <2>4 DEF DemandScan, Event, TypeOK, Running, queueVars, wireVars
    <2>5. CASE Due(s)
      BY <2>1, <2>5 DEF Due, TypeOK, Running, scanVars, wireVars
    <2> QED
      BY <1>2, <2>2, <2>3, <2>4, <2>5
  <1>3. CASE ScanOnce
    <2>1. Append(ready, Once) \in Seq(Task)
      BY Kinds DEF TypeOK
    <2> QED
      BY <1>3, <2>1 DEF ScanOnce, Event, TypeOK, Running, scanVars, wireVars
  <1>4. ASSUME NEW c \in Command, Operate(c) \/ OperateReturns(c) \/ OperateTimesOut(c)
        PROVE  TypeOK'
    <2>1. Append(ready, c) \in Seq(Task)
      BY Kinds DEF TypeOK
    <2>2. CASE Operate(c)
      BY <2>1, <2>2 DEF Operate, TypeOK, Running, scanVars, wireVars
    <2>3. CASE OperateReturns(c) \/ OperateTimesOut(c)
      BY <2>3, ZenonT(30) DEF OperateReturns, OperateTimesOut, Return, TypeOK, Running, queueVars,
                  scanVars, wireVars
    <2> QED
      BY <1>4, <2>2, <2>3
  <1>5. ASSUME NEW p \in Processor, TakeTask(p) PROVE TypeOK'
    <2>1. Head(ready) \in Task /\ Tail(ready) \in Seq(Task)
      BY <1>5, TailHas DEF TakeTask, TypeOK
    <2>2. [task |-> Head(ready), phase |-> FirstPhase(Head(ready))] \in Request
      BY <2>1, Kinds
    <2> QED
      BY <1>5, <2>1, <2>2, Kinds DEF TakeTask, Begin, TypeOK, Running, scanVars, wireVars
  <1>6. ASSUME NEW p \in Processor, ProcessorEnds(p) PROVE TypeOK'
    BY <1>6 DEF ProcessorEnds, TypeOK, Running, queueVars, scanVars, wireVars
  <1>7. ASSUME NEW p \in Processor, Send(p) PROVE TypeOK'
    <2>1. job[p] \in Request
      BY <1>7 DEF Send, TypeOK, Running
    <2>2. Append(toOutstation, job[p]) \in Seq(Request)
      BY <2>1 DEF TypeOK
    <2>3. mixed' \in BOOLEAN
      BY <1>7 DEF Send
    <2> QED
      BY <1>7, <2>2, <2>3 DEF Send, TypeOK, Running, queueVars, scanVars
  <1>8. ASSUME NEW p \in Processor, TaskFails(p) PROVE TypeOK'
    <2>1. Running(p) /\ TaskEnds(p, "failed") /\ Reschedule
      BY <1>8 DEF TaskFails
    <2>2. mixed' \in BOOLEAN
      BY <1>8 DEF TaskFails, TypeOK
    <2>4. events' \in 0..MaxEvents
      <3>1. events' = events \/ (events > 0 /\ events' = events - 1)
        BY <1>8 DEF TaskFails, Event
      <3>2. events \in 0..MaxEvents
        BY DEF TypeOK
      <3> QED
        BY <3>1, <3>2
    <2>3. UNCHANGED <<pendingResp, toOutstation, toMaster>>
      BY <1>8 DEF TaskFails, wireVars
    <2> QED
      BY <2>1, <2>2, <2>3, <2>4, EndTypes, RescheduleQueues DEF TypeOK
  <1>9. ASSUME NEW p \in Processor, TakeResponse(p) PROVE TypeOK'
    <2>1. Running(p) /\ Empty \in Response
      BY <1>9, Kinds DEF TakeResponse, Running
    <2>2. pendingResp' = Empty /\ UNCHANGED <<toOutstation, toMaster, events, mixed>>
      BY <1>9, Zenon DEF TakeResponse, wireVars
    <2>3. CASE job[p].phase = "select" /\ pendingResp.ok
      <3>1. job[p] \in Request
        BY <2>1 DEF TypeOK
      <3>2. [job[p] EXCEPT !.phase = "operate"] \in Request
        BY <3>1 DEF Request, Phase
      <3>3. /\ job' = [job EXCEPT ![p] = [job[p] EXCEPT !.phase = "operate"]]
            /\ place' = [place EXCEPT ![p] = "sending"]
            /\ UNCHANGED <<enabled, done, shutdown, ready, later, scans, unused, demanded, wanted,
                           told, result, executed>>
        BY <1>9, <2>3 DEF TakeResponse, queueVars, scanVars
      <3>4. /\ place' \in [Processor -> {"off", "idle", "sending", "waiting", "ended"}]
            /\ job' \in [Processor -> Request \cup {NoJob}]
            /\ \A q \in Processor : Running(q)' <=> job'[q] # NoJob
        BY <2>1, <3>2, <3>3, Kinds DEF TypeOK, Running
      <3> QED
        BY <2>1, <2>2, <3>3, <3>4 DEF TypeOK
    <2>4. CASE ~(job[p].phase = "select" /\ pendingResp.ok)
      <3>1. TaskEnds(p, IF pendingResp.ok THEN "ok" ELSE "refused") /\ Reschedule
        BY <1>9, <2>4 DEF TakeResponse
      <3> QED
        BY <2>1, <2>2, <3>1, EndTypes, RescheduleQueues DEF TypeOK
    <2> QED
      BY <2>3, <2>4
  <1>10. CASE OnReceiveAPDU
    <2>1. Head(toMaster) \in Response /\ Tail(toMaster) \in Seq(Response)
      BY <1>10, TailHas DEF OnReceiveAPDU, TypeOK
    <2> QED
      BY <1>10, <2>1 DEF OnReceiveAPDU, TypeOK, Running, queueVars, scanVars
  <1>11. CASE OutstationAnswers
    <2>1. Head(toOutstation) \in Request /\ Tail(toOutstation) \in Seq(Request)
      BY <1>11, TailHas DEF OutstationAnswers, TypeOK
    <2>2. PICK accepts \in BOOLEAN, inObjects \in BOOLEAN :
            /\ toMaster' = Append(toMaster, [request |-> Head(toOutstation),
                                            ok |-> accepts \/ ~inObjects])
            /\ executed' = [c \in Command |->
                    IF accepts /\ Operates(Head(toOutstation)) /\ Head(toOutstation).task = c
                    THEN executed[c] + 1 ELSE executed[c]]
            /\ mixed' = (mixed \/ ~(accepts \/ inObjects))
      BY <1>11 DEF OutstationAnswers
    <2>3. toMaster' \in Seq(Response)
      BY <2>1, <2>2 DEF TypeOK, Response
    <2>4. executed' \in [Command -> Nat]
      BY <2>2 DEF TypeOK
    <2>5. mixed' \in BOOLEAN
      BY <2>2
    <2>6. toOutstation' \in Seq(Request)
      BY <1>11, <2>1 DEF OutstationAnswers
    <2> QED
      BY <1>11, <2>3, <2>4, <2>5, <2>6
      DEF OutstationAnswers, TypeOK, Running, queueVars, scanVars
  <1>12. CASE OutstationSpeaks
    <2>1. Append(toMaster, Unasked) \in Seq(Response)
      BY Kinds DEF TypeOK
    <2> QED
      BY <1>12, <2>1 DEF OutstationSpeaks, Event, TypeOK, Running, queueVars, scanVars
  <1>13. CASE LoseRequest
    <2>1. Tail(toOutstation) \in Seq(Request)
      BY <1>13, TailHas DEF LoseRequest, TypeOK
    <2> QED
      BY <1>13, <2>1 DEF LoseRequest, Event, TypeOK, Running, queueVars, scanVars
  <1>14. CASE LoseResponse
    <2>1. Tail(toMaster) \in Seq(Response)
      BY <1>14, TailHas DEF LoseResponse, TypeOK
    <2> QED
      BY <1>14, <2>1 DEF LoseResponse, Event, TypeOK, Running, queueVars, scanVars
  <1>15. CASE UNCHANGED vars
    BY <1>15 DEF vars, queueVars, scanVars, wireVars, TypeOK, Running
  <1> QED
    BY <1>1, <1>2, <1>3, <1>4, <1>5, <1>6, <1>7, <1>8, <1>9, <1>10, <1>11, <1>12, <1>13,
       <1>14, <1>15 DEF Next, Process

\* Every variable of the master, of the outstation and of the wire keeps its type, and a
\* processor has a request exactly while it is sending it or waiting for the answer.
THEOREM TypeCorrect == Spec => []TypeOK
  BY TypeInit, TypeStep, PTL DEF Spec

-----------------------------------------------------------------------------
(* No scan is forgotten.                                                   *)

LEMMA QueuedCount ==
    TypeOK => \A s \in Scan : Entries(s) > 0 <=> later[s] > 0 \/ Has(ready, {s})
  BY EntriesCount

LEMMA QueuedCountNext == (TypeOK => \A s \in Scan : Entries(s) > 0 <=> later[s] > 0 \/ Has(ready, {s}))'
  BY QueuedCount, PTL

LEMMA ForgottenStep ==
    ASSUME TypeOK, TypeOK', ScanNotForgotten, [Next]_vars
    PROVE  ScanNotForgotten'
  <1> DEFINE Queued(s) == later[s] > 0 \/ Has(ready, {s})
             Busy == \E p \in Processor : Running(p)
  <1>1. \A s \in scans : s \in Scan /\ (Queued(s) \/ Busy)
    BY QueuedCount DEF TypeOK, ScanNotForgotten
  <1>2. SUFFICES \A s \in scans' : Queued(s)' \/ Busy'
    BY QueuedCountNext DEF TypeOK, ScanNotForgotten
  <1>3. later \in [Scan -> Nat]
    BY MasterAssumption DEF TypeOK
  <1>4. CASE UNCHANGED <<place, ready, later>> /\ scans' \subseteq scans
    BY <1>1, <1>4 DEF Running
  <1>5. ASSUME NEW p \in Processor, Reschedule PROVE \A s \in scans' : Queued(s)'
    BY <1>5, RescheduleQueues
  \* A queue that only grows.
  <1>6. ASSUME NEW t \in Task, ready' = Append(ready, t), UNCHANGED place,
               scans' \subseteq scans \cup {t},
               \A s \in Scan : s # t => later'[s] = later[s]
        PROVE  \A s \in scans' : Queued(s)' \/ Busy'
    <2>1. \A s \in Scan : Has(ready, {s}) \/ s = t => Has(ready', {s})
      BY <1>6, AppendHas DEF TypeOK
    <2>2. Busy' <=> Busy
      BY <1>6 DEF Running
    <2>3. scans' \subseteq Scan
      BY DEF TypeOK
    <2> QED
      BY <1>1, <1>6, <2>1, <2>2, <2>3
  <1>7. ASSUME NEW p \in Processor, place'[p] \in {"sending", "waiting"} PROVE Busy'
    BY <1>7 DEF Running
  <1>8. CASE Enable
    <2>1. PICK p \in Processor : place[p] = "off" /\ place' = [place EXCEPT ![p] = "idle"]
      BY <1>8 DEF Enable
    <2>2. Busy => Busy'
      BY <2>1 DEF TypeOK, Running
    <2>3. UNCHANGED <<ready, later, scans>>
      BY <1>8 DEF Enable, queueVars, scanVars
    <2> QED
      BY <1>1, <2>2, <2>3
  <1>9. CASE Disable \/ Shutdown \/ ShutdownReturns
    BY <1>4, <1>9 DEF Disable, Shutdown, ShutdownReturns, queueVars, scanVars
  <1>10. ASSUME NEW s \in Scan, AddScan(s) PROVE \A r \in scans' : Queued(r)' \/ Busy'
    BY <1>6, <1>10, Kinds DEF AddScan
  <1>11. ASSUME NEW s \in Scan, RemoveScan(s) \/ DemandScan(s)
         PROVE  \A r \in scans' : Queued(r)' \/ Busy'
    BY <1>4, <1>11 DEF RemoveScan, DemandScan, queueVars
  <1>12. ASSUME NEW s \in Scan, Due(s) PROVE \A r \in scans' : Queued(r)' \/ Busy'
    BY <1>3, <1>6, <1>12, Kinds DEF Due, scanVars
  <1>13. CASE ScanOnce
    BY <1>6, <1>13, Kinds DEF ScanOnce, scanVars
  <1>14. ASSUME NEW c \in Command, Operate(c) PROVE \A r \in scans' : Queued(r)' \/ Busy'
    BY <1>6, <1>14, Kinds DEF Operate, scanVars
  <1>15. ASSUME NEW c \in Command, OperateReturns(c) \/ OperateTimesOut(c)
         PROVE  \A r \in scans' : Queued(r)' \/ Busy'
    BY <1>4, <1>15 DEF OperateReturns, OperateTimesOut, Return, queueVars, scanVars
  <1>16. ASSUME NEW p \in Processor, TakeTask(p) PROVE \A r \in scans' : Queued(r)' \/ Busy'
    <2>1. place'[p] = "sending"
      BY <1>16 DEF TakeTask, Begin, TypeOK
    <2> QED
      BY <1>7, <2>1
  <1>17. ASSUME NEW p \in Processor, ProcessorEnds(p)
         PROVE  \A r \in scans' : Queued(r)' \/ Busy'
    <2>1. Busy => Busy'
      BY <1>17 DEF ProcessorEnds, TypeOK, Running
    <2>2. UNCHANGED <<ready, later, scans>>
      BY <1>17 DEF ProcessorEnds, queueVars, scanVars
    <2> QED
      BY <1>1, <2>1, <2>2
  <1>18. ASSUME NEW p \in Processor, Send(p) PROVE \A r \in scans' : Queued(r)' \/ Busy'
    <2>1. place'[p] = "waiting"
      BY <1>18 DEF Send, TypeOK
    <2> QED
      BY <1>7, <2>1
  <1>19. ASSUME NEW p \in Processor, TaskFails(p) PROVE \A r \in scans' : Queued(r)' \/ Busy'
    BY <1>5, <1>19 DEF TaskFails
  <1>20. ASSUME NEW p \in Processor, TakeResponse(p)
         PROVE  \A r \in scans' : Queued(r)' \/ Busy'
    <2>1. CASE Reschedule
      BY <1>5, <2>1
    <2>2. CASE ~Reschedule
      <3>1. place'[p] = "sending"
        BY <1>20, <2>2 DEF TakeResponse, TypeOK
      <3> QED
        BY <1>7, <3>1
    <2> QED
      BY <2>1, <2>2
  <1>21. CASE OnReceiveAPDU \/ OutstationAnswers \/ OutstationSpeaks \/ LoseRequest \/ LoseResponse
    BY <1>4, <1>21
    DEF OnReceiveAPDU, OutstationAnswers, OutstationSpeaks, LoseRequest, LoseResponse,
        queueVars, scanVars
  <1>22. CASE UNCHANGED vars
    BY <1>4, <1>22 DEF vars, queueVars, scanVars
  <1> QED
    BY <1>8, <1>9, <1>10, <1>11, <1>12, <1>13, <1>14, <1>15, <1>16, <1>17, <1>18, <1>19,
       <1>20, <1>21, <1>22 DEF Next, Process

\* A scan that was added and not removed is queued, or some task is running whose end
\* will queue it, for any number of processors, whatever fails or is lost.
THEOREM ScansAreKept == Spec => []ScanNotForgotten
  <1>1. Init => ScanNotForgotten
    BY DEF Init, ScanNotForgotten
  <1>2. TypeOK /\ TypeOK' /\ ScanNotForgotten /\ [Next]_vars => ScanNotForgotten'
    BY ForgottenStep
  <1> QED
    BY <1>1, <1>2, TypeCorrect, PTL DEF Spec

-----------------------------------------------------------------------------
(* No command is executed twice.                                           *)

Asking(c) == {r \in Request : Operates(r) /\ r.task = c}
Asked(c) == Has(toOutstation, Asking(c))
Begun(c) == \E p \in Processor : job[p].task = c

\* A command that was not called is nowhere; one that is queued has not been begun; a
\* request that is yet to be sent, or that only selects, has not been heard of; and
\* what was asked once has not been executed.
CommandInv(c) ==
    /\ told[c] = "idle" => ~Has(ready, {c}) /\ ~Begun(c) /\ ~Asked(c) /\ executed[c] = 0
    /\ OnceIn(ready, {c})
    /\ Has(ready, {c}) => ~Begun(c) /\ ~Asked(c) /\ executed[c] = 0
    /\ \A p, q \in Processor : job[p].task = c /\ job[q].task = c => p = q
    /\ \A p \in Processor :
        job[p].task = c /\ (place[p] = "sending" \/ job[p].phase = "select") =>
            ~Asked(c) /\ executed[c] = 0
    /\ OnceIn(toOutstation, Asking(c))
    /\ Asked(c) => executed[c] = 0
    /\ executed[c] <= 1

CommandsInv == \A c \in Command : CommandInv(c)

\* What moves a command nowhere new.
LEMMA Calm ==
    ASSUME NEW c \in Command, CommandInv(c),
           told'[c] = "idle" => told[c] = "idle",
           Has(ready', {c}) => Has(ready, {c}),
           OnceIn(ready', {c}),
           \A p \in Processor : job'[p].task = c =>
                /\ job[p].task = c
                /\ (place'[p] = "sending" \/ job'[p].phase = "select") =>
                        (place[p] = "sending" \/ job[p].phase = "select"),
           Has(toOutstation', Asking(c)) => Has(toOutstation, Asking(c)),
           OnceIn(toOutstation', Asking(c)),
           executed'[c] = executed[c]
    PROVE  CommandInv(c)'
  BY DEF CommandInv, Begun, Asked

LEMMA CommandStep ==
    ASSUME TypeOK, NEW c \in Command, CommandInv(c), [Next]_vars
    PROVE  CommandInv(c)'
  <1>1. OnceIn(ready, {c}) /\ OnceIn(toOutstation, Asking(c))
    BY DEF CommandInv
  <1>2. c \notin Scan /\ c # Once /\ c # None /\ c \in Task
    BY MasterAssumption DEF Task
  \* The queue grows by another task.
  <1>3. ASSUME NEW t \in Task, t # c, ready' = Append(ready, t),
               UNCHANGED <<place, job, told, toOutstation, executed>>
        PROVE  CommandInv(c)'
    <2>1. ready \in Seq(Task)
      BY DEF TypeOK
    <2>2. OnceIn(ready', {c}) /\ (Has(ready', {c}) => Has(ready, {c}))
      BY <1>1, <1>3, <2>1, AppendHas
    <2> QED
      BY <1>1, <1>3, <2>2, Calm
  <1>4. CASE UNCHANGED <<ready, job, toOutstation, executed>> /\ UNCHANGED <<told, place>>
    BY <1>1, <1>4, Calm
  <1>5. CASE Enable
    <2>1. UNCHANGED <<ready, job, told, toOutstation, executed>>
      BY <1>5 DEF Enable, queueVars, wireVars
    <2>2. \A p \in Processor : place'[p] = "sending" => place[p] = "sending"
      BY <1>5 DEF Enable, TypeOK
    <2> QED
      BY <1>1, <2>1, <2>2, Calm
  <1>6. CASE Disable \/ Shutdown \/ ShutdownReturns
    BY <1>4, <1>6 DEF Disable, Shutdown, ShutdownReturns, queueVars, wireVars
  <1>7. ASSUME NEW s \in Scan, AddScan(s) \/ Due(s) PROVE CommandInv(c)'
    BY <1>2, <1>3, <1>7, Kinds DEF AddScan, Due, wireVars
  <1>8. ASSUME NEW s \in Scan, RemoveScan(s) \/ DemandScan(s) PROVE CommandInv(c)'
    BY <1>4, <1>8 DEF RemoveScan, DemandScan, queueVars, wireVars
  <1>9. CASE ScanOnce
    BY <1>2, <1>3, <1>9, Kinds DEF ScanOnce, wireVars
  <1>10. ASSUME NEW d \in Command, Operate(d) PROVE CommandInv(c)'
    <2>1. /\ told[d] = "idle" /\ told' = [told EXCEPT ![d] = "waiting"]
          /\ ready' = Append(ready, d) /\ UNCHANGED <<place, job, toOutstation, executed>>
      BY <1>10 DEF Operate, wireVars
    <2>2. d \in Task /\ ready \in Seq(Task) /\ told'[d] = "waiting"
          /\ (d # c => told'[c] = told[c])
      BY <2>1, Kinds DEF TypeOK
    <2>3. CASE d # c
      <3>1. OnceIn(ready', {c}) /\ (Has(ready', {c}) => Has(ready, {c}))
        BY <1>1, <2>1, <2>2, <2>3, AppendHas
      <3> QED
        BY <1>1, <2>1, <2>2, <2>3, <3>1, Calm
    <2>4. CASE d = c
      <3>1. ~Has(ready, {c}) /\ ~Begun(c) /\ ~Asked(c) /\ executed[c] = 0
        BY <2>1, <2>4 DEF CommandInv
      <3>2. OnceIn(ready', {c})
        BY <1>1, <2>1, <2>2, <2>4, <3>1, AppendHas
      <3> QED
        BY <2>1, <2>2, <2>4, <3>1, <3>2 DEF CommandInv, Begun, Asked
    <2> QED
      BY <2>3, <2>4
  <1>11. ASSUME NEW d \in Command, OperateReturns(d) \/ OperateTimesOut(d)
         PROVE  CommandInv(c)'
    <2>1. UNCHANGED <<ready, place, job, toOutstation, executed>>
      BY <1>11 DEF OperateReturns, OperateTimesOut, Return, queueVars, wireVars
    <2>2. told'[c] = "idle" => told[c] = "idle"
      BY <1>11 DEF OperateReturns, OperateTimesOut, Return, TypeOK
    <2> QED
      BY <1>1, <2>1, <2>2, Calm
  <1>12. ASSUME NEW p \in Processor, TakeTask(p) PROVE CommandInv(c)'
    <2> DEFINE t == Head(ready)
    <2>1. /\ place[p] = "idle" /\ ready # <<>> /\ ready' = Tail(ready)
          /\ place' = [place EXCEPT ![p] = "sending"]
          /\ job' = [job EXCEPT ![p] = [task |-> t, phase |-> FirstPhase(t)]]
          /\ UNCHANGED <<told, toOutstation, executed>>
      BY <1>12 DEF TakeTask, Begin, wireVars
    <2>2. /\ Has(ready, {c}) <=> Has(ready', {c}) \/ t = c
          /\ OnceIn(ready', {c})
          /\ t = c => ~Has(ready', {c})
      BY <1>1, <2>1, TailHas DEF TypeOK
    <2> HIDE DEF t
    <2>3. /\ job'[p].task = t /\ place'[p] = "sending"
          /\ \A q \in Processor : q # p => job'[q] = job[q] /\ place'[q] = place[q]
      BY <2>1 DEF TypeOK
    <2>4. CASE t # c
      BY <1>1, <2>1, <2>2, <2>3, <2>4, Calm
    <2>5. CASE t = c
      <3>1. told[c] # "idle" /\ ~Begun(c) /\ ~Asked(c) /\ executed[c] = 0
        BY <2>2, <2>5 DEF CommandInv
      <3>2. \A q \in Processor : job'[q].task = c => q = p
        BY <2>3, <3>1 DEF Begun
      <3> QED
        BY <1>1, <2>1, <2>2, <2>5, <3>1, <3>2 DEF CommandInv, Asked
    <2> QED
      BY <2>4, <2>5
  <1>13. ASSUME NEW p \in Processor, ProcessorEnds(p) PROVE CommandInv(c)'
    <2>1. UNCHANGED <<ready, job, told, toOutstation, executed>>
      BY <1>13 DEF ProcessorEnds, queueVars, wireVars
    <2>2. \A q \in Processor : place'[q] = "sending" => place[q] = "sending"
      BY <1>13 DEF ProcessorEnds, TypeOK
    <2> QED
      BY <1>1, <2>1, <2>2, Calm
  <1>14. ASSUME NEW p \in Processor, Send(p) PROVE CommandInv(c)'
    <2>1. /\ place[p] = "sending" /\ toOutstation' = Append(toOutstation, job[p])
          /\ place' = [place EXCEPT ![p] = "waiting"]
          /\ UNCHANGED <<ready, job, told, executed>>
      BY <1>14 DEF Send, queueVars
    <2>2. job[p] \in Request /\ toOutstation \in Seq(Request)
      BY <2>1 DEF TypeOK, Running
    <2>3. place'[p] = "waiting" /\ \A q \in Processor : q # p => place'[q] = place[q]
      BY <2>1 DEF TypeOK
    <2>4. CASE job[p] \notin Asking(c)
      <3>1. /\ OnceIn(toOutstation', Asking(c))
            /\ Has(toOutstation', Asking(c)) => Has(toOutstation, Asking(c))
        BY <1>1, <2>1, <2>2, <2>4, AppendHas
      <3> QED
        BY <1>1, <2>1, <2>3, <3>1, Calm
    <2>5. CASE job[p] \in Asking(c)
      <3>1. job[p].task = c /\ job[p].phase # "select"
        BY <2>5 DEF Asking, Operates
      <3>2. Begun(c)
        BY <3>1 DEF Begun
      <3>3. told[c] # "idle" /\ ~Has(ready, {c}) /\ ~Asked(c) /\ executed[c] = 0
        BY <2>1, <3>1, <3>2 DEF CommandInv
      <3>4. OnceIn(toOutstation', Asking(c))
        BY <1>1, <2>1, <2>2, <3>3, AppendHas DEF Asked
      <3>5. \A q \in Processor : job[q].task = c => q = p
        BY <3>1 DEF CommandInv
      <3> QED
        BY <1>1, <2>1, <2>3, <3>1, <3>3, <3>4, <3>5 DEF CommandInv
    <2> QED
      BY <2>4, <2>5
  \* The end of a task.
  <1>15. ASSUME NEW p \in Processor, NEW outcome, TaskEnds(p, outcome), Reschedule,
                UNCHANGED toOutstation
         PROVE  CommandInv(c)'
    <2>1. {c} \cap Scan = {}
      BY <1>2
    <2>2. OnceIn(ready', {c}) /\ (Has(ready', {c}) => Has(ready, {c}))
      BY <1>1, <1>15, <2>1, RescheduleQueues
    <2>3. UNCHANGED <<told, executed>>
      BY <1>15 DEF TaskEnds
    <2>4. /\ job'[p].task = None
          /\ \A q \in Processor : q # p => job'[q] = job[q] /\ place'[q] = place[q]
      BY <1>15 DEF TaskEnds, TypeOK, NoJob
    <2> QED
      BY <1>1, <1>2, <1>15, <2>2, <2>3, <2>4, Calm
  <1>16. ASSUME NEW p \in Processor, TaskFails(p) PROVE CommandInv(c)'
    BY <1>15, <1>16 DEF TaskFails, wireVars
  <1>17. ASSUME NEW p \in Processor, TakeResponse(p) PROVE CommandInv(c)'
    <2>1. UNCHANGED toOutstation
      BY <1>17 DEF TakeResponse, wireVars
    <2>2. CASE job[p].phase = "select" /\ pendingResp.ok
      <3>1. /\ job' = [job EXCEPT ![p] = [job[p] EXCEPT !.phase = "operate"]]
            /\ place' = [place EXCEPT ![p] = "sending"]
            /\ UNCHANGED <<ready, told, executed>>
        BY <1>17, <2>2 DEF TakeResponse, queueVars
      <3>2. job[p] \in Request
        BY <1>17 DEF TakeResponse, TypeOK, Running
      <3>3. /\ job'[p].task = job[p].task
            /\ \A q \in Processor : q # p => job'[q] = job[q] /\ place'[q] = place[q]
        BY <3>1, <3>2 DEF TypeOK, Request
      <3> QED
        BY <1>1, <2>1, <2>2, <3>1, <3>3, Calm
    <2>3. CASE ~(job[p].phase = "select" /\ pendingResp.ok)
      <3>1. TaskEnds(p, IF pendingResp.ok THEN "ok" ELSE "refused") /\ Reschedule
        BY <1>17, <2>3 DEF TakeResponse
      <3> QED
        BY <1>15, <2>1, <3>1
    <2> QED
      BY <2>2, <2>3
  <1>18. CASE OnReceiveAPDU \/ OutstationSpeaks \/ LoseResponse
    BY <1>4, <1>18 DEF OnReceiveAPDU, OutstationSpeaks, LoseResponse, queueVars
  <1>19. CASE OutstationAnswers
    <2> DEFINE r == Head(toOutstation)
    <2>1. /\ toOutstation # <<>> /\ toOutstation' = Tail(toOutstation)
          /\ UNCHANGED <<ready, place, job, told>>
      BY <1>19 DEF OutstationAnswers, queueVars
    <2>2. /\ r \in Request
          /\ Has(toOutstation, Asking(c)) <=> Has(toOutstation', Asking(c)) \/ r \in Asking(c)
          /\ OnceIn(toOutstation', Asking(c))
          /\ r \in Asking(c) => ~Has(toOutstation', Asking(c))
      BY <1>1, <2>1, TailHas DEF TypeOK
    <2>3. executed'[c] = executed[c] \/ (r \in Asking(c) /\ executed'[c] = executed[c] + 1)
      BY <1>19, <2>2 DEF OutstationAnswers, Asking, TypeOK
    <2> HIDE DEF r
    <2>4. CASE executed'[c] = executed[c]
      BY <1>1, <2>1, <2>2, <2>4, Calm
    <2>5. CASE r \in Asking(c) /\ executed'[c] = executed[c] + 1
      <3>1. Asked(c)
        BY <2>2, <2>5 DEF Asked
      <3>2. /\ told[c] # "idle" /\ ~Has(ready, {c}) /\ executed[c] = 0
            /\ \A p \in Processor : job[p].task = c =>
                    ~(place[p] = "sending" \/ job[p].phase = "select")
        BY <3>1 DEF CommandInv
      <3>3. executed'[c] = 1
        BY <2>5, <3>2
      <3> QED
        BY <2>1, <2>2, <2>5, <3>2, <3>3 DEF CommandInv, Asked
    <2> QED
      BY <2>3, <2>4, <2>5
  <1>20. CASE LoseRequest
    <2>1. /\ toOutstation # <<>> /\ toOutstation' = Tail(toOutstation)
          /\ UNCHANGED <<ready, place, job, told, executed>>
      BY <1>20 DEF LoseRequest, queueVars
    <2>2. /\ Has(toOutstation', Asking(c)) => Has(toOutstation, Asking(c))
          /\ OnceIn(toOutstation', Asking(c))
      BY <1>1, <2>1, TailHas DEF TypeOK
    <2> QED
      BY <1>1, <2>1, <2>2, Calm
  <1>21. CASE UNCHANGED vars
    BY <1>4, <1>21 DEF vars, queueVars, wireVars
  <1> QED
    BY <1>5, <1>6, <1>7, <1>8, <1>9, <1>10, <1>11, <1>12, <1>13, <1>14, <1>16, <1>17, <1>18,
       <1>19, <1>20, <1>21 DEF Next, Process

LEMMA CommandsInit == Init => CommandsInv
  <1> SUFFICES ASSUME Init, NEW c \in Command PROVE CommandInv(c)
    BY DEF CommandsInv
  <1>1. DOMAIN ready = {} /\ DOMAIN toOutstation = {}
    BY DEF Init
  <1>2. \A p \in Processor : job[p].task # c
    BY MasterAssumption DEF Init, NoJob, Task
  <1>3. executed[c] = 0
    BY DEF Init
  <1> QED
    BY <1>1, <1>2, <1>3 DEF CommandInv, Has, OnceIn, Asked, Begun

\* No command is executed twice by the outstation: for any number of commands and of
\* processors, however their requests are queued, sent, lost and answered late.
THEOREM CommandsAreOnce == Spec => []CommandOnce
  <1>1. TypeOK /\ CommandsInv /\ [Next]_vars => CommandsInv'
    BY CommandStep DEF CommandsInv
  <1>2. CommandsInv => CommandOnce
    BY DEF CommandsInv, CommandInv, CommandOnce
  <1> QED
    BY <1>1, <1>2, CommandsInit, TypeCorrect, PTL DEF Spec
-----------------------------------------------------------------------------
(* A response meets its request.                                           *)

\* The response r tells the truth about what p has asked for.
Bringing(p, r) ==
    r.ok /\ Operates(job[p]) => \A c \in Command : job[p].task = c => executed[c] >= 1

NothingOnItsWay == toOutstation = <<>> /\ toMaster = <<>> /\ pendingResp = Empty

\* The one message there is belongs to the request of p: the request itself, the
\* response on its way, or the response in pendingResp, if it was not lost.
Awaits(p) ==
    /\ place[p] = "waiting"
    /\ \/ toOutstation = <<job[p]>> /\ toMaster = <<>> /\ pendingResp = Empty
       \/ /\ toOutstation = <<>> /\ pendingResp = Empty
          /\ \E r \in Response : toMaster = <<r>> /\ Bringing(p, r)
       \/ toOutstation = <<>> /\ toMaster = <<>> /\ Bringing(p, pendingResp)

OneWaits ==
    \A p, q \in Processor : place[p] = "waiting" /\ place[q] = "waiting" => p = q

OkIsExecuted == \A c \in Command : result[c] = "ok" \/ told[c] = "ok" => executed[c] >= 1

NoCommandReads == \A p \in Processor : job[p].task \in Command => job[p].phase # "read"

MatchInv ==
    /\ NoCommandReads
    /\ ~mixed => OneWaits /\ (NothingOnItsWay \/ \E p \in Processor : Awaits(p)) /\ OkIsExecuted

LEMMA MatchInit == Init => MatchInv
  BY MasterAssumption
  DEF Init, MatchInv, NoCommandReads, NoJob, Task, OneWaits, NothingOnItsWay, OkIsExecuted

\* A command is never a read.
LEMMA CommandsDoNotRead ==
    ASSUME NEW t \in Task, t \in Command
    PROVE  FirstPhase(t) # "read"
  BY MasterAssumption DEF FirstPhase, Task

LEMMA NoCommandReadsStep ==
    ASSUME TypeOK, NoCommandReads, [Next]_vars
    PROVE  NoCommandReads'
  <1>1. CASE UNCHANGED job
    BY <1>1 DEF NoCommandReads
  <1>2. CASE \/ Enable \/ Disable \/ Shutdown \/ ShutdownReturns \/ ScanOnce
             \/ \E s \in Scan : AddScan(s) \/ RemoveScan(s) \/ DemandScan(s) \/ Due(s)
             \/ \E c \in Command : Operate(c) \/ OperateReturns(c) \/ OperateTimesOut(c)
             \/ OnReceiveAPDU \/ OutstationAnswers \/ OutstationSpeaks \/ LoseRequest
             \/ LoseResponse \/ UNCHANGED vars
    BY <1>1, <1>2
    DEF Enable, Disable, Shutdown, ShutdownReturns, ScanOnce, AddScan, RemoveScan, DemandScan,
        Due, Operate, OperateReturns, OperateTimesOut, Return, OnReceiveAPDU,
        OutstationAnswers, OutstationSpeaks, LoseRequest, LoseResponse, vars
  <1>3. ASSUME NEW p \in Processor, TakeTask(p) PROVE NoCommandReads'
    <2> DEFINE t == Head(ready)
    <2>1. t \in Task /\ job' = [job EXCEPT ![p] = [task |-> t, phase |-> FirstPhase(t)]]
      BY <1>3 DEF TakeTask, Begin, TypeOK
    <2> HIDE DEF t
    <2>2. t \in Command => FirstPhase(t) # "read"
      BY <2>1, CommandsDoNotRead
    <2> QED
      BY <2>1, <2>2 DEF NoCommandReads, TypeOK
  <1>4. ASSUME NEW p \in Processor, ProcessorEnds(p) \/ Send(p) PROVE NoCommandReads'
    BY <1>1, <1>4 DEF ProcessorEnds, Send
  <1>5. ASSUME NEW p \in Processor, job' = [job EXCEPT ![p] = NoJob] PROVE NoCommandReads'
    <2>1. NoJob.task \notin Command
      BY MasterAssumption DEF NoJob, Task
    <2> QED
      BY <1>5, <2>1 DEF NoCommandReads, TypeOK
  <1>6. ASSUME NEW p \in Processor, TaskFails(p) PROVE NoCommandReads'
    BY <1>5, <1>6 DEF TaskFails, TaskEnds
  <1>7. ASSUME NEW p \in Processor, TakeResponse(p) PROVE NoCommandReads'
    <2>1. job[p] \in Request
      BY <1>7 DEF TakeResponse, TypeOK, Running
    <2>2. \/ job' = [job EXCEPT ![p] = NoJob]
          \/ job' = [job EXCEPT ![p] = [job[p] EXCEPT !.phase = "operate"]]
      BY <1>7 DEF TakeResponse, TaskEnds
    <2>3. [job[p] EXCEPT !.phase = "operate"].phase = "operate"
      BY <2>1 DEF Request
    <2> QED
      BY <1>5, <2>2, <2>3 DEF NoCommandReads, TypeOK
  <1> QED
    BY <1>2, <1>3, <1>4, <1>6, <1>7 DEF Next, Process

\* A step that leaves alone what is on its way and who waits for it.
LEMMA AsideMatch ==
    ASSUME MatchInv, NoCommandReads', mixed => mixed',
           UNCHANGED <<toOutstation, toMaster, pendingResp, executed>>,
           \A p \in Processor : place'[p] = "waiting" <=> place[p] = "waiting",
           \A p \in Processor : place[p] = "waiting" => job'[p] = job[p],
           \A c \in Command : result'[c] = "ok" \/ told'[c] = "ok" =>
                                    result[c] = "ok" \/ told[c] = "ok"
    PROVE  MatchInv'
  <1> SUFFICES ASSUME ~mixed'
               PROVE  /\ OneWaits'
                      /\ NothingOnItsWay' \/ \E p \in Processor : Awaits(p)'
                      /\ OkIsExecuted'
    BY DEF MatchInv
  <1>1. OneWaits /\ (NothingOnItsWay \/ \E p \in Processor : Awaits(p)) /\ OkIsExecuted
    BY DEF MatchInv
  <1>2. OneWaits' /\ OkIsExecuted'
    BY <1>1 DEF OneWaits, OkIsExecuted
  <1>3. NothingOnItsWay => NothingOnItsWay'
    BY DEF NothingOnItsWay
  <1>4. ASSUME NEW p \in Processor, Awaits(p) PROVE Awaits(p)'
    <2>1. place'[p] = "waiting" /\ job'[p] = job[p]
      BY <1>4 DEF Awaits
    <2> QED
      BY <1>4, <2>1 DEF Awaits, Bringing, Operates
  <1> QED
    BY <1>1, <1>2, <1>3, <1>4

\* The end of the task of p, when nothing is on its way any more.
LEMMA EndMatch ==
    ASSUME TypeOK, MatchInv, NoCommandReads', ~mixed, NEW p \in Processor, NEW outcome,
           TaskEnds(p, outcome), OneWaits',
           NothingOnItsWay' \/ \E q \in Processor : Awaits(q)',
           \A c \in Command : job[p].task = c /\ outcome = "ok" => executed[c] >= 1
    PROVE  MatchInv'
  <1>1. \A c \in Command : result'[c] = "ok" =>
            result[c] = "ok" \/ (job[p].task = c /\ outcome = "ok")
    BY DEF TaskEnds
  <1>2. UNCHANGED <<told, executed>>
    BY DEF TaskEnds
  <1>3. OkIsExecuted'
    BY <1>1, <1>2 DEF MatchInv, OkIsExecuted
  <1> QED
    BY <1>3 DEF MatchInv

LEMMA MatchStep ==
    ASSUME TypeOK, MatchInv, NoCommandReads', [Next]_vars
    PROVE  MatchInv'
  <1>1. CASE \/ Disable \/ Shutdown \/ ShutdownReturns \/ ScanOnce
             \/ \E s \in Scan : AddScan(s) \/ RemoveScan(s) \/ DemandScan(s) \/ Due(s)
             \/ UNCHANGED vars
    <2>1. UNCHANGED <<toOutstation, toMaster, pendingResp, executed, place, job, result, told,
                      mixed>>
      BY <1>1
      DEF Disable, Shutdown, ShutdownReturns, ScanOnce, AddScan, RemoveScan, DemandScan, Due,
          vars, wireVars
    <2> QED
      BY <2>1, AsideMatch
  <1>2. CASE Enable
    <2>1. UNCHANGED <<toOutstation, toMaster, pendingResp, executed, job, result, told, mixed>>
      BY <1>2 DEF Enable, wireVars
    <2>2. \A p \in Processor : place'[p] = "waiting" <=> place[p] = "waiting"
      BY <1>2 DEF Enable, TypeOK
    <2> QED
      BY <2>1, <2>2, AsideMatch
  <1>3. ASSUME NEW c \in Command, Operate(c) \/ OperateReturns(c) \/ OperateTimesOut(c)
        PROVE  MatchInv'
    <2>1. UNCHANGED <<toOutstation, toMaster, pendingResp, executed, place, job, mixed>>
      BY <1>3 DEF Operate, OperateReturns, OperateTimesOut, Return, wireVars
    <2>2. ASSUME NEW d \in Command, result'[d] = "ok" \/ told'[d] = "ok"
          PROVE  result[d] = "ok" \/ told[d] = "ok"
      BY <1>3, <2>2 DEF Operate, OperateReturns, OperateTimesOut, Return, TypeOK
    <2> QED
      BY <2>1, <2>2, AsideMatch
  <1>4. ASSUME NEW p \in Processor, TakeTask(p) PROVE MatchInv'
    <2>1. /\ UNCHANGED <<toOutstation, toMaster, pendingResp, executed, result, told, mixed>>
          /\ place[p] = "idle" /\ place' = [place EXCEPT ![p] = "sending"]
          /\ \A q \in Processor : q # p => job'[q] = job[q]
      BY <1>4 DEF TakeTask, Begin, wireVars, TypeOK
    <2>2. \A q \in Processor : place'[q] = "waiting" <=> place[q] = "waiting"
      BY <2>1 DEF TypeOK
    <2> QED
      BY <2>1, <2>2, AsideMatch
  <1>5. ASSUME NEW p \in Processor, ProcessorEnds(p) PROVE MatchInv'
    <2>1. UNCHANGED <<toOutstation, toMaster, pendingResp, executed, job, result, told, mixed>>
      BY <1>5 DEF ProcessorEnds, wireVars
    <2>2. \A q \in Processor : place'[q] = "waiting" <=> place[q] = "waiting"
      BY <1>5 DEF ProcessorEnds, TypeOK
    <2> QED
      BY <2>1, <2>2, AsideMatch
  <1>6. ASSUME NEW p \in Processor, Send(p) PROVE MatchInv'
    <2>1. /\ place[p] = "sending" /\ place' = [place EXCEPT ![p] = "waiting"]
          /\ toOutstation' = Append(toOutstation, job[p])
          /\ UNCHANGED <<job, toMaster, pendingResp, executed, result, told>>
          /\ mixed' = (mixed \/ \E q \in Processor \ {p} : Running(q))
      BY <1>6 DEF Send
    <2> SUFFICES ASSUME ~mixed'
                 PROVE  OneWaits' /\ Awaits(p)' /\ OkIsExecuted'
      BY DEF MatchInv
    <2>2. ~mixed /\ \A q \in Processor : q # p => place[q] # "waiting"
      BY <2>1 DEF Running, TypeOK
    <2>3. OneWaits'
      BY <2>1, <2>2 DEF OneWaits, TypeOK
    <2>4. NothingOnItsWay
      BY <2>1, <2>2 DEF MatchInv, Awaits
    <2>5. toOutstation' = <<job[p]>>
      BY <2>1, <2>4 DEF NothingOnItsWay
    <2>6. Awaits(p)'
      BY <2>1, <2>4, <2>5 DEF Awaits, NothingOnItsWay, TypeOK
    <2> QED
      BY <2>1, <2>2, <2>3, <2>6 DEF MatchInv, OkIsExecuted
  <1>7. ASSUME NEW p \in Processor, TaskFails(p) PROVE MatchInv'
    <2>1. /\ UNCHANGED <<pendingResp, toOutstation, toMaster>>
          /\ TaskEnds(p, "failed")
          /\ \/ place[p] = "sending" /\ UNCHANGED mixed
             \/ /\ place[p] = "waiting"
                /\ mixed' = (mixed \/ toOutstation # <<>> \/ toMaster # <<>>
                                   \/ pendingResp # Empty)
      BY <1>7 DEF TaskFails, wireVars
    <2>2. CASE mixed'
      BY <2>2 DEF MatchInv
    <2>3. CASE ~mixed'
      <3>0. ~mixed
        BY <2>1, <2>3
      <3>1. ~mixed /\ OneWaits /\ (NothingOnItsWay \/ \E q \in Processor : Awaits(q))
        BY <3>0 DEF MatchInv
      <3>2. \A q \in Processor : /\ place'[q] = "waiting" => place[q] = "waiting" /\ q # p
                                 /\ q # p => place'[q] = place[q] /\ job'[q] = job[q]
        BY <2>1 DEF TaskEnds, TypeOK
      <3>3. OneWaits'
        BY <3>1, <3>2 DEF OneWaits
      <3>4. CASE place[p] = "waiting"
        <4>1. NothingOnItsWay'
          BY <2>1, <2>3, <3>4 DEF NothingOnItsWay
        <4> QED
          BY <2>1, <3>1, <3>3, <4>1, EndMatch
      <3>5. CASE place[p] = "sending"
        <4>1. UNCHANGED executed
          BY <2>1 DEF TaskEnds
        <4>2. ASSUME NEW q \in Processor, Awaits(q) PROVE Awaits(q)'
          <5>1. q # p /\ place'[q] = "waiting" /\ job'[q] = job[q]
            BY <3>2, <3>5, <4>2 DEF Awaits
          <5> QED
            BY <2>1, <4>1, <4>2, <5>1 DEF Awaits, Bringing, Operates
        <4>3. NothingOnItsWay => NothingOnItsWay'
          BY <2>1 DEF NothingOnItsWay
        <4> QED
          BY <2>1, <3>1, <3>3, <4>2, <4>3, EndMatch
      <3> QED
        BY <2>1, <3>4, <3>5
    <2> QED
      BY <2>2, <2>3
  <1>8. ASSUME NEW p \in Processor, TakeResponse(p) PROVE MatchInv'
    <2>1. /\ place[p] = "waiting" /\ pendingResp # Empty /\ pendingResp' = Empty
          /\ UNCHANGED <<toOutstation, toMaster, mixed>>
      BY <1>8 DEF TakeResponse, wireVars
    <2>2. CASE mixed'
      BY <2>2 DEF MatchInv
    <2>3. CASE ~mixed'
      <3>1. ~mixed /\ OneWaits /\ Awaits(p) /\ OkIsExecuted /\ NoCommandReads
        BY <2>1, <2>3 DEF MatchInv, OneWaits, NothingOnItsWay, Awaits
      <3>2. NothingOnItsWay' /\ Bringing(p, pendingResp)
        BY <2>1, <3>1 DEF Awaits, NothingOnItsWay
      <3>3. job[p] \in Request
        BY <2>1 DEF TypeOK, Running
      <3>4. CASE job[p].phase = "select" /\ pendingResp.ok
        <4>1. /\ place' = [place EXCEPT ![p] = "sending"]
              /\ UNCHANGED <<told, result, executed>>
          BY <1>8, <3>4 DEF TakeResponse
        <4>2. OneWaits'
          BY <3>1, <4>1 DEF OneWaits, TypeOK
        <4> QED
          BY <3>1, <3>2, <4>1, <4>2 DEF MatchInv, OkIsExecuted
      <3>5. CASE ~(job[p].phase = "select" /\ pendingResp.ok)
        <4> DEFINE outcome == IF pendingResp.ok THEN "ok" ELSE "refused"
        <4>1. TaskEnds(p, outcome)
          BY <1>8, <3>5 DEF TakeResponse
        <4>2. OneWaits'
          BY <3>1, <4>1 DEF OneWaits, TypeOK, TaskEnds
        <4>3. ASSUME NEW c \in Command, job[p].task = c, outcome = "ok"
              PROVE  executed[c] >= 1
          <5>1. pendingResp.ok
            BY <4>3
          <5>2. job[p].phase \in {"operate", "direct"}
            BY <3>1, <3>3, <3>5, <4>3, <5>1 DEF NoCommandReads, Request, Phase
          <5> QED
            BY <3>2, <4>3, <5>1, <5>2 DEF Bringing, Operates
        <4> HIDE DEF outcome
        <4> QED
          BY <3>1, <3>2, <4>1, <4>2, <4>3, EndMatch
      <3> QED
        BY <3>4, <3>5
    <2> QED
      BY <2>2, <2>3
  \* What the outstation and the channel do.
  <1>9. CASE OnReceiveAPDU
    <2>1. /\ toMaster # <<>> /\ toMaster' = Tail(toMaster)
          /\ pendingResp' = IF pendingResp = Empty THEN Head(toMaster) ELSE pendingResp
          /\ UNCHANGED <<toOutstation, place, job, result, told, executed, mixed>>
      BY <1>9 DEF OnReceiveAPDU
    <2> SUFFICES ASSUME ~mixed
                 PROVE  \E p \in Processor : Awaits(p)'
      BY <2>1 DEF MatchInv, OneWaits, OkIsExecuted
    <2>2. PICK p \in Processor : Awaits(p)
      BY <2>1 DEF MatchInv, NothingOnItsWay
    <2>3. PICK r \in Response : toMaster = <<r>> /\ Bringing(p, r)
      BY <2>1, <2>2 DEF Awaits
    <2>4. toOutstation = <<>> /\ pendingResp = Empty
      BY <2>1, <2>2 DEF Awaits
    <2>5. toMaster' = <<>> /\ pendingResp' = r
      BY <2>1, <2>3, <2>4
    <2>6. Bringing(p, r)'
      BY <2>1, <2>3 DEF Bringing, Operates
    <2> QED
      BY <2>1, <2>2, <2>4, <2>5, <2>6 DEF Awaits, Bringing
  <1>10. CASE OutstationAnswers
    <2>1. /\ toOutstation # <<>> /\ toOutstation' = Tail(toOutstation)
          /\ UNCHANGED <<place, job, result, told, pendingResp>>
      BY <1>10 DEF OutstationAnswers
    <2>2. PICK accepts \in BOOLEAN, inObjects \in BOOLEAN :
            /\ toMaster' = Append(toMaster, [request |-> Head(toOutstation),
                                             ok |-> accepts \/ ~inObjects])
            /\ executed' = [c \in Command |->
                    IF accepts /\ Operates(Head(toOutstation)) /\ Head(toOutstation).task = c
                    THEN executed[c] + 1 ELSE executed[c]]
            /\ mixed' = (mixed \/ ~(accepts \/ inObjects))
      BY <1>10 DEF OutstationAnswers
    <2> SUFFICES ASSUME ~mixed'
                 PROVE  OneWaits' /\ (\E p \in Processor : Awaits(p)') /\ OkIsExecuted'
      BY DEF MatchInv
    <2>3. ~mixed /\ (accepts \/ inObjects)
      BY <2>2
    <2>4. PICK p \in Processor : Awaits(p)
      BY <2>1, <2>3 DEF MatchInv, NothingOnItsWay
    <2>5. /\ toOutstation = <<job[p]>> /\ toMaster = <<>> /\ pendingResp = Empty
          /\ place[p] = "waiting"
      BY <2>1, <2>4 DEF Awaits
    <2>6. Head(toOutstation) = job[p] /\ toOutstation' = <<>>
      BY <2>1, <2>5
    <2>8. [request |-> job[p], ok |-> accepts \/ ~inObjects] \in Response
      BY <2>2 DEF Response, TypeOK
    <2> PICK r \in Response : r = [request |-> job[p], ok |-> accepts \/ ~inObjects]
      BY <2>8
    <2>7. toMaster' = <<r>> /\ r.ok = (accepts \/ ~inObjects)
      BY <2>2, <2>5, <2>6
    <2>9. \A c \in Command : executed[c] \in Nat /\ executed'[c] >= executed[c]
      BY <2>2 DEF TypeOK
    <2>10. Bringing(p, r)'
      <3> SUFFICES ASSUME r.ok, Operates(job[p]), NEW c \in Command, job[p].task = c
                   PROVE  executed'[c] >= 1
        BY <2>1 DEF Bringing, Operates
      <3>1. accepts
        BY <2>3, <2>7
      <3>2. executed'[c] = executed[c] + 1
        BY <2>2, <2>6, <3>1
      <3> QED
        BY <2>9, <3>2
    <2>11. Awaits(p)'
      <3>1. place'[p] = "waiting" /\ toOutstation' = <<>> /\ pendingResp' = Empty
        BY <2>1, <2>5, <2>6
      <3>2. \E x \in Response : toMaster' = <<x>> /\ Bringing(p, x)'
        BY <2>7, <2>10
      <3> QED
        BY <3>1, <3>2 DEF Awaits
    <2>12. OkIsExecuted'
      <3>1. ASSUME NEW c \in Command, executed[c] >= 1 PROVE executed'[c] >= 1
        BY <2>2, <2>9, <3>1
      <3> QED
        BY <2>1, <2>3, <3>1 DEF MatchInv, OkIsExecuted
    <2> QED
      BY <2>1, <2>3, <2>11, <2>12 DEF MatchInv, OneWaits
  <1>11. CASE OutstationSpeaks
    BY <1>11 DEF OutstationSpeaks, MatchInv
  <1>12. CASE LoseRequest
    <2>1. /\ toOutstation # <<>> /\ toOutstation' = Tail(toOutstation)
          /\ UNCHANGED <<place, job, result, told, pendingResp, toMaster, executed, mixed>>
      BY <1>12 DEF LoseRequest
    <2> SUFFICES ASSUME ~mixed PROVE NothingOnItsWay'
      BY <2>1 DEF MatchInv, OneWaits, OkIsExecuted
    <2>2. PICK p \in Processor : Awaits(p)
      BY <2>1 DEF MatchInv, NothingOnItsWay
    <2> QED
      BY <2>1, <2>2 DEF Awaits, NothingOnItsWay
  <1>13. CASE LoseResponse
    <2>1. /\ toMaster # <<>> /\ toMaster' = Tail(toMaster)
          /\ UNCHANGED <<place, job, result, told, pendingResp, toOutstation, executed, mixed>>
      BY <1>13 DEF LoseResponse
    <2> SUFFICES ASSUME ~mixed PROVE NothingOnItsWay'
      BY <2>1 DEF MatchInv, OneWaits, OkIsExecuted
    <2>2. PICK p \in Processor : Awaits(p)
      BY <2>1 DEF MatchInv, NothingOnItsWay
    <2>3. PICK r \in Response : toMaster = <<r>> /\ Bringing(p, r)
      BY <2>1, <2>2 DEF Awaits
    <2>4. toOutstation = <<>> /\ pendingResp = Empty
      BY <2>1, <2>2 DEF Awaits
    <2> QED
      BY <2>1, <2>3, <2>4 DEF NothingOnItsWay
  <1> QED
    BY <1>1, <1>2, <1>3, <1>4, <1>5, <1>6, <1>7, <1>8, <1>9, <1>10, <1>11, <1>12, <1>13
    DEF Next, Process

\* What a caller is told went well was executed, once: as long as no deadline passed
\* with a message on its way, no two requests ran at once, nothing unsolicited came and
\* every refusal was told in objects.  For any number of commands and processors.
THEOREM SuccessIsTrue == Spec => []SuccessIsExecuted
  <1>1. TypeOK /\ MatchInv /\ [Next]_vars => MatchInv'
    BY NoCommandReadsStep, MatchStep DEF MatchInv
  <1>2. TypeOK /\ CommandOnce /\ MatchInv => SuccessIsExecuted
    BY DEF TypeOK, CommandOnce, MatchInv, OkIsExecuted, SuccessIsExecuted
  <1> QED
    BY <1>1, <1>2, MatchInit, TypeCorrect, CommandsAreOnce, PTL DEF Spec
=============================================================================
