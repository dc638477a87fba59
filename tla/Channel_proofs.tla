---------------------------- MODULE Channel_proofs ----------------------------
(***************************************************************************)
(* What holds of a Channel for any set of callers, any capacity of the     *)
(* write queue and any behaviour of the physical channel: every request is *)
(* in one place, and what Write returns is what happened to its frame,     *)
(* step by step as WriteService has it.                                    *)
(***************************************************************************)
EXTENDS Channel, SequenceTheorems, TLAPS

-----------------------------------------------------------------------------
(* The actions that leave a caller's request alone.                        *)

\* Everything the properties of requests speak of.
requestVars == <<queue, phase, answer, calls, reported, current, wire>>

\* The steps of the loops, the router and the connection that touch no request.
Aside ==
    \/ Open \/ Closing \/ Reading \/ SendBreaks \/ StartDraining \/ WriterStops
    \/ \E a \in Address : ReadFrame(a)
    \/ ReadBreaks
    \/ \E op \in {"add", "remove"}, a \in Address : AskSessionChange(op, a)
    \/ ChangeSession
    \/ Connect \/ ConnectNotified \/ ConnectorStops

\* A step of one request.
OfRequest ==
    \/ \E c \in Caller : \/ WriteWhenClosed(c) \/ WriteWhenOpen(c)
                         \/ Enqueue(c) \/ GiveUp(c) \/ WriteReturn(c)
    \/ TakeRequest \/ Send \/ SendRefused \/ SendNotified \/ Drain

\* The steps aside leave all of that unchanged.
LEMMA AsideIsAside == Aside => UNCHANGED requestVars
  BY DEF Aside, requestVars, Open, Closing, CloseBegin, CloseCancel, ClosePhysical,
     PhysicalJoined, CloseReturn, Reading, ReadNotified, ReaderStops, Route, Delivered,
     SendBreaks, StartDraining, WriterStops, ReadFrame, ReadBreaks, AskSessionChange,
     ChangeSession, Connect, ConnectNotified, ConnectorStops, writeVars, writerVars

\* Every other step is a step of one request.
LEMMA NextSplits ==
    Next => Aside \/ OfRequest
  BY DEF Next, Aside, OfRequest, Write, WriteGoesOn, WriteLoop

-----------------------------------------------------------------------------
(* Types.                                                                  *)

\* The part of the type invariant about requests, and the rest.
RequestsOK ==
    /\ queue \in Seq(Caller) /\ Len(queue) <= QueueSize
    /\ phase \in [Caller -> {"idle", "checked", "queued"}]
    /\ answer \in [Caller -> Outcome \cup {"none"}]
    /\ calls \in [Caller -> 0..MaxWrites]
    /\ current \in Caller \cup {Nobody}
    /\ wire \in [Caller -> Seq(0..MaxWrites)]
    /\ reported \in [Caller -> Seq(Outcome)]

RestOK ==
    /\ state \in {"Open", "Closed"}
    /\ cancelled \in BOOLEAN
    /\ writer \in {"off", "idle", "writing", "notifying", "draining"}
    /\ reader \in {"off", "reading", "notifying", "routing", "delivering"}
    /\ target \in Address \cup {Nobody}
    /\ closing \in {"idle", "cancel", "physical", "join", "wait"}
    /\ sessions \subseteq Address
    /\ admin \in [op : {"add", "remove"}, address : Address] \cup {Idle}
    /\ connected \in BOOLEAN /\ physicalClosed \in BOOLEAN
    /\ connector \in {"off", "waiting", "notifying"}
    /\ budget \in Budget

\* The two parts are the whole.
LEMMA TypeParts ==
    (TypeOK <=> RequestsOK /\ RestOK) /\ (TypeOK' <=> RequestsOK' /\ RestOK')
  BY DEF TypeOK, RequestsOK, RestOK

\* Taking from a budget leaves a budget.
LEMMA SpendType ==
    ASSUME budget \in Budget,
           NEW what \in {"frames", "failures", "connects", "sessions", "opens"}, Spend(what)
    PROVE  budget' \in Budget
  BY ChannelAssumption DEF Spend, Budget

\* The steps aside keep the types.
LEMMA AsideType == TypeOK /\ Aside => RestOK'
  <1> SUFFICES ASSUME RestOK, Aside PROVE RestOK'
    BY TypeParts
  <1> USE DEF RestOK, channelVars, routerVars, readerVars, physicalVars, writerVars
  <1>1. CASE Open
    BY <1>1, SpendType DEF Open
  <1>2. CASE Closing
    BY <1>2 DEF Closing, CloseBegin, CloseCancel, ClosePhysical, PhysicalJoined, CloseReturn
  <1>3. CASE Reading
    BY <1>3 DEF Reading, ReadNotified, ReaderStops, Route, Delivered
  <1>4. CASE SendBreaks
    BY <1>4, SpendType, ZenonT(30) DEF SendBreaks
  <1>5. CASE StartDraining \/ WriterStops
    BY <1>5 DEF StartDraining, WriterStops
  <1>6. CASE \E a \in Address : ReadFrame(a)
    BY <1>6, SpendType DEF ReadFrame
  <1>7. CASE ReadBreaks
    BY <1>7, SpendType, ZenonT(30) DEF ReadBreaks
  <1>8. CASE \E op \in {"add", "remove"}, a \in Address : AskSessionChange(op, a)
    BY <1>8, SpendType DEF AskSessionChange
  <1>9. CASE ChangeSession
    BY <1>9 DEF ChangeSession, Idle
  <1>10. CASE Connect
    BY <1>10, SpendType DEF Connect
  <1>11. CASE ConnectNotified \/ ConnectorStops
    BY <1>11 DEF ConnectNotified, ConnectorStops
  <1>12. QED
    BY <1>1, <1>2, <1>3, <1>4, <1>5, <1>6, <1>7, <1>8, <1>9, <1>10, <1>11 DEF Aside

\* Appending to one caller's sequence.
LEMMA AppendOne ==
    ASSUME NEW S, NEW f \in [Caller -> Seq(S)], NEW c \in Caller, NEW e \in S
    PROVE  [f EXCEPT ![c] = Append(@, e)] \in [Caller -> Seq(S)]
  <1>1. Append(f[c], e) \in Seq(S)
    BY AppendProperties
  <1>2. QED
    BY <1>1

\* It touches nothing else but where writeLoop is.
LEMMA RequestRest == RestOK /\ OfRequest => RestOK'
  <1> USE DEF RestOK, channelVars, routerVars, readerVars, physicalVars
  <1>1. ASSUME NEW c \in Caller, WriteWhenClosed(c) \/ WriteWhenOpen(c) \/ Enqueue(c)
                                 \/ GiveUp(c) \/ WriteReturn(c), RestOK
        PROVE  RestOK'
    BY <1>1 DEF WriteWhenClosed, WriteWhenOpen, Enqueue, GiveUp, WriteReturn, writerVars
  <1>2. RestOK /\ (TakeRequest \/ Drain) => RestOK'
    BY DEF TakeRequest, Drain, writerVars
  <1>3. RestOK /\ (Send \/ SendRefused \/ SendNotified) => RestOK'
    BY DEF Send, SendRefused, SendNotified, Finish
  <1>4. QED
    BY <1>1, <1>2, <1>3 DEF OfRequest

\* The steps of a request keep the types.
LEMMA RequestType == RequestsOK /\ OfRequest => RequestsOK'
  <1> SUFFICES ASSUME RequestsOK, OfRequest PROVE RequestsOK'
    OBVIOUS
  <1>1. ASSUME NEW c \in Caller, MayWrite(c) PROVE calls[c] + 1 \in 0..MaxWrites
    BY <1>1, ChannelAssumption DEF MayWrite, RequestsOK
  <1>2. ASSUME NEW c \in Caller, WriteWhenClosed(c) PROVE RequestsOK'
    <2>1. reported' \in [Caller -> Seq(Outcome)]
      BY <1>2, AppendOne DEF WriteWhenClosed, Report, Outcome, RequestsOK
    <2>2. calls' \in [Caller -> 0..MaxWrites]
      BY <1>1, <1>2 DEF WriteWhenClosed, RequestsOK
    <2>3. QED
      BY <1>2, <2>1, <2>2 DEF WriteWhenClosed, RequestsOK, writerVars
  <1>3. ASSUME NEW c \in Caller, WriteWhenOpen(c) PROVE RequestsOK'
    <2>1. calls' \in [Caller -> 0..MaxWrites]
      BY <1>1, <1>3 DEF WriteWhenOpen, RequestsOK
    <2>2. QED
      BY <1>3, <2>1 DEF WriteWhenOpen, RequestsOK, writerVars
  <1>4. ASSUME NEW c \in Caller, Enqueue(c) PROVE RequestsOK'
    <2>1. queue' \in Seq(Caller) /\ Len(queue') <= QueueSize
      BY <1>4, AppendProperties, LenProperties, ChannelAssumption DEF Enqueue, RequestsOK
    <2>2. QED
      BY <1>4, <2>1 DEF Enqueue, RequestsOK, writerVars
  <1>5. ASSUME NEW c \in Caller, GiveUp(c) PROVE RequestsOK'
    <2>1. reported' \in [Caller -> Seq(Outcome)]
      BY <1>5, AppendOne DEF GiveUp, Report, Outcome, RequestsOK
    <2>2. QED
      BY <1>5, <2>1 DEF GiveUp, RequestsOK, writerVars
  <1>6. ASSUME NEW c \in Caller, WriteReturn(c) PROVE RequestsOK'
    <2>1. answer[c] \in Outcome
      BY <1>6 DEF WriteReturn, RequestsOK
    <2>2. reported' \in [Caller -> Seq(Outcome)]
      BY <1>6, <2>1, AppendOne DEF WriteReturn, Report, RequestsOK
    <2>3. QED
      BY <1>6, <2>2 DEF WriteReturn, RequestsOK, writerVars
  <1>7. queue # <<>> => /\ Head(queue) \in Caller /\ Tail(queue) \in Seq(Caller)
                        /\ Len(Tail(queue)) <= QueueSize
    BY HeadTailProperties, LenProperties, ChannelAssumption DEF RequestsOK
  <1>8. CASE TakeRequest
    BY <1>7, <1>8 DEF TakeRequest, Answer, Outcome, RequestsOK
  <1>9. CASE Drain
    BY <1>7, <1>9 DEF Drain, Answer, Outcome, RequestsOK, writerVars
  <1>10. ASSUME NEW o \in Outcome, Finish(o), wire' \in [Caller -> Seq(0..MaxWrites)]
         PROVE  RequestsOK'
    BY <1>10 DEF Finish, Answer, RequestsOK
  <1>11. CASE Send
    <2>1. wire' \in [Caller -> Seq(0..MaxWrites)]
      <3>1. CASE current \in Caller
        <4>1. calls[current] \in 0..MaxWrites
          BY <3>1 DEF RequestsOK
        <4>2. QED
          BY <1>11, <3>1, <4>1, AppendOne DEF Send, RequestsOK
      <3>2. CASE current \notin Caller
        BY <1>11, <3>2 DEF Send, RequestsOK
      <3>3. QED
        BY <3>1, <3>2
    <2>2. QED
      BY <1>10, <1>11, <2>1 DEF Send, Outcome
  <1>12. CASE SendRefused \/ SendNotified
    <2>1. Finish("failed") /\ UNCHANGED wire
      BY <1>12 DEF SendRefused, SendNotified
    <2>2. QED
      BY <1>10, <2>1 DEF Outcome, RequestsOK
  <1>13. QED
    BY <1>2, <1>3, <1>4, <1>5, <1>6, <1>8, <1>9, <1>11, <1>12 DEF OfRequest

\* Every variable of the channel keeps its type; the queue keeps its capacity.
THEOREM TypeCorrect == Spec => []TypeOK
  <1>1. Init => TypeOK
    <2> SUFFICES ASSUME Init PROVE RequestsOK /\ RestOK
      BY TypeParts
    <2>1. RequestsOK
      BY ChannelAssumption DEF Init, RequestsOK
    <2>2. RestOK
      <3>1. budget \in Budget
        BY ChannelAssumption DEF Init, Budget
      <3>2. admin \in [op : {"add", "remove"}, address : Address] \cup {Idle}
        BY DEF Init
      <3>3. QED
        BY <3>1, <3>2 DEF Init, RestOK
    <2>3. QED
      BY <2>1, <2>2
  <1>2. TypeOK /\ [Next]_vars => TypeOK'
    <2> SUFFICES ASSUME TypeOK, [Next]_vars PROVE TypeOK'
      OBVIOUS
    <2>1. CASE Aside
      BY <2>1, AsideIsAside, AsideType, TypeParts DEF requestVars, RequestsOK
    <2>2. CASE UNCHANGED vars
      BY <2>2 DEF vars, channelVars, writeVars, writerVars, readerVars, routerVars,
         physicalVars, TypeOK
    <2>3. CASE OfRequest
      BY <2>3, RequestType, RequestRest, TypeParts
    <2>4. QED
      BY <2>1, <2>2, <2>3, NextSplits
  <1>3. QED
    BY <1>1, <1>2, PTL DEF Spec

-----------------------------------------------------------------------------
(* The loops and Close.                                                    *)

\* writeLoop has a request in hand exactly while it writes it, and a channel
\* that is closed, with no Close under way, has no loops.
LoopsInv ==
    /\ current # Nobody <=> writer \in {"writing", "notifying"}
    /\ closing # "idle" => state = "Closed"
    /\ state = "Closed" /\ closing = "idle" => reader = "off" /\ writer = "off"

\* Every step preserves that.
LEMMA LoopsStep == TypeOK /\ LoopsInv /\ [Next]_vars => LoopsInv'
  <1> SUFFICES ASSUME TypeOK, LoopsInv, [Next]_vars PROVE LoopsInv'
    OBVIOUS
  <1> USE DEF LoopsInv, channelVars, readerVars, writerVars
  <1>1. CASE UNCHANGED vars
    BY <1>1 DEF vars
  <1>2. CASE Open \/ SendBreaks \/ StartDraining \/ WriterStops
    BY <1>2 DEF Open, SendBreaks, StartDraining, WriterStops
  <1>3. CASE Closing
    BY <1>3 DEF Closing, CloseBegin, CloseCancel, ClosePhysical, PhysicalJoined, CloseReturn
  <1>4. CASE Reading
    BY <1>4 DEF Reading, ReadNotified, ReaderStops, Route, Delivered
  <1>5. CASE \/ \E a \in Address : ReadFrame(a)
             \/ ReadBreaks
             \/ \E op \in {"add", "remove"}, a \in Address : AskSessionChange(op, a)
             \/ ChangeSession \/ Connect \/ ConnectNotified \/ ConnectorStops
    BY <1>5 DEF ReadFrame, ReadBreaks, AskSessionChange, ChangeSession, Connect,
       ConnectNotified, ConnectorStops
  <1>6. ASSUME NEW c \in Caller, \/ WriteWhenClosed(c) \/ WriteWhenOpen(c)
                                 \/ Enqueue(c) \/ GiveUp(c) \/ WriteReturn(c)
        PROVE  LoopsInv'
    BY <1>6 DEF WriteWhenClosed, WriteWhenOpen, Enqueue, GiveUp, WriteReturn
  <1>7. CASE TakeRequest
    <2>1. Head(queue) \in Caller /\ Head(queue) # Nobody
      BY <1>7, HeadTailProperties, ChannelAssumption DEF TakeRequest, TypeOK
    <2>2. QED
      BY <1>7, <2>1 DEF TakeRequest
  <1>8. CASE Send \/ SendRefused \/ SendNotified \/ Drain
    BY <1>8 DEF Send, SendRefused, SendNotified, Drain, Finish
  <1>9. QED
    BY <1>1, <1>2, <1>3, <1>4, <1>5, <1>6, <1>7, <1>8, NextSplits DEF Aside, OfRequest

\* It holds of every reachable state.
LEMMA LoopsInvariant == Spec => []LoopsInv
  <1>1. Init => LoopsInv
    BY DEF Init, LoopsInv
  <1>2. QED
    BY <1>1, LoopsStep, TypeCorrect, PTL DEF Spec

\* When Close has returned nothing is written any more and no session sees a
\* frame (Close waits for both loops, channel.go).
THEOREM CloseIsQuiet == Spec => QuietAfterClose
  <1>1. TypeOK /\ LoopsInv /\ [Next]_vars
            => [HasClosed => wire' = wire /\ reader' # "delivering"]_vars
    <2> SUFFICES ASSUME LoopsInv, [Next]_vars, HasClosed
                 PROVE  UNCHANGED vars \/ (wire' = wire /\ reader' # "delivering")
      OBVIOUS
    <2>1. reader = "off" /\ writer = "off"
      BY DEF LoopsInv, HasClosed
    <2>2. CASE OfRequest
      <3>1. UNCHANGED wire /\ UNCHANGED reader
        BY <2>1, <2>2 DEF OfRequest, WriteWhenClosed, WriteWhenOpen, Enqueue, GiveUp,
           WriteReturn, TakeRequest, Send, SendRefused, SendNotified, Drain, Finish,
           writerVars, readerVars
      <3>2. QED
        BY <2>1, <3>1
    <2>3. CASE Aside
      <3>1. UNCHANGED wire
        BY <2>3, AsideIsAside DEF requestVars
      <3>2. reader' # "delivering"
        BY <2>1, <2>3 DEF Aside, Open, Closing, CloseBegin, CloseCancel, ClosePhysical,
           PhysicalJoined, CloseReturn, Reading, ReadNotified, ReaderStops, Route, Delivered,
           SendBreaks, StartDraining, WriterStops, ReadFrame, ReadBreaks, AskSessionChange,
           ChangeSession, Connect, ConnectNotified, ConnectorStops, readerVars
      <3>3. QED
        BY <3>1, <3>2
    <2>4. QED
      BY <2>2, <2>3, NextSplits
  <1>2. QED
    BY <1>1, TypeCorrect, LoopsInvariant, PTL DEF Spec, QuietAfterClose

-----------------------------------------------------------------------------
(* Every request is in one place.                                          *)

\* The queue after a request was appended.
LEMMA QueueAppend ==
    ASSUME TypeOK, NEW c \in Caller, queue' = Append(queue, c)
    PROVE  /\ \A d \in Caller : InQueue(d)' <=> InQueue(d) \/ d = c
           /\ (\A i, j \in DOMAIN queue : queue[i] = queue[j] => i = j) /\ ~InQueue(c)
                => (\A i, j \in DOMAIN queue : queue[i] = queue[j] => i = j)'
  <1>1. /\ queue \in Seq(Caller) /\ DOMAIN queue = 1..Len(queue) /\ Len(queue) \in Nat
        /\ DOMAIN queue' = 1..(Len(queue) + 1)
        /\ \A i \in DOMAIN queue : queue'[i] = queue[i]
        /\ queue'[Len(queue) + 1] = c
    BY AppendProperties, LenProperties, SMTT(20) DEF TypeOK
  <1>2. \A d \in Caller : InQueue(d)' <=> InQueue(d) \/ d = c
    BY <1>1 DEF InQueue
  <1>3. QED
    BY <1>1, <1>2 DEF InQueue

\* The queue after its first request was taken.
LEMMA QueueTail ==
    ASSUME TypeOK, OnePlace, queue # <<>>, queue' = Tail(queue)
    PROVE  /\ Head(queue) \in Caller /\ InQueue(Head(queue))
           /\ \A d \in Caller : InQueue(d)' <=> InQueue(d) /\ d # Head(queue)
           /\ (\A i, j \in DOMAIN queue : queue[i] = queue[j] => i = j)'
  <1>1. /\ queue \in Seq(Caller) /\ Head(queue) = queue[1] /\ queue[1] \in Caller
        /\ DOMAIN queue = 1..Len(queue) /\ Len(queue) \in Nat /\ Len(queue) >= 1
        /\ DOMAIN queue' = 1..(Len(queue) - 1)
        /\ \A i \in DOMAIN queue' : queue'[i] = queue[i + 1]
    BY HeadTailProperties, LenProperties, EmptySeq DEF TypeOK
  <1>2. \A i \in DOMAIN queue : i = 1 \/ (i - 1 \in DOMAIN queue' /\ queue'[i - 1] = queue[i])
    BY <1>1
  <1>3. ASSUME NEW d \in Caller, InQueue(d)' PROVE InQueue(d) /\ d # Head(queue)
    <2>1. PICK i \in DOMAIN queue' : queue'[i] = d
      BY <1>3 DEF InQueue
    <2>2. i + 1 \in DOMAIN queue /\ queue[i + 1] = d /\ 1 \in DOMAIN queue /\ i + 1 # 1
      BY <1>1, <2>1
    <2>3. QED
      BY <1>1, <2>2 DEF InQueue, OnePlace
  <1>4. ASSUME NEW d \in Caller, InQueue(d), d # Head(queue) PROVE InQueue(d)'
    BY <1>1, <1>2, <1>4 DEF InQueue
  <1>5. InQueue(Head(queue))
    BY <1>1 DEF InQueue
  <1>6. (\A i, j \in DOMAIN queue : queue[i] = queue[j] => i = j)'
    <2> SUFFICES ASSUME NEW i \in DOMAIN queue', NEW j \in DOMAIN queue', queue'[i] = queue'[j]
                 PROVE  i = j
      OBVIOUS
    <2>1. i + 1 \in DOMAIN queue /\ j + 1 \in DOMAIN queue /\ queue[i + 1] = queue[j + 1]
      BY <1>1
    <2>2. i + 1 = j + 1
      BY <2>1 DEF OnePlace
    <2>3. QED
      BY <1>1, <2>2
  <1>7. QED
    BY <1>1, <1>3, <1>4, <1>5, <1>6

\* A request enters the queue once and leaves it for one place.
LEMMA OnePlaceStep == TypeOK /\ LoopsInv /\ OnePlace /\ [Next]_vars => OnePlace'
  <1> SUFFICES ASSUME TypeOK, LoopsInv, OnePlace, [Next]_vars PROVE OnePlace'
    OBVIOUS
  <1>0. Nobody \notin Caller
    BY ChannelAssumption
  <1>1. CASE UNCHANGED vars \/ Aside
    <2>1. UNCHANGED requestVars
      BY <1>1, AsideIsAside DEF vars, requestVars, writeVars, writerVars
    <2>2. QED
      BY <2>1 DEF requestVars, OnePlace, InQueue
  <1>2. ASSUME NEW c \in Caller, WriteWhenClosed(c) \/ WriteWhenOpen(c) \/ GiveUp(c)
        PROVE  OnePlace'
    <2>1. /\ UNCHANGED <<queue, answer, current>>
          /\ phase[c] # "queued" /\ phase'[c] # "queued"
          /\ \A d \in Caller : d # c => phase'[d] = phase[d]
      BY <1>2 DEF WriteWhenClosed, WriteWhenOpen, GiveUp, MayWrite, TypeOK, writerVars
    <2>2. QED
      BY <2>1 DEF OnePlace, InQueue
  <1>3. ASSUME NEW c \in Caller, Enqueue(c) PROVE OnePlace'
    <2>1. /\ UNCHANGED <<answer, current>> /\ queue' = Append(queue, c)
          /\ phase[c] = "checked" /\ phase'[c] = "queued"
          /\ \A d \in Caller : d # c => phase'[d] = phase[d]
      BY <1>3 DEF Enqueue, TypeOK, writerVars
    <2>2. ~InQueue(c) /\ current # c /\ answer[c] = "none"
      BY <2>1 DEF OnePlace
    <2>3. /\ \A d \in Caller : InQueue(d)' <=> InQueue(d) \/ d = c
          /\ (\A i, j \in DOMAIN queue : queue[i] = queue[j] => i = j)'
      BY <2>1, <2>2, QueueAppend DEF OnePlace
    <2>4. QED
      BY <2>1, <2>2, <2>3 DEF OnePlace
  <1>4. ASSUME NEW c \in Caller, WriteReturn(c) PROVE OnePlace'
    <2>1. /\ UNCHANGED <<queue, current>>
          /\ answer[c] # "none" /\ answer'[c] = "none" /\ phase'[c] = "idle"
          /\ \A d \in Caller : d # c => phase'[d] = phase[d] /\ answer'[d] = answer[d]
      BY <1>4 DEF WriteReturn, TypeOK, writerVars
    <2>2. ~InQueue(c) /\ current # c
      BY <2>1 DEF OnePlace
    <2>3. QED
      BY <2>1, <2>2 DEF OnePlace, InQueue
  <1>5. ASSUME queue # <<>>, queue' = Tail(queue), UNCHANGED phase,
               \/ UNCHANGED answer /\ current = Nobody /\ current' = Head(queue)
               \/ /\ UNCHANGED current
                  /\ \E o \in Outcome : Answer(Head(queue), o)
        PROVE  OnePlace'
    <2>1. /\ Head(queue) \in Caller /\ InQueue(Head(queue))
          /\ \A d \in Caller : InQueue(d)' <=> InQueue(d) /\ d # Head(queue)
          /\ (\A i, j \in DOMAIN queue : queue[i] = queue[j] => i = j)'
      BY <1>5, QueueTail
    <2>2. current # Head(queue) /\ answer[Head(queue)] = "none"
      BY <2>1 DEF OnePlace
    <2>3. CASE UNCHANGED answer /\ current = Nobody /\ current' = Head(queue)
      BY <1>0, <1>5, <2>1, <2>2, <2>3 DEF OnePlace
    <2>4. ASSUME NEW o \in Outcome, Answer(Head(queue), o), UNCHANGED current
          PROVE  OnePlace'
      <3>1. /\ answer'[Head(queue)] # "none"
            /\ \A d \in Caller : d # Head(queue) => answer'[d] = answer[d]
        BY <2>1, <2>4 DEF Answer, Outcome, TypeOK
      <3>2. QED
        BY <1>5, <2>1, <2>2, <2>4, <3>1 DEF OnePlace
    <2>5. QED
      BY <1>5, <2>3, <2>4
  <1>6. CASE TakeRequest \/ Drain
    BY <1>5, <1>6 DEF TakeRequest, Drain, LoopsInv, Outcome, writerVars
  <1>7. ASSUME NEW o \in Outcome, Finish(o), current # Nobody PROVE OnePlace'
    <2>1. current \in Caller /\ UNCHANGED <<queue, phase>> /\ current' = Nobody
      BY <1>7 DEF TypeOK, Finish
    <2>2. /\ answer'[current] # "none"
          /\ \A d \in Caller : d # current => answer'[d] = answer[d]
      BY <1>7, <2>1 DEF Finish, Answer, Outcome, TypeOK
    <2>3. phase[current] = "queued" /\ ~InQueue(current) /\ answer[current] = "none"
      BY <2>1 DEF OnePlace
    <2>4. \A d \in Caller : InQueue(d)' <=> InQueue(d)
      BY <2>1 DEF InQueue
    <2>5. QED
      BY <1>0, <2>1, <2>2, <2>3, <2>4 DEF OnePlace
  <1>8. CASE Send \/ SendRefused \/ SendNotified
    BY <1>7, <1>8 DEF Send, SendRefused, SendNotified, LoopsInv, Outcome
  <1>9. QED
    BY <1>1, <1>2, <1>3, <1>4, <1>6, <1>8, NextSplits DEF OfRequest

\* Whatever is cancelled, closed or broken, a request is in the queue, with
\* writeLoop or answered, in one place and once (writeQueue, writeRequest.resp).
THEOREM OnePlaceInvariant == Spec => []OnePlace
  <1>1. Init => OnePlace
    BY ChannelAssumption DEF Init, OnePlace, InQueue
  <1>2. QED
    BY <1>1, OnePlaceStep, TypeCorrect, LoopsInvariant, PTL DEF Spec

-----------------------------------------------------------------------------
(* What Write returns is what happened to its frame.                       *)

\* One caller: n is the number of its last call, unsent that this call has no
\* frame on the wire and may still put one there.
History(n, idle, unsent, ans, w, rep) ==
    /\ n = Len(rep) + (IF idle THEN 0 ELSE 1)
    /\ \A i \in DOMAIN w : w[i] <= n
    /\ unsent \/ ans = "closed" => \A i \in DOMAIN w : w[i] # n
    /\ ans = "ok" => \E i \in DOMAIN w : w[i] = n
    /\ \A k \in DOMAIN rep :
        /\ rep[k] = "ok" => \E i \in DOMAIN w : w[i] = k
        /\ rep[k] = "closed" => \A i \in DOMAIN w : w[i] # k
    /\ \A i, j \in DOMAIN w : i < j => w[i] < w[j]

Unsent(c) == phase[c] = "checked" \/ InQueue(c) \/ current = c

HistoryInv == \A c \in Caller :
    History(calls[c], phase[c] = "idle", Unsent(c), answer[c], wire[c], reported[c])

\* The wire after one more frame of the caller.
LEMMA HistorySend ==
    ASSUME NEW n \in Nat, NEW w \in Seq(Nat), NEW rep \in Seq(Outcome), NEW ans,
           History(n, FALSE, TRUE, ans, w, rep), ans = "none"
    PROVE  History(n, FALSE, FALSE, "ok", Append(w, n), rep)
  <1> DEFINE w2 == Append(w, n)
  <1>1. /\ DOMAIN w = 1..Len(w) /\ Len(w) \in Nat
        /\ DOMAIN w2 = 1..(Len(w) + 1)
        /\ \A i \in DOMAIN w : w2[i] = w[i] /\ w[i] \in Nat
        /\ w2[Len(w) + 1] = n
    BY AppendProperties, LenProperties, ElementOfSeq
  <1>2. DOMAIN rep = 1..Len(rep) /\ Len(rep) \in Nat
    BY LenProperties
  <1> HIDE DEF w2
  <1>3. \A i \in DOMAIN w2 : i \in DOMAIN w \/ i = Len(w) + 1
    BY <1>1
  <1>4. \A i \in DOMAIN w2 : w2[i] <= n
    BY <1>1, <1>3 DEF History
  <1>5. Len(w) + 1 \in DOMAIN w2 /\ w2[Len(w) + 1] = n
    BY <1>1
  <1>6. \A i, j \in DOMAIN w2 : i < j => w2[i] < w2[j]
    <2> SUFFICES ASSUME NEW i \in DOMAIN w2, NEW j \in DOMAIN w2, i < j PROVE w2[i] < w2[j]
      OBVIOUS
    <2>1. i \in DOMAIN w
      BY <1>1, <1>3
    <2>2. CASE j \in DOMAIN w
      BY <1>1, <2>1, <2>2 DEF History
    <2>3. CASE j = Len(w) + 1
      BY <1>1, <2>1, <2>3 DEF History
    <2>4. QED
      BY <1>3, <2>2, <2>3
  <1>7. \A k \in DOMAIN rep : k # n
    BY <1>2 DEF History
  <1>8. \A k \in DOMAIN rep :
          /\ rep[k] = "ok" => \E i \in DOMAIN w2 : w2[i] = k
          /\ rep[k] = "closed" => \A i \in DOMAIN w2 : w2[i] # k
    <2> SUFFICES ASSUME NEW k \in DOMAIN rep
                 PROVE  /\ rep[k] = "ok" => \E i \in DOMAIN w2 : w2[i] = k
                        /\ rep[k] = "closed" => \A i \in DOMAIN w2 : w2[i] # k
      OBVIOUS
    <2>1. rep[k] = "ok" => \E i \in DOMAIN w2 : w2[i] = k
      BY <1>1 DEF History
    <2>2. rep[k] = "closed" => \A i \in DOMAIN w2 : w2[i] # k
      BY <1>1, <1>3, <1>7 DEF History
    <2>3. QED
      BY <2>1, <2>2
  <1>9. QED
    BY <1>4, <1>5, <1>6, <1>8 DEF History, w2

\* A call that begins.
LEMMA HistoryBegin ==
    ASSUME NEW n \in Nat, NEW unsent, NEW ans, NEW w \in Seq(Nat), NEW rep \in Seq(Outcome),
           History(n, TRUE, unsent, ans, w, rep)
    PROVE  History(n + 1, FALSE, TRUE, "none", w, rep)
  <1>1. \A i \in DOMAIN w : w[i] \in Nat
    BY ElementOfSeq, LenProperties
  <1>2. Len(rep) \in Nat
    BY LenProperties
  <1>3. QED
    BY <1>1, <1>2 DEF History

\* A call that returns its answer, or gives up before its request is queued.
LEMMA HistoryReturn ==
    ASSUME NEW n \in Nat, NEW unsent \in BOOLEAN, NEW ans, NEW w \in Seq(Nat),
           NEW rep \in Seq(Outcome), NEW o \in Outcome,
           History(n, FALSE, unsent, ans, w, rep),
           ans = o \/ (o = "closed" /\ unsent)
    PROVE  History(n, TRUE, FALSE, "none", w, Append(rep, o))
  <1> DEFINE rep2 == Append(rep, o)
  <1>1. /\ DOMAIN rep = 1..Len(rep) /\ Len(rep) \in Nat /\ Len(rep2) = Len(rep) + 1
        /\ DOMAIN rep2 = 1..(Len(rep) + 1)
        /\ \A k \in DOMAIN rep : rep2[k] = rep[k]
        /\ rep2[Len(rep) + 1] = o
    BY AppendProperties, LenProperties
  <1>2. n = Len(rep) + 1
    BY DEF History
  <1> HIDE DEF rep2
  <1>3. \A k \in DOMAIN rep2 : k \in DOMAIN rep \/ k = n
    BY <1>1, <1>2
  <1>4. /\ o = "ok" => \E i \in DOMAIN w : w[i] = n
        /\ o = "closed" => \A i \in DOMAIN w : w[i] # n
    BY DEF History
  <1>5. \A k \in DOMAIN rep2 :
          /\ rep2[k] = "ok" => \E i \in DOMAIN w : w[i] = k
          /\ rep2[k] = "closed" => \A i \in DOMAIN w : w[i] # k
    BY <1>1, <1>2, <1>3, <1>4 DEF History
  <1>6. QED
    BY <1>1, <1>2, <1>5 DEF History, rep2

\* A request that can no longer be sent, or is refused.
LEMMA HistoryWeaker ==
    ASSUME NEW n, NEW idle, NEW unsent, NEW still, NEW ans, NEW ans2, NEW w, NEW rep,
           History(n, idle, unsent, ans, w, rep), still => unsent,
           ans2 = ans \/ ans2 \in {"none", "failed"} \/ (unsent /\ ans2 = "closed")
    PROVE  History(n, idle, still, ans2, w, rep)
  <1>1. still \/ ans2 = "closed" => unsent \/ ans = "closed"
    OBVIOUS
  <1>2. ans2 = "ok" => ans = "ok"
    OBVIOUS
  <1>3. QED
    BY <1>1, <1>2 DEF History

\* The history of one caller, and that it is the history of each.
HistoryOf(c) ==
    History(calls[c], phase[c] = "idle", Unsent(c), answer[c], wire[c], reported[c])

\* What the arguments of a history are.
LEMMA HistoryTypes ==
    ASSUME TypeOK, NEW c \in Caller
    PROVE  /\ calls[c] \in Nat /\ wire[c] \in Seq(Nat) /\ reported[c] \in Seq(Outcome)
           /\ (phase[c] = "idle") \in BOOLEAN /\ Unsent(c) \in BOOLEAN
  <1>1. calls[c] \in Nat
    BY ChannelAssumption DEF TypeOK
  <1>2. wire[c] \in Seq(0..MaxWrites)
    BY DEF TypeOK
  <1>3. wire[c] \in Seq(Nat)
    <2>1. /\ wire[c] = [i \in 1..Len(wire[c]) |-> wire[c][i]] /\ Len(wire[c]) \in Nat
          /\ \A i \in 1..Len(wire[c]) : wire[c][i] \in 0..MaxWrites
      BY <1>2, LenProperties, ElementOfSeq
    <2>2. \A i \in 1..Len(wire[c]) : wire[c][i] \in Nat
      BY <2>1, ChannelAssumption
    <2>3. QED
      BY <2>1, <2>2, IsASeq
  <1>4. QED
    BY <1>1, <1>3 DEF TypeOK, Unsent

\* A caller that a step does not concern keeps its history.
LEMMA HistoryKept ==
    ASSUME TypeOK, TypeOK', NEW d \in Caller, HistoryOf(d),
           calls'[d] = calls[d], (phase'[d] = "idle") = (phase[d] = "idle"),
           Unsent(d)' => Unsent(d),
           wire'[d] = wire[d], reported'[d] = reported[d],
           \/ answer'[d] = answer[d] \/ answer'[d] \in {"none", "failed"}
           \/ Unsent(d) /\ answer'[d] = "closed"
    PROVE  HistoryOf(d)'
  <1>1. History(calls[d], phase[d] = "idle", Unsent(d)', answer'[d], wire[d], reported[d])
    BY HistoryWeaker DEF HistoryOf
  <1>2. QED
    BY <1>1 DEF HistoryOf

\* The steps of Write keep every history.
LEMMA HistoryWrite ==
    ASSUME TypeOK, TypeOK', OnePlace, OnePlace', HistoryInv, NEW c \in Caller,
           \/ WriteWhenClosed(c) \/ WriteWhenOpen(c)
           \/ Enqueue(c) \/ GiveUp(c) \/ WriteReturn(c)
    PROVE  HistoryInv'
  <1> USE HistoryTypes
  <1>1. \A d \in Caller : HistoryOf(d)
    BY DEF HistoryInv, HistoryOf
  <1>2. UNCHANGED <<wire, current>>
    BY DEF WriteWhenClosed, WriteWhenOpen, Enqueue, GiveUp, WriteReturn, writerVars
  <1>3. ASSUME NEW d \in Caller, d # c PROVE HistoryOf(d)'
    <2>1. InQueue(d)' <=> InQueue(d)
      <3>1. CASE Enqueue(c)
        BY <1>3, <3>1, QueueAppend DEF Enqueue
      <3>2. CASE WriteWhenClosed(c) \/ WriteWhenOpen(c) \/ GiveUp(c) \/ WriteReturn(c)
        BY <3>2 DEF WriteWhenClosed, WriteWhenOpen, GiveUp, WriteReturn, InQueue
      <3>3. QED
        BY <3>1, <3>2
    <2>2. /\ phase'[d] = phase[d] /\ calls'[d] = calls[d] /\ reported'[d] = reported[d]
          /\ answer'[d] = answer[d]
      BY <1>3 DEF WriteWhenClosed, WriteWhenOpen, Enqueue, GiveUp, WriteReturn, Report, TypeOK
    <2>3. QED
      BY <1>1, <1>2, <2>1, <2>2, HistoryKept DEF Unsent
  <1>4. CASE WriteWhenClosed(c)
    <2>1. /\ phase[c] = "idle" /\ phase'[c] = "idle"
          /\ calls'[c] = calls[c] + 1 /\ reported'[c] = Append(reported[c], "closed")
      BY <1>4 DEF WriteWhenClosed, MayWrite, Report, TypeOK
    <2>2. answer'[c] = "none" /\ ~Unsent(c)'
      BY <2>1 DEF OnePlace, Unsent
    <2>3. History(calls[c] + 1, FALSE, TRUE, "none", wire[c], reported[c])
      BY <1>1, <2>1, HistoryBegin DEF HistoryOf
    <2>4. History(calls[c] + 1, TRUE, FALSE, "none", wire[c], Append(reported[c], "closed"))
      <3>1. calls[c] + 1 \in Nat /\ TRUE \in BOOLEAN /\ "closed" \in Outcome
        BY DEF Outcome
      <3>2. QED
        BY <2>3, <3>1, HistoryReturn
    <2>5. HistoryOf(c)'
      BY <1>2, <2>1, <2>2, <2>4 DEF HistoryOf, History
    <2>6. QED
      BY <1>3, <2>5 DEF HistoryInv, HistoryOf
  <1>5. CASE WriteWhenOpen(c)
    <2>1. /\ phase[c] = "idle" /\ phase'[c] = "checked"
          /\ calls'[c] = calls[c] + 1 /\ reported'[c] = reported[c]
      BY <1>5 DEF WriteWhenOpen, MayWrite, TypeOK
    <2>2. answer'[c] = "none" /\ Unsent(c)'
      BY <2>1 DEF OnePlace, Unsent
    <2>3. History(calls[c] + 1, FALSE, TRUE, "none", wire[c], reported[c])
      BY <1>1, <2>1, HistoryBegin DEF HistoryOf
    <2>4. HistoryOf(c)'
      BY <1>2, <2>1, <2>2, <2>3 DEF HistoryOf
    <2>5. QED
      BY <1>3, <2>4 DEF HistoryInv, HistoryOf
  <1>6. CASE Enqueue(c)
    <2>1. /\ phase[c] = "checked" /\ phase'[c] = "queued"
          /\ UNCHANGED <<calls, reported, answer>>
      BY <1>6 DEF Enqueue, TypeOK
    <2>2. HistoryOf(c)'
      BY <1>1, <1>2, <2>1, HistoryKept DEF Unsent
    <2>3. QED
      BY <1>3, <2>2 DEF HistoryInv, HistoryOf
  <1>7. CASE GiveUp(c) \/ WriteReturn(c)
    <2>1. PICK o \in Outcome :
            /\ answer[c] = o \/ (o = "closed" /\ Unsent(c))
            /\ reported'[c] = Append(reported[c], o)
      <3>1. CASE GiveUp(c)
        BY <3>1 DEF GiveUp, Report, Outcome, Unsent, TypeOK
      <3>2. CASE WriteReturn(c)
        BY <3>2 DEF WriteReturn, Report, TypeOK
      <3>3. QED
        BY <1>7, <3>1, <3>2
    <2>2. /\ phase[c] # "idle" /\ phase'[c] = "idle" /\ calls'[c] = calls[c]
      BY <1>7 DEF GiveUp, WriteReturn, TypeOK
    <2>3. answer'[c] = "none" /\ ~Unsent(c)'
      BY <2>2 DEF OnePlace, Unsent
    <2>4. History(calls[c], FALSE, Unsent(c), answer[c], wire[c], reported[c])
      BY <1>1, <2>2 DEF HistoryOf, History
    <2>5. History(calls[c], TRUE, FALSE, "none", wire[c], Append(reported[c], o))
      BY <2>1, <2>4, HistoryReturn
    <2>6. HistoryOf(c)'
      BY <1>2, <2>1, <2>2, <2>3, <2>5 DEF HistoryOf, History
    <2>7. QED
      BY <1>3, <2>6 DEF HistoryInv, HistoryOf
  <1>8. QED
    BY <1>4, <1>5, <1>6, <1>7

\* The steps of writeLoop keep every history.
LEMMA HistoryWriter ==
    ASSUME TypeOK, TypeOK', LoopsInv, OnePlace, OnePlace', HistoryInv,
           TakeRequest \/ Send \/ SendRefused \/ SendNotified \/ Drain
    PROVE  HistoryInv'
  <1> USE HistoryTypes
  <1>1. \A d \in Caller : HistoryOf(d)
    BY DEF HistoryInv, HistoryOf
  <1>2. UNCHANGED <<phase, calls, reported>>
    BY DEF TakeRequest, Send, SendRefused, SendNotified, Drain, Finish
  <1>3. CASE TakeRequest \/ Drain
    <2>1. /\ Head(queue) \in Caller /\ InQueue(Head(queue))
          /\ \A d \in Caller : InQueue(d)' <=> InQueue(d) /\ d # Head(queue)
      BY <1>3, QueueTail DEF TakeRequest, Drain
    <2>2. UNCHANGED wire /\ (current' = current \/ current' = Head(queue))
      BY <1>3 DEF TakeRequest, Drain, writerVars
    <2>3. \A d \in Caller : \/ answer'[d] = answer[d] \/ answer'[d] = "failed"
                            \/ d = Head(queue) /\ answer'[d] = "closed"
      BY <1>3 DEF TakeRequest, Drain, Answer, TypeOK
    <2>4. ASSUME NEW d \in Caller PROVE HistoryOf(d)'
      BY <1>1, <1>2, <2>1, <2>2, <2>3, HistoryKept DEF Unsent
    <2>5. QED
      BY <2>4 DEF HistoryInv, HistoryOf
  <1>4. CASE Send \/ SendRefused \/ SendNotified
    <2>1. /\ current \in Caller /\ current' = Nobody /\ UNCHANGED queue
          /\ \A d \in Caller : d # current => answer'[d] = answer[d] /\ wire'[d] = wire[d]
      BY <1>4 DEF Send, SendRefused, SendNotified, Finish, Answer, LoopsInv, TypeOK
    <2>2. Nobody \notin Caller
      BY ChannelAssumption
    <2>3. \A d \in Caller : InQueue(d)' <=> InQueue(d)
      BY <2>1 DEF InQueue
    <2>4. ASSUME NEW d \in Caller, d # current PROVE HistoryOf(d)'
      BY <1>1, <1>2, <2>1, <2>2, <2>3, <2>4, HistoryKept DEF Unsent
    <2>5. ASSUME NEW d \in Caller, d = current PROVE HistoryOf(d)'
      <3>1. phase[d] = "queued" /\ answer[d] = "none" /\ ~InQueue(d)
        BY <2>5 DEF OnePlace
      <3>2. ~Unsent(d)' /\ Unsent(d)
        BY <1>2, <2>1, <2>2, <2>3, <2>5, <3>1 DEF Unsent
      <3>3. CASE SendRefused \/ SendNotified
        <4>1. answer'[d] = "failed" /\ wire'[d] = wire[d]
          BY <2>5, <3>3 DEF SendRefused, SendNotified, Finish, Answer, TypeOK
        <4>2. QED
          BY <1>1, <1>2, <3>2, <4>1, HistoryKept
      <3>4. CASE Send
        <4>1. answer'[d] = "ok" /\ wire'[d] = Append(wire[d], calls[d])
          BY <2>5, <3>4 DEF Send, Finish, Answer, TypeOK
        <4>2. History(calls[d], FALSE, TRUE, "none", wire[d], reported[d])
          BY <1>1, <3>1, <3>2 DEF HistoryOf, History
        <4>3. History(calls[d], FALSE, FALSE, "ok", Append(wire[d], calls[d]), reported[d])
          BY <4>2, HistorySend
        <4>4. phase'[d] # "idle" /\ calls'[d] = calls[d] /\ reported'[d] = reported[d]
          BY <1>2, <3>1
        <4>5. QED
          BY <3>2, <4>1, <4>3, <4>4, SMTT(20) DEF HistoryOf, History
      <3>5. QED
        BY <1>4, <3>3, <3>4
    <2>6. QED
      BY <2>4, <2>5 DEF HistoryInv, HistoryOf
  <1>5. QED
    BY <1>3, <1>4

\* Every caller has a true history in every reachable state.
LEMMA HistoryInvariant == Spec => []HistoryInv
  <1>1. Init => HistoryInv
    BY ChannelAssumption DEF Init, HistoryInv, History
  <1>2. /\ TypeOK /\ TypeOK' /\ LoopsInv /\ OnePlace /\ OnePlace' /\ HistoryInv /\ [Next]_vars
        => HistoryInv'
    <2> SUFFICES ASSUME TypeOK, TypeOK', LoopsInv, OnePlace, OnePlace', HistoryInv, [Next]_vars
                 PROVE  HistoryInv'
      OBVIOUS
    <2>1. CASE UNCHANGED vars \/ Aside
      <3>1. UNCHANGED requestVars
        BY <2>1, AsideIsAside DEF vars, requestVars, writeVars, writerVars
      <3>2. QED
        BY <3>1 DEF requestVars, HistoryInv, Unsent, InQueue
    <2>2. CASE OfRequest
      BY <2>2, HistoryWrite, HistoryWriter DEF OfRequest
    <2>3. QED
      BY <2>1, <2>2, NextSplits
  <1>3. QED
    BY <1>1, <1>2, TypeCorrect, LoopsInvariant, OnePlaceInvariant, PTL DEF Spec

\* What Write returns is true of the wire: nil means written, ErrChannelClosed
\* means never written, then or later (Write, writeLoop).
THEOREM TrueReports == Spec => []ReportsAreTrue
  <1>1. HistoryInv => ReportsAreTrue
    <2> SUFFICES ASSUME HistoryInv, NEW c \in Caller, NEW n \in DOMAIN reported[c]
                 PROVE  /\ reported[c][n] = "ok" => n \in Written(c)
                        /\ reported[c][n] = "closed" => n \notin Written(c)
      BY DEF ReportsAreTrue
    <2>1. /\ reported[c][n] = "ok" => \E i \in DOMAIN wire[c] : wire[c][i] = n
          /\ reported[c][n] = "closed" => \A i \in DOMAIN wire[c] : wire[c][i] # n
      <3>1. \A k \in DOMAIN reported[c] :
                /\ reported[c][k] = "ok" => \E i \in DOMAIN wire[c] : wire[c][i] = k
                /\ reported[c][k] = "closed" => \A i \in DOMAIN wire[c] : wire[c][i] # k
        BY Zenon DEF HistoryInv, History
      <3>2. QED
        BY <3>1, Zenon
    <2>2. n \in Written(c) <=> \E i \in DOMAIN wire[c] : wire[c][i] = n
      BY DEF Written
    <2>3. QED
      BY <2>1, <2>2
  <1>2. QED
    BY <1>1, HistoryInvariant, PTL

\* The frames of one caller reach the wire in the order of its calls, none twice
\* (writeQueue is one FIFO, and Write waits for its answer).
THEOREM WireInCallOrder == Spec => []CallOrder
  <1>1. HistoryInv => CallOrder
    BY DEF HistoryInv, History, CallOrder
  <1>2. QED
    BY <1>1, HistoryInvariant, PTL

-----------------------------------------------------------------------------
(* The channel implements WriteService.                                    *)

\* What HistoryInv says of one caller, in the words of WriteService.
LEMMA CallerStands ==
    ASSUME TypeOK, HistoryInv, NEW c \in Caller
    PROVE  /\ phase[c] = "idle" => Service!Over(c)
           /\ phase[c] # "idle" => Service!Running(c)
           /\ Unsent(c) \/ answer[c] = "closed" => ~Service!OnWire(c)
           /\ answer[c] = "ok" => Service!OnWire(c)
  <1>1. History(calls[c], phase[c] = "idle", Unsent(c), answer[c], wire[c], reported[c])
    BY DEF HistoryInv
  <1>2. Len(reported[c]) \in Nat /\ calls[c] = Len(reported[c]) + (IF phase[c] = "idle" THEN 0 ELSE 1)
    BY <1>1, HistoryTypes, LenProperties DEF History
  <1>3. /\ Unsent(c) \/ answer[c] = "closed" => \A i \in DOMAIN wire[c] : wire[c][i] # calls[c]
        /\ answer[c] = "ok" => \E i \in DOMAIN wire[c] : wire[c][i] = calls[c]
    BY <1>1, Zenon DEF History
  <1>4. (phase[c] = "idle" => Service!Over(c)) /\ (phase[c] # "idle" => Service!Running(c))
    <2>1. PICK n \in Nat : n = Len(reported[c])
      BY <1>2
    <2>2. CASE phase[c] = "idle"
      <3>1. calls[c] = n + 0
        BY <1>2, <2>1, <2>2
      <3> QED
        BY <2>1, <2>2, <3>1 DEF Service!Over
    <2>3. CASE phase[c] # "idle"
      <3>1. calls[c] = n + 1
        BY <1>2, <2>1, <2>3
      <3> QED
        BY <2>1, <2>3, <3>1 DEF Service!Running
    <2> QED
      BY <2>2, <2>3
  <1>5. Service!OnWire(c) <=> \E i \in DOMAIN wire[c] : wire[c][i] = calls[c]
    BY DEF Service!OnWire
  <1> QED
    BY <1>3, <1>4, <1>5

LEMMA CallsAreServed ==
    ASSUME TypeOK, HistoryInv, NEW c \in Caller,
           WriteWhenClosed(c) \/ WriteWhenOpen(c) \/ Enqueue(c) \/ GiveUp(c) \/ WriteReturn(c)
    PROVE  [Service!Next]_<<calls, wire, reported>>
  <1>1. CASE WriteWhenClosed(c)
    <2>1. Service!Refuse(c)
      BY <1>1, CallerStands DEF WriteWhenClosed, MayWrite, Report, writerVars, Service!Refuse
    <2> QED
      BY <2>1 DEF Service!Next
  <1>2. CASE WriteWhenOpen(c)
    <2>1. Service!Call(c)
      BY <1>2, CallerStands DEF WriteWhenOpen, MayWrite, writerVars, Service!Call
    <2> QED
      BY <2>1 DEF Service!Next
  <1>3. CASE Enqueue(c)
    BY <1>3 DEF Enqueue, writerVars
  <1>4. CASE GiveUp(c)
    <2>1. Service!Running(c) /\ ~Service!OnWire(c)
      BY <1>4, CallerStands DEF GiveUp, Unsent
    <2>2. Service!Return(c)
      BY <1>4, <2>1 DEF GiveUp, Report, writerVars, Service!Return
    <2> QED
      BY <2>2 DEF Service!Next
  <1>5. CASE WriteReturn(c)
    <2>1. Service!Running(c) /\ answer[c] \in Outcome
          /\ (answer[c] = "ok" => Service!OnWire(c)) /\ (answer[c] = "closed" => ~Service!OnWire(c))
      BY <1>5, CallerStands DEF WriteReturn, TypeOK
    <2>2. Service!Return(c)
      BY <1>5, <2>1 DEF WriteReturn, Report, Outcome, writerVars, Service!Return
    <2> QED
      BY <2>2 DEF Service!Next
  <1> QED
    BY <1>1, <1>2, <1>3, <1>4, <1>5

LEMMA LoopServes ==
    ASSUME TypeOK, LoopsInv, OnePlace, HistoryInv,
           TakeRequest \/ Send \/ SendRefused \/ SendNotified \/ Drain
    PROVE  [Service!Next]_<<calls, wire, reported>>
  <1>1. CASE Send
    <2>1. current \in Caller /\ phase[current] = "queued" /\ Unsent(current)
      BY <1>1 DEF Send, LoopsInv, TypeOK, OnePlace, Unsent
    <2>2. Service!Running(current) /\ ~Service!OnWire(current)
      BY <2>1, CallerStands
    <2>3. Service!Put(current)
      BY <1>1, <2>2 DEF Send, Finish, Service!Put
    <2> QED
      BY <2>1, <2>3 DEF Service!Next
  <1>2. CASE TakeRequest \/ SendRefused \/ SendNotified \/ Drain
    BY <1>2 DEF TakeRequest, SendRefused, SendNotified, Drain, Finish, writerVars
  <1> QED
    BY <1>1, <1>2

\* The channel keeps the promise of WriteService (Write, writeLoop): a frame is written
\* once at most, while the call that gave it runs, and what the call returns is true of
\* it; for any number of callers, any capacity of the queue, and whatever Open, Close,
\* readLoop, the sessions and the connection do meanwhile.
THEOREM ImplementsService == Spec => WritesAreServed
  <1>1. Init => Service!Init
    BY DEF Init, Service!Init
  <1>2. TypeOK /\ LoopsInv /\ OnePlace /\ HistoryInv /\ [Next]_vars
        => [Service!Next]_<<calls, wire, reported>>
    <2> SUFFICES ASSUME TypeOK, LoopsInv, OnePlace, HistoryInv, [Next]_vars
                 PROVE  [Service!Next]_<<calls, wire, reported>>
      OBVIOUS
    <2>1. CASE UNCHANGED vars \/ Aside
      BY <2>1, AsideIsAside DEF vars, requestVars, writeVars, writerVars
    <2>2. CASE OfRequest
      BY <2>2, CallsAreServed, LoopServes DEF OfRequest
    <2> QED
      BY <2>1, <2>2, NextSplits
  <1> QED
    BY <1>1, <1>2, TypeCorrect, LoopsInvariant, OnePlaceInvariant, HistoryInvariant, PTL
    DEF Spec, WritesAreServed, Service!Spec
=============================================================================
