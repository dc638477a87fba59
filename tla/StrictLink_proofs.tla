--------------------------- MODULE StrictLink_proofs ---------------------------
(***************************************************************************)
(* Proofs about StrictLink for every number of retries, every budget of    *)
(* requests, every assignment of roles and every set of faults.            *)
(*                                                                         *)
(* The argument: each direction of the link satisfies Direction, a         *)
(* predicate of the unread frames, the sender's request count and open     *)
(* request, and the receiver's expectedFCB and deliveries.  Six lemmas say *)
(* how the things a step can do to one direction preserve it; FCBInvariant *)
(* then goes through the actions.                                          *)
(*                                                                         *)
(* Where one station alone resets and sends, the bit of what is on its way *)
(* tells more: the frames that set or carry it, the marks, alternate, the  *)
(* first is what the receiver expects, and the sender continues where the  *)
(* last leaves off.  Train says so of one direction; AckedIsNotLost        *)
(* follows, because then no new data is ever taken for a repetition.       *)
(***************************************************************************)
EXTENDS StrictLink, SequenceTheorems, TLAPS

-----------------------------------------------------------------------------
(* Facts about the sequences of frames.                                    *)

\* The element a FIFO append leaves at each position.
LEMMA AppendAt ==
    ASSUME NEW S, NEW q \in Seq(S), NEW f \in S
    PROVE  /\ Append(q, f) \in Seq(S)
           /\ DOMAIN Append(q, f) = 1..(Len(q) + 1)
           /\ DOMAIN q = 1..Len(q)
           /\ \A i \in DOMAIN q : Append(q, f)[i] = q[i]
           /\ Append(q, f)[Len(q) + 1] = f
  BY AppendProperties, LenProperties

\* The element reading one frame leaves at each position.
LEMMA TailAt ==
    ASSUME NEW S, NEW q \in Seq(S), q # <<>>
    PROVE  /\ Head(q) = q[1] /\ Head(q) \in S
           /\ 1 \in DOMAIN q
           /\ Tail(q) \in Seq(S)
           /\ \A i \in DOMAIN Tail(q) :
                /\ i \in Nat /\ i >= 1 /\ i + 1 \in DOMAIN q /\ Tail(q)[i] = q[i + 1]
  BY HeadTailProperties, LenProperties

\* One frame is a sequence of frames.
LEMMA OneFrame == \A f \in Frame : <<f>> \in Seq(Frame)
  OBVIOUS

\* The fields of a frame have their types.
LEMMA FrameFields == \A f \in Frame : f.id \in Nat /\ f.fcb \in BOOLEAN
  BY DEF Frame

-----------------------------------------------------------------------------
(* What a step does to one direction.                                      *)

\* Reading a frame that changes neither expectedFCB nor the deliveries.
LEMMA DirectionTail ==
    ASSUME NEW q \in Seq(Frame), NEW n \in Nat, NEW open \in Request \cup {None},
           NEW exp \in BOOLEAN, NEW del \in Seq(Nat),
           Direction(q, n, open, exp, del), q # <<>>
    PROVE  Direction(Tail(q), n, open, exp, del)
  <1>1. FramesInOrder(Tail(q), n)
    BY TailAt DEF Direction, FramesInOrder
  <1>2. AheadIsNew(Tail(q), exp, del)
    BY TailAt DEF Direction, AheadIsNew
  <1>3. OpenIsLast(Tail(q), n, open, exp, del)
    BY TailAt DEF Direction, OpenIsLast
  <1>4. QED
    BY <1>1, <1>2, <1>3 DEF Direction

\* Every frame behind the first has a number at least as large, and one with
\* the same number is the same frame.
LEMMA HeadIsOldest ==
    ASSUME NEW q \in Seq(Frame), NEW n \in Nat, FramesInOrder(q, n), q # <<>>,
           IsPrimary(Head(q)), NEW i \in DOMAIN Tail(q), IsPrimary(Tail(q)[i])
    PROVE  /\ Head(q).id <= Tail(q)[i].id
           /\ Head(q).id = Tail(q)[i].id
                => Head(q) = Tail(q)[i] /\ Head(q).fn # "UnconfirmedData"
  BY TailAt DEF FramesInOrder

\* Reading a frame whose number was not handed over: expectedFCB may change
\* to any value.
LEMMA DirectionFresh ==
    ASSUME NEW q \in Seq(Frame), NEW n \in Nat, NEW open \in Request \cup {None},
           NEW exp \in BOOLEAN, NEW exp2 \in BOOLEAN, NEW del \in Seq(Nat),
           Direction(q, n, open, exp, del), q # <<>>, IsPrimary(Head(q)),
           \A k \in DOMAIN del : del[k] # Head(q).id
    PROVE  Direction(Tail(q), n, open, exp2, del)
  <1>1. Direction(Tail(q), n, open, exp, del)
    BY DirectionTail
  <1>2. \A k \in DOMAIN del : del[k] \in Nat /\ del[k] < Head(q).id
    <2>1. \A k \in DOMAIN del : del[k] \in Nat
      BY ElementOfSeq, LenProperties
    <2>2. \A k \in DOMAIN del : del[k] <= Head(q).id
      BY TailAt DEF Direction, AheadIsNew
    <2>3. Head(q).id \in Nat
      BY TailAt, FrameFields
    <2>4. QED
      BY <2>1, <2>2, <2>3
  <1>3. Head(q).id \in Nat /\ Head(q).id <= n
    BY TailAt, FrameFields DEF Direction, FramesInOrder
  <1>4. AheadIsNew(Tail(q), exp2, del)
    <2> SUFFICES ASSUME NEW i \in DOMAIN Tail(q), NEW k \in DOMAIN del,
                        IsPrimary(Tail(q)[i])
                 PROVE  del[k] < Tail(q)[i].id
      BY FrameFields DEF AheadIsNew
    <2>1. Tail(q)[i].id \in Nat
      BY TailAt, ElementOfSeq, LenProperties, FrameFields
    <2>2. QED
      BY <1>2, <1>3, <2>1, HeadIsOldest, SMTT(20) DEF Direction
  <1>5. OpenIsLast(Tail(q), n, open, exp2, del)
    BY <1>1, <1>2, <1>3 DEF Direction, OpenIsLast
  <1>6. QED
    BY <1>1, <1>4, <1>5 DEF Direction

\* Handing over the first frame, after which expectedFCB is not the FCB of a
\* confirmed frame.
LEMMA DirectionHandOver ==
    ASSUME NEW q \in Seq(Frame), NEW n \in Nat, NEW open \in Request \cup {None},
           NEW exp \in BOOLEAN, NEW exp2 \in BOOLEAN, NEW del \in Seq(Nat),
           Direction(q, n, open, exp, del), q # <<>>, IsPrimary(Head(q)),
           \A k \in DOMAIN del : del[k] # Head(q).id,
           Head(q).fn \in {"ConfirmedData", "UnconfirmedData"},
           Head(q).fn = "ConfirmedData" => Head(q).fcb # exp2
    PROVE  Direction(Tail(q), n, open, exp2, Append(del, Head(q).id))
  <1> DEFINE m == Head(q).id
             del2 == Append(del, m)
  <1>1. Direction(Tail(q), n, open, exp2, del)
    BY DirectionFresh
  <1>2. m \in Nat /\ m <= n
    BY TailAt, FrameFields DEF Direction, FramesInOrder
  <1>3. /\ DOMAIN del2 = 1..(Len(del) + 1)
        /\ DOMAIN del = 1..Len(del)
        /\ Len(del) \in Nat
        /\ \A k \in DOMAIN del : del2[k] = del[k] /\ del[k] \in Nat
        /\ del2[Len(del) + 1] = m
    BY <1>2, AppendAt, LenProperties, ElementOfSeq
  <1>4. \A k \in DOMAIN del : del[k] < m
    <2>1. \A k \in DOMAIN del : del[k] <= m
      BY TailAt DEF Direction, AheadIsNew
    <2>2. QED
      BY <2>1, <1>2, <1>3
  <1>5. DeliveredInOrder(n, del2)
    <2>1. \A k \in DOMAIN del2 : k \in DOMAIN del \/ k = Len(del) + 1
      BY <1>3
    <2>2. \A k \in DOMAIN del2 : del2[k] <= n
      BY <1>1, <1>2, <1>3, <2>1 DEF Direction, DeliveredInOrder
    <2>3. ASSUME NEW j \in DOMAIN del2, NEW k \in DOMAIN del2, j < k
          PROVE  del2[j] < del2[k]
      <3>1. j \in DOMAIN del
        BY <1>3, <2>3
      <3>2. CASE k \in DOMAIN del
        BY <1>1, <1>3, <3>1, <3>2, <2>3 DEF Direction, DeliveredInOrder
      <3>3. CASE k = Len(del) + 1
        BY <1>3, <1>4, <3>1, <3>3
      <3>4. QED
        BY <2>1, <3>2, <3>3
    <2>4. QED
      BY <2>2, <2>3 DEF DeliveredInOrder
  <1>6. AheadIsNew(Tail(q), exp2, del2)
    <2> SUFFICES ASSUME NEW i \in DOMAIN Tail(q), NEW k \in DOMAIN del2,
                        IsPrimary(Tail(q)[i])
                 PROVE  /\ del2[k] <= Tail(q)[i].id
                        /\ del2[k] = Tail(q)[i].id
                             => Tail(q)[i].fn = "ConfirmedData" /\ Tail(q)[i].fcb # exp2
      BY DEF AheadIsNew
    <2>1. CASE k \in DOMAIN del
      BY <1>1, <1>3, <2>1 DEF Direction, AheadIsNew
    <2>2. CASE k = Len(del) + 1
      <3>1. del2[k] = m
        BY <1>3, <2>2
      <3>2. m <= Tail(q)[i].id /\ (m = Tail(q)[i].id => Head(q) = Tail(q)[i] /\ Head(q).fn # "UnconfirmedData")
        BY HeadIsOldest DEF Direction
      <3>3. QED
        BY <3>1, <3>2
    <2>3. QED
      BY <1>3, <2>1, <2>2
  <1>7. OpenIsLast(Tail(q), n, open, exp2, del2)
    <2> SUFFICES ASSUME open # None
                 PROVE  /\ open.id = n /\ 1 <= n
                        /\ \A i \in DOMAIN Tail(q) :
                              IsPrimary(Tail(q)[i]) /\ Tail(q)[i].id = n => Tail(q)[i] = open
                        /\ \A k \in DOMAIN del2 :
                              del2[k] = n => open.fn = "ConfirmedData" /\ open.fcb # exp2
      BY DEF OpenIsLast
    <2>1. m = n => Head(q) = open
      BY TailAt DEF Direction, OpenIsLast
    <2>2. open.fn # "UnconfirmedData"
      BY DEF Request
    <2>3. m = n => open.fn = "ConfirmedData" /\ open.fcb # exp2
      BY <2>1, <2>2
    <2>4. \A k \in DOMAIN del2 : k \in DOMAIN del \/ k = Len(del) + 1
      BY <1>3
    <2>5. QED
      BY <1>1, <1>3, <2>3, <2>4 DEF Direction, OpenIsLast
  <1>8. QED
    BY <1>1, <1>5, <1>6, <1>7 DEF Direction

\* Nothing is open any more: the call returned or the request was answered.
LEMMA DirectionClosed ==
    ASSUME NEW q, NEW n, NEW open, NEW exp, NEW del, Direction(q, n, open, exp, del)
    PROVE  Direction(q, n, None, exp, del)
  BY DEF Direction, OpenIsLast

\* The sender writes a response.
LEMMA DirectionSecondary ==
    ASSUME NEW q \in Seq(Frame), NEW n \in Nat, NEW open \in Request \cup {None},
           NEW exp \in BOOLEAN, NEW del \in Seq(Nat), NEW f \in Frame,
           Direction(q, n, open, exp, del), ~IsPrimary(f)
    PROVE  Direction(Append(q, f), n, open, exp, del)
  <1>1. \A i \in DOMAIN Append(q, f) :
            IsPrimary(Append(q, f)[i]) => i \in DOMAIN q /\ Append(q, f)[i] = q[i]
    BY AppendAt, LenProperties
  <1>2. FramesInOrder(Append(q, f), n)
    BY <1>1 DEF Direction, FramesInOrder
  <1>3. AheadIsNew(Append(q, f), exp, del)
    BY <1>1 DEF Direction, AheadIsNew
  <1>4. OpenIsLast(Append(q, f), n, open, exp, del)
    BY <1>1 DEF Direction, OpenIsLast
  <1>5. QED
    BY <1>2, <1>3, <1>4 DEF Direction

\* The sender writes its open request once more.
LEMMA DirectionRetransmit ==
    ASSUME NEW q \in Seq(Frame), NEW n \in Nat, NEW open \in Request,
           NEW exp \in BOOLEAN, NEW del \in Seq(Nat),
           Direction(q, n, open, exp, del)
    PROVE  Direction(Append(q, open), n, open, exp, del)
  <1> DEFINE q2 == Append(q, open)
  <1>1. open \in Frame /\ open # None /\ open.fn # "UnconfirmedData" /\ open.id \in Nat
    BY DEF Request, Frame, None, PrimaryFn
  <1>2. /\ DOMAIN q2 = 1..(Len(q) + 1)
        /\ DOMAIN q = 1..Len(q)
        /\ Len(q) \in Nat
        /\ \A i \in DOMAIN q : q2[i] = q[i]
        /\ q2[Len(q) + 1] = open
        /\ \A i \in DOMAIN q2 : i \in DOMAIN q \/ i = Len(q) + 1
    <2> HIDE DEF q2
    <2>1. /\ DOMAIN q2 = 1..(Len(q) + 1)
          /\ DOMAIN q = 1..Len(q)
          /\ \A i \in DOMAIN q : q2[i] = q[i]
          /\ q2[Len(q) + 1] = open
      BY <1>1, AppendAt DEF q2
    <2>2. QED
      BY <2>1, LenProperties
  <1>3. open.id = n /\ 1 <= n
    BY <1>1 DEF Direction, OpenIsLast
  <1> HIDE DEF q2
  <1>4. FramesInOrder(q2, n)
    <2>1. \A i \in DOMAIN q2 : IsPrimary(q2[i]) => 1 <= q2[i].id /\ q2[i].id <= n
      BY <1>1, <1>2, <1>3 DEF Direction, FramesInOrder
    <2>2. ASSUME NEW i \in DOMAIN q2, NEW j \in DOMAIN q2,
                 IsPrimary(q2[i]), IsPrimary(q2[j]), i < j
          PROVE  /\ q2[i].id <= q2[j].id
                 /\ q2[i].id = q2[j].id => q2[i] = q2[j] /\ q2[i].fn # "UnconfirmedData"
      <3>1. i \in DOMAIN q /\ q2[i] = q[i]
        BY <1>2, <2>2
      <3>2. CASE j \in DOMAIN q
        BY <1>2, <2>2, <3>1, <3>2 DEF Direction, FramesInOrder
      <3>3. CASE j = Len(q) + 1
        <4>1. q2[j] = open
          BY <1>2, <3>3
        <4>2. q[i].id <= n /\ (q[i].id = n => q[i] = open)
          BY <1>1, <2>2, <3>1 DEF Direction, FramesInOrder, OpenIsLast
        <4>3. QED
          BY <1>1, <1>3, <3>1, <4>1, <4>2
      <3>4. QED
        BY <1>2, <3>2, <3>3
    <2>3. QED
      BY <2>1, <2>2 DEF FramesInOrder
  <1>5. AheadIsNew(q2, exp, del)
    <2> SUFFICES ASSUME NEW i \in DOMAIN q2, NEW k \in DOMAIN del, IsPrimary(q2[i])
                 PROVE  /\ del[k] <= q2[i].id
                        /\ del[k] = q2[i].id
                             => q2[i].fn = "ConfirmedData" /\ q2[i].fcb # exp
      BY DEF AheadIsNew
    <2>1. CASE i \in DOMAIN q
      BY <1>2, <2>1 DEF Direction, AheadIsNew
    <2>2. CASE i = Len(q) + 1
      <3>1. q2[i] = open
        BY <1>2, <2>2
      <3>2. del[k] <= n
        BY DEF Direction, DeliveredInOrder
      <3>3. del[k] = n => open.fn = "ConfirmedData" /\ open.fcb # exp
        BY <1>1 DEF Direction, OpenIsLast
      <3>4. QED
        BY <1>3, <3>1, <3>2, <3>3
    <2>3. QED
      BY <1>2, <2>1, <2>2
  <1>6. OpenIsLast(q2, n, open, exp, del)
    BY <1>2 DEF Direction, OpenIsLast
  <1>7. QED
    BY <1>4, <1>5, <1>6 DEF Direction, q2

\* A request is issued, and never written.
LEMMA DirectionUnwritten ==
    ASSUME NEW q \in Seq(Frame), NEW n \in Nat, NEW open \in Request \cup {None},
           NEW exp \in BOOLEAN, NEW del \in Seq(Nat),
           Direction(q, n, open, exp, del)
    PROVE  Direction(q, n + 1, None, exp, del)
  <1>1. \A i \in DOMAIN q : q[i].id \in Nat
    BY FrameFields, ElementOfSeq, LenProperties
  <1>2. \A k \in DOMAIN del : del[k] \in Nat
    BY ElementOfSeq, LenProperties
  <1>3. QED
    BY <1>1, <1>2 DEF Direction, DeliveredInOrder, FramesInOrder, OpenIsLast

\* A request is issued and written; if it waits for an answer it is open.
LEMMA DirectionIssue ==
    ASSUME NEW q \in Seq(Frame), NEW n \in Nat, NEW open \in Request \cup {None},
           NEW exp \in BOOLEAN, NEW del \in Seq(Nat), NEW f \in Frame,
           Direction(q, n, open, exp, del), IsPrimary(f), f.id = n + 1,
           NEW open2 \in {None, f}
    PROVE  Direction(Append(q, f), n + 1, open2, exp, del)
  <1> DEFINE q2 == Append(q, f)
  <1>1. /\ DOMAIN q2 = 1..(Len(q) + 1)
        /\ DOMAIN q = 1..Len(q)
        /\ Len(q) \in Nat
        /\ \A i \in DOMAIN q : q2[i] = q[i] /\ q[i].id \in Nat
        /\ q2[Len(q) + 1] = f
    BY AppendAt, LenProperties, FrameFields, ElementOfSeq
  <1>2. \A i \in DOMAIN q2 : i \in DOMAIN q \/ i = Len(q) + 1
    BY <1>1
  <1>3. \A k \in DOMAIN del : del[k] \in Nat /\ del[k] <= n
    BY ElementOfSeq, LenProperties DEF Direction, DeliveredInOrder
  <1>4. \A i \in DOMAIN q : IsPrimary(q[i]) => 1 <= q[i].id /\ q[i].id <= n
    BY DEF Direction, FramesInOrder
  <1> HIDE DEF q2
  <1>5. DeliveredInOrder(n + 1, del)
    BY <1>3 DEF Direction, DeliveredInOrder
  <1>6. FramesInOrder(q2, n + 1)
    <2>1. \A i \in DOMAIN q2 : IsPrimary(q2[i]) => 1 <= q2[i].id /\ q2[i].id <= n + 1
      BY <1>1, <1>2, <1>4
    <2>2. ASSUME NEW i \in DOMAIN q2, NEW j \in DOMAIN q2,
                 IsPrimary(q2[i]), IsPrimary(q2[j]), i < j
          PROVE  /\ q2[i].id <= q2[j].id
                 /\ q2[i].id = q2[j].id => q2[i] = q2[j] /\ q2[i].fn # "UnconfirmedData"
      <3>1. i \in DOMAIN q /\ q2[i] = q[i]
        BY <1>1, <1>2, <2>2
      <3>2. CASE j \in DOMAIN q
        BY <1>1, <2>2, <3>1, <3>2 DEF Direction, FramesInOrder
      <3>3. CASE j = Len(q) + 1
        BY <1>1, <1>4, <2>2, <3>1, <3>3
      <3>4. QED
        BY <1>2, <3>2, <3>3
    <2>3. QED
      BY <2>1, <2>2 DEF FramesInOrder
  <1>7. AheadIsNew(q2, exp, del)
    <2> SUFFICES ASSUME NEW i \in DOMAIN q2, NEW k \in DOMAIN del, IsPrimary(q2[i])
                 PROVE  /\ del[k] <= q2[i].id
                        /\ del[k] = q2[i].id
                             => q2[i].fn = "ConfirmedData" /\ q2[i].fcb # exp
      BY DEF AheadIsNew
    <2>1. CASE i \in DOMAIN q
      BY <1>1, <2>1 DEF Direction, AheadIsNew
    <2>2. CASE i = Len(q) + 1
      BY <1>1, <1>3, <2>2
    <2>3. QED
      BY <1>2, <2>1, <2>2
  <1>8. OpenIsLast(q2, n + 1, open2, exp, del)
    <2>1. \A k \in DOMAIN del : del[k] # n + 1
      BY <1>3
    <2>2. \A i \in DOMAIN q2 : IsPrimary(q2[i]) /\ q2[i].id = n + 1 => q2[i] = f
      BY <1>1, <1>2, <1>4
    <2>3. QED
      BY <2>1, <2>2 DEF OpenIsLast
  <1>9. QED
    BY <1>5, <1>6, <1>7, <1>8 DEF Direction, q2

-----------------------------------------------------------------------------
(* Type correctness.                                                       *)

\* There are two stations, and each is the peer of the other.
LEMMA StationFacts ==
    /\ \A s \in Station : Peer(s) \in Station /\ Peer(s) # s /\ Peer(Peer(s)) = s
    /\ \A s, t \in Station : t = s \/ t = Peer(s)
  BY StrictLinkAssumption DEF Station, Peer

\* The frames the model writes are frames.
LEMMA FramesWritten ==
    /\ \A fn \in PrimaryFn, fcb \in BOOLEAN, n \in Nat : Primary(fn, fcb, n) \in Frame
    /\ \A fn \in PrimaryFn \ {"UnconfirmedData"}, fcb \in BOOLEAN, n \in Nat :
           Primary(fn, fcb, n) \in Request
    /\ \A fn \in SecondaryFn : Secondary(fn) \in Frame /\ ~IsPrimary(Secondary(fn))
    /\ Request \subseteq Frame
    /\ None \notin Request
    /\ \A f \in Request : IsPrimary(f)
  BY DEF Primary, Secondary, Frame, Request, PrimaryFn, SecondaryFn, IsPrimary, None

\* A retransmission is nothing or the pending request.
LEMMA RetransmissionType ==
    ASSUME NEW s \in Station, NEW f \in Request \cup {None}
    PROVE  Retransmission(s, f) \in {<<>>, <<f>>} /\ Retransmission(s, f) \in Seq(Frame)
  BY FramesWritten DEF Retransmission, CanRetry

\* Writing appends to the peer's inbox and to no other.
LEMMA WriteType ==
    ASSUME inbox \in [Station -> Seq(Frame)], NEW s \in Station,
           NEW frames \in Seq(Frame), Write(s, frames)
    PROVE  /\ inbox' \in [Station -> Seq(Frame)]
           /\ inbox'[Peer(s)] = inbox[Peer(s)] \o frames
           /\ inbox'[s] = inbox[s]
  <1>1. inbox[Peer(s)] \o frames \in Seq(Frame)
    BY StationFacts, ConcatProperties
  <1>2. QED
    BY <1>1, StationFacts DEF Write

\* Reading one frame and answering it leaves both inboxes well typed.
LEMMA ExchangeType ==
    ASSUME inbox \in [Station -> Seq(Frame)], NEW s \in Station, inbox[s] # <<>>,
           NEW frames \in Seq(Frame), Exchange(s, frames)
    PROVE  /\ inbox' \in [Station -> Seq(Frame)]
           /\ inbox'[Peer(s)] = inbox[Peer(s)] \o frames
           /\ inbox'[s] = Tail(inbox[s])
  <1>1. \A t \in Station : inbox[t] \o frames \in Seq(Frame)
    BY ConcatProperties
  <1>2. Tail(inbox[s]) \in Seq(Frame)
    BY TailAt
  <1>3. QED
    BY <1>1, <1>2, StationFacts DEF Exchange

\* The variables of a call have their types.
CallsOK ==
    /\ call \in [Station -> {"idle", "receive", "transact"}]
    /\ request \in [Station -> Request \cup {None}]
    /\ attempt \in [Station -> 0..MaximumRetries]
    /\ \A s \in Station : call[s] = "transact" <=> request[s] # None

\* A returning call leaves the call variables well typed.
LEMMA ReturnType == ASSUME CallsOK, NEW s \in Station, Return(s) PROVE CallsOK'
  BY StrictLinkAssumption DEF CallsOK, Return

\* The next iteration of transact stays within the retry bound.
LEMMA RetryType ==
    ASSUME CallsOK, NEW s \in Station, NEW f, Retry(s, f) PROVE CallsOK'
  <1>1. CASE CanRetry(s, f)
    BY <1>1, StrictLinkAssumption DEF CallsOK, Retry, CanRetry
  <1>2. CASE ~CanRetry(s, f)
    BY <1>2, ReturnType DEF Retry
  <1>3. QED
    BY <1>1, <1>2

\* Only the request of the call is recorded as succeeded.
LEMMA SucceedType ==
    ASSUME CallsOK, succeeded \in [Station -> SUBSET Request],
           NEW s \in Station, call[s] = "transact", Succeed(s)
    PROVE  CallsOK' /\ succeeded' \in [Station -> SUBSET Request]
  BY ReturnType DEF Succeed, CallsOK

\* A step that leaves the call alone keeps its variables well typed.
LEMMA CallsUnchanged == ASSUME CallsOK, UNCHANGED callVars PROVE CallsOK'
  BY DEF CallsOK, callVars

\* A frame read is a frame of the stream, and of the function asked for.
LEMMA ReadsFrame ==
    ASSUME inbox \in [Station -> Seq(Frame)], NEW s \in Station, NEW fn, Reads(s, fn)
    PROVE  /\ inbox[s] # <<>> /\ inbox[s] \in Seq(Frame)
           /\ Head(inbox[s]) \in Frame /\ Head(inbox[s]).fn = fn
           /\ Head(inbox[s]).id \in Nat /\ Head(inbox[s]).fcb \in BOOLEAN
           /\ call[s] # "idle"
  BY TailAt, FrameFields DEF Reads

\* What the responses of the handlers leave well typed.
LEMMA ReplyType ==
    ASSUME TypeOK, NEW s \in Station, inbox[s] # <<>>, NEW fn \in SecondaryFn,
           ReplyAndReadOn(s, fn)
    PROVE  CallsOK' /\ inbox' \in [Station -> Seq(Frame)]
  <1>1. CallsOK
    BY DEF TypeOK, CallsOK
  <1>2. CASE Exchange(s, <<Secondary(fn)>>) /\ UNCHANGED callVars
    <2>1. <<Secondary(fn)>> \in Seq(Frame)
      BY FramesWritten
    <2>2. QED
      BY <1>1, <1>2, <2>1, ExchangeType, CallsUnchanged DEF TypeOK
  <1>3. CASE ReplyLost(s)
    <2>1. <<>> \in Seq(Frame)
      OBVIOUS
    <2>2. inbox' \in [Station -> Seq(Frame)]
      BY <1>3, <2>1, ExchangeType DEF TypeOK, ReplyLost
    <2>3. CallsOK'
      BY <1>1, <1>3, ReturnType DEF ReplyLost
    <2>4. QED
      BY <2>2, <2>3
  <1>4. QED
    BY <1>2, <1>3 DEF ReplyAndReadOn

\* Handing over data keeps the types.
LEMMA HandOverType ==
    ASSUME TypeOK, NEW s \in Station, inbox[s] # <<>>, NEW f \in Frame,
           NEW frames \in Seq(Frame), HandOver(s, f, frames)
    PROVE  /\ CallsOK' /\ inbox' \in [Station -> Seq(Frame)]
           /\ delivered' \in [Station -> Seq(Nat)]
  <1>1. CallsOK
    BY DEF TypeOK, CallsOK
  <1>2. CallsOK'
    BY <1>1, ReturnType, CallsUnchanged DEF HandOver
  <1>3. inbox' \in [Station -> Seq(Frame)]
    BY ExchangeType DEF HandOver, TypeOK
  <1>4. delivered' \in [Station -> Seq(Nat)]
    <2>1. Append(delivered[s], f.id) \in Seq(Nat)
      BY FrameFields, AppendProperties DEF TypeOK
    <2>2. QED
      BY <2>1 DEF HandOver, TypeOK
  <1>5. QED
    BY <1>2, <1>3, <1>4

\* The variables other than those of the call and the streams.
RestOK ==
    /\ ready \in [Station -> BOOLEAN]
    /\ nextSendFCB \in [Station -> BOOLEAN]
    /\ expectedFCB \in [Station -> BOOLEAN]
    /\ pending \in [Station -> Request \cup {None}]
    /\ torn \in [Station -> BOOLEAN]
    /\ issued \in [Station -> Nat]

\* The type invariant split into the parts a step disturbs separately.
LEMMA TypeParts ==
    /\ TypeOK <=> /\ RestOK /\ CallsOK /\ inbox \in [Station -> Seq(Frame)]
                  /\ delivered \in [Station -> Seq(Nat)]
                  /\ succeeded \in [Station -> SUBSET Request]
    /\ TypeOK' <=> /\ RestOK' /\ CallsOK' /\ inbox' \in [Station -> Seq(Frame)]
                   /\ delivered' \in [Station -> Seq(Nat)]
                   /\ succeeded' \in [Station -> SUBSET Request]
  BY DEF TypeOK, RestOK, CallsOK

\* Entering transact records a request and keeps the types.
LEMMA BeginType ==
    ASSUME TypeOK, NEW s \in Station, NEW f \in Request, call[s] = "idle", Begin(s, f)
    PROVE  /\ CallsOK' /\ inbox' \in [Station -> Seq(Frame)]
           /\ pending' \in [Station -> Request \cup {None}]
           /\ issued' \in [Station -> Nat]
  <1>1. pending' \in [Station -> Request \cup {None}] /\ issued' \in [Station -> Nat]
    BY DEF Begin, TypeOK
  <1>2. CASE UNCHANGED <<callVars, inbox>>
    BY <1>1, <1>2, CallsUnchanged DEF TypeOK, CallsOK
  <1>3. CASE /\ Write(s, <<f>>)
             /\ call' = [call EXCEPT ![s] = "transact"]
             /\ request' = [request EXCEPT ![s] = f]
             /\ UNCHANGED attempt
    <2>1. <<f>> \in Seq(Frame)
      BY FramesWritten
    <2>2. inbox' \in [Station -> Seq(Frame)]
      BY <1>3, <2>1, WriteType DEF TypeOK
    <2>3. CallsOK'
      BY <1>3, FramesWritten DEF CallsOK, TypeOK
    <2>4. QED
      BY <1>1, <2>2, <2>3
  <1>4. QED
    BY <1>2, <1>3 DEF Begin

\* Every way of starting a call keeps the types.
LEMMA StartType ==
    ASSUME TypeOK, NEW s \in Station, Start(s) PROVE TypeOK'
  <1> USE TypeParts
  <1>0. issued[s] + 1 \in Nat /\ nextSendFCB[s] \in BOOLEAN /\ FALSE \in BOOLEAN
    BY DEF RestOK
  <1>1. CASE Reset(s)
    <2>1. Primary("ResetLink", FALSE, issued[s] + 1) \in Request
      BY <1>0, FramesWritten DEF PrimaryFn
    <2>2. QED
      BY <1>1, <2>1, BeginType DEF Reset, MayBegin, RestOK
  <1>2. CASE SendConfirmed(s)
    <2>1. Primary("ConfirmedData", nextSendFCB[s], issued[s] + 1) \in Request
      BY <1>0, FramesWritten DEF PrimaryFn
    <2>2. QED
      BY <1>2, <2>1, BeginType DEF SendConfirmed, MayBegin, RestOK
  <1>3. CASE KeepAlive(s)
    <2>1. Primary("LinkStatusRequest", FALSE, issued[s] + 1) \in Request
      BY <1>0, FramesWritten DEF PrimaryFn
    <2>2. QED
      BY <1>3, <2>1, BeginType DEF KeepAlive, MayBegin, RestOK
  <1>4. CASE SendUnconfirmed(s)
    <2>0. Primary("UnconfirmedData", FALSE, issued[s] + 1) \in Frame
      BY <1>0, FramesWritten DEF PrimaryFn
    <2>1. <<Primary("UnconfirmedData", FALSE, issued[s] + 1)>> \in Seq(Frame)
      BY <2>0, OneFrame
    <2>2. inbox' \in [Station -> Seq(Frame)]
      BY <1>4, <2>1, WriteType DEF SendUnconfirmed, TypeOK
    <2>3. CallsOK'
      BY <1>4, CallsUnchanged DEF SendUnconfirmed
    <2>4. RestOK'
      BY <1>4 DEF SendUnconfirmed, RestOK, stateVars
    <2>5. QED
      BY <1>4, <2>2, <2>3, <2>4 DEF SendUnconfirmed
  <1>5. CASE Receive(s)
    <2>1. CallsOK'
      BY <1>5, FramesWritten DEF Receive, CallsOK
    <2>2. RestOK'
      BY <1>5 DEF Receive, RestOK, stateVars
    <2>3. QED
      BY <1>5, <2>1, <2>2 DEF Receive
  <1>6. QED
    BY <1>1, <1>2, <1>3, <1>4, <1>5 DEF Start

\* A read that brings no frame writes its frames, and may eat one of its own.
LEMMA LosePlaceType ==
    ASSUME inbox \in [Station -> Seq(Frame)], torn \in [Station -> BOOLEAN],
           NEW s \in Station, NEW frames \in Seq(Frame), LosePlace(s, frames)
    PROVE  /\ inbox' \in [Station -> Seq(Frame)]
           /\ torn' \in [Station -> BOOLEAN]
           /\ inbox'[Peer(s)] = inbox[Peer(s)] \o frames
           /\ \/ inbox'[s] = inbox[s]
              \/ inbox[s] # <<>> /\ inbox'[s] = Tail(inbox[s])
  <1>1. CASE Write(s, frames) /\ torn' \in [Station -> BOOLEAN]
    BY <1>1, WriteType
  <1>2. CASE /\ inbox[s] # <<>> /\ Exchange(s, frames)
             /\ torn' \in [Station -> BOOLEAN]
    BY <1>2, ExchangeType
  <1>3. torn' \in [Station -> BOOLEAN]
    BY DEF LosePlace
  <1>4. QED
    BY <1>1, <1>2, <1>3 DEF LosePlace

\* A read that brings no frame keeps the types.
LEMMA NoFrameType ==
    ASSUME TypeOK, NEW s \in Station, NoFrame(s) PROVE TypeOK'
  <1> USE TypeParts
  <1>0. <<>> \in Seq(Frame)
    OBVIOUS
  <1>1. CASE ReadTimeout(s)
    <2>1. Retransmission(s, pending[s]) \in Seq(Frame)
      BY RetransmissionType DEF TypeOK
    <2>2. inbox' \in [Station -> Seq(Frame)] /\ torn' \in [Station -> BOOLEAN]
      BY <1>1, <2>1, LosePlaceType DEF ReadTimeout, TypeOK
    <2>3. CallsOK'
      BY <1>1, RetryType DEF ReadTimeout
    <2>4. RestOK'
      BY <1>1, <2>2 DEF ReadTimeout, RestOK, stateVars
    <2>5. QED
      BY <1>1, <2>2, <2>3, <2>4 DEF ReadTimeout
  <1>2. CASE Abandon(s) \/ ReadGarbage(s)
    <2>1. LosePlace(s, <<>>) /\ Return(s)
      BY <1>2 DEF Abandon, ReadGarbage
    <2>2. inbox' \in [Station -> Seq(Frame)] /\ torn' \in [Station -> BOOLEAN]
      BY <1>0, <2>1, LosePlaceType DEF TypeOK
    <2>3. CallsOK'
      BY <2>1, ReturnType
    <2>4. RestOK'
      BY <1>2, <2>2 DEF Abandon, ReadGarbage, RestOK, stateVars
    <2>5. QED
      BY <1>2, <2>2, <2>3, <2>4 DEF Abandon, ReadGarbage
  <1>3. QED
    BY <1>1, <1>2 DEF NoFrame

\* Completing the pending request keeps the types.
LEMMA ConcludeType ==
    ASSUME TypeOK, NEW s \in Station, inbox[s] # <<>>, Conclude(s)
    PROVE  /\ CallsOK' /\ inbox' \in [Station -> Seq(Frame)]
           /\ pending' \in [Station -> Request \cup {None}]
           /\ succeeded' \in [Station -> SUBSET Request]
  <1> USE TypeParts
  <1>1. inbox' \in [Station -> Seq(Frame)]
    <2>1. <<>> \in Seq(Frame)
      OBVIOUS
    <2>2. QED
      BY <2>1, ExchangeType DEF Conclude
  <1>2. pending' \in [Station -> Request \cup {None}]
    BY DEF Conclude, RestOK
  <1>3. CASE call[s] = "transact"
    BY <1>1, <1>2, <1>3, SucceedType DEF Conclude
  <1>4. CASE call[s] # "transact"
    BY <1>1, <1>2, <1>4, CallsUnchanged DEF Conclude
  <1>5. QED
    BY <1>3, <1>4

\* Handling a primary frame keeps the types (StrictState.handlePrimary).
LEMMA HandlePrimaryType ==
    ASSUME TypeOK, NEW s \in Station,
           \/ HandleReset(s) \/ RefuseConfirmed(s) \/ RepeatConfirmed(s)
           \/ AcceptConfirmed(s) \/ AcceptUnconfirmed(s) \/ AnswerStatus(s)
    PROVE  TypeOK'
  <1> USE TypeParts
  <1>0. /\ \A fn \in SecondaryFn : <<Secondary(fn)>> \in Seq(Frame)
        /\ {"Ack", "Nack", "LinkStatus"} = SecondaryFn
        /\ <<>> \in Seq(Frame)
    BY FramesWritten DEF SecondaryFn
  <1>1. CASE HandleReset(s)
    <2>1. CallsOK' /\ inbox' \in [Station -> Seq(Frame)]
      BY <1>0, <1>1, ReadsFrame, ReplyType DEF HandleReset
    <2>2. RestOK'
      BY <1>1 DEF HandleReset, RestOK
    <2>3. QED
      BY <1>1, <2>1, <2>2 DEF HandleReset
  <1>2. CASE RefuseConfirmed(s)
    <2>1. inbox[s] # <<>>
      BY <1>2, ReadsFrame DEF RefuseConfirmed
    <2>2. ASSUME ReplyAndReadOn(s, "Nack")
          PROVE  CallsOK' /\ inbox' \in [Station -> Seq(Frame)]
      BY <1>0, <2>1, <2>2, ReplyType
    <2>3. ASSUME /\ Exchange(s, <<Secondary("Nack")>> \o Retransmission(s, pending[s]))
                 /\ Retry(s, pending[s])
          PROVE  CallsOK' /\ inbox' \in [Station -> Seq(Frame)]
      <3>1. <<Secondary("Nack")>> \o Retransmission(s, pending[s]) \in Seq(Frame)
        BY <1>0, RetransmissionType, ConcatProperties DEF RestOK
      <3>2. QED
        BY <2>1, <2>3, <3>1, ExchangeType, RetryType
    <2>4. ASSUME ReplyLost(s)
          PROVE  CallsOK' /\ inbox' \in [Station -> Seq(Frame)]
      BY <1>0, <2>1, <2>4, ExchangeType, ReturnType DEF ReplyLost
    <2>5. CallsOK' /\ inbox' \in [Station -> Seq(Frame)]
      BY <1>2, <2>2, <2>3, <2>4 DEF RefuseConfirmed
    <2>6. RestOK'
      BY <1>2 DEF RefuseConfirmed, RestOK, stateVars
    <2>7. QED
      BY <1>2, <2>5, <2>6 DEF RefuseConfirmed
  <1>3. CASE RepeatConfirmed(s)
    <2>1. CallsOK' /\ inbox' \in [Station -> Seq(Frame)]
      BY <1>0, <1>3, ReadsFrame, ReplyType DEF RepeatConfirmed
    <2>2. RestOK'
      BY <1>3 DEF RepeatConfirmed, RestOK, stateVars
    <2>3. QED
      BY <1>3, <2>1, <2>2 DEF RepeatConfirmed
  <1>4. CASE AcceptConfirmed(s)
    <2>1. inbox[s] # <<>> /\ Head(inbox[s]) \in Frame
      BY <1>4, ReadsFrame DEF AcceptConfirmed
    <2>2. ASSUME HandOver(s, Head(inbox[s]), <<Secondary("Ack")>>)
          PROVE  /\ CallsOK' /\ inbox' \in [Station -> Seq(Frame)]
                 /\ delivered' \in [Station -> Seq(Nat)]
      BY <1>0, <2>1, <2>2, HandOverType
    <2>3. ASSUME ReplyLost(s) /\ UNCHANGED delivered
          PROVE  /\ CallsOK' /\ inbox' \in [Station -> Seq(Frame)]
                 /\ delivered' \in [Station -> Seq(Nat)]
      BY <1>0, <2>1, <2>3, ExchangeType, ReturnType DEF ReplyLost
    <2>4. /\ CallsOK' /\ inbox' \in [Station -> Seq(Frame)]
          /\ delivered' \in [Station -> Seq(Nat)]
      BY <1>4, <2>2, <2>3 DEF AcceptConfirmed
    <2>5. RestOK'
      BY <1>4 DEF AcceptConfirmed, RestOK
    <2>6. QED
      BY <1>4, <2>4, <2>5 DEF AcceptConfirmed
  <1>5. CASE AcceptUnconfirmed(s)
    <2>1. inbox[s] # <<>> /\ Head(inbox[s]) \in Frame
      BY <1>5, ReadsFrame DEF AcceptUnconfirmed
    <2>2. /\ CallsOK' /\ inbox' \in [Station -> Seq(Frame)]
          /\ delivered' \in [Station -> Seq(Nat)]
      BY <1>0, <1>5, <2>1, HandOverType DEF AcceptUnconfirmed
    <2>3. RestOK'
      BY <1>5 DEF AcceptUnconfirmed, RestOK, stateVars
    <2>4. QED
      BY <1>5, <2>2, <2>3 DEF AcceptUnconfirmed
  <1>6. CASE AnswerStatus(s)
    <2>1. inbox[s] # <<>>
      BY <1>6, ReadsFrame DEF AnswerStatus
    <2>2. ASSUME /\ request[s].fn = "LinkStatusRequest"
                 /\ Exchange(s, <<Secondary("LinkStatus")>>)
                 /\ Succeed(s)
          PROVE  /\ CallsOK' /\ inbox' \in [Station -> Seq(Frame)]
                 /\ succeeded' \in [Station -> SUBSET Request]
      <3>1. call[s] = "transact"
        BY <2>2 DEF CallsOK, None
      <3>2. QED
        BY <1>0, <2>1, <2>2, <3>1, ExchangeType, SucceedType
    <2>3. ASSUME /\ Exchange(s, <<Secondary("LinkStatus")>>)
                 /\ UNCHANGED <<callVars, succeeded>>
          PROVE  /\ CallsOK' /\ inbox' \in [Station -> Seq(Frame)]
                 /\ succeeded' \in [Station -> SUBSET Request]
      BY <1>0, <2>1, <2>3, ExchangeType, CallsUnchanged
    <2>4. ASSUME ReplyLost(s) /\ UNCHANGED succeeded
          PROVE  /\ CallsOK' /\ inbox' \in [Station -> Seq(Frame)]
                 /\ succeeded' \in [Station -> SUBSET Request]
      BY <1>0, <2>1, <2>4, ExchangeType, ReturnType DEF ReplyLost
    <2>5. /\ CallsOK' /\ inbox' \in [Station -> Seq(Frame)]
          /\ succeeded' \in [Station -> SUBSET Request]
      BY <1>6, <2>2, <2>3, <2>4 DEF AnswerStatus
    <2>6. RestOK'
      BY <1>6 DEF AnswerStatus, RestOK, stateVars
    <2>7. QED
      BY <1>6, <2>5, <2>6 DEF AnswerStatus
  <1>7. QED
    BY <1>1, <1>2, <1>3, <1>4, <1>5, <1>6

\* Handling a secondary frame keeps the types (StrictState.handleSecondary).
LEMMA HandleSecondaryType ==
    ASSUME TypeOK, NEW s \in Station,
           HandleAck(s) \/ HandleStatus(s) \/ HandleNack(s) \/ RejectSecondary(s)
    PROVE  TypeOK'
  <1> USE TypeParts
  <1>0. <<>> \in Seq(Frame)
    OBVIOUS
  <1>1. CASE HandleAck(s)
    <2>1. inbox[s] # <<>> /\ Conclude(s)
      BY <1>1, ReadsFrame DEF HandleAck
    <2>2. /\ CallsOK' /\ inbox' \in [Station -> Seq(Frame)]
          /\ pending' \in [Station -> Request \cup {None}]
          /\ succeeded' \in [Station -> SUBSET Request]
      BY <2>1, ConcludeType
    <2>3. RestOK'
      BY <1>1, <2>2 DEF HandleAck, RestOK
    <2>4. QED
      BY <1>1, <2>2, <2>3 DEF HandleAck
  <1>2. CASE HandleStatus(s)
    <2>1. inbox[s] # <<>> /\ Conclude(s)
      BY <1>2, ReadsFrame DEF HandleStatus
    <2>2. /\ CallsOK' /\ inbox' \in [Station -> Seq(Frame)]
          /\ pending' \in [Station -> Request \cup {None}]
          /\ succeeded' \in [Station -> SUBSET Request]
      BY <2>1, ConcludeType
    <2>3. RestOK'
      BY <1>2, <2>2 DEF HandleStatus, RestOK
    <2>4. QED
      BY <1>2, <2>2, <2>3 DEF HandleStatus
  <1>3. CASE HandleNack(s)
    <2>1. inbox[s] # <<>>
      BY <1>3, ReadsFrame DEF HandleNack
    <2>2. Retransmission(s, pending[s]) \in Seq(Frame)
      BY RetransmissionType DEF RestOK
    <2>3. ASSUME Exchange(s, <<>>) /\ UNCHANGED callVars
          PROVE  CallsOK' /\ inbox' \in [Station -> Seq(Frame)]
      BY <1>0, <2>1, <2>3, ExchangeType, CallsUnchanged
    <2>4. ASSUME Exchange(s, Retransmission(s, pending[s])) /\ Retry(s, pending[s])
          PROVE  CallsOK' /\ inbox' \in [Station -> Seq(Frame)]
      BY <2>1, <2>2, <2>4, ExchangeType, RetryType
    <2>5. CallsOK' /\ inbox' \in [Station -> Seq(Frame)]
      BY <1>3, <2>3, <2>4 DEF HandleNack
    <2>6. RestOK'
      BY <1>3 DEF HandleNack, RestOK, stateVars
    <2>7. QED
      BY <1>3, <2>5, <2>6 DEF HandleNack
  <1>4. CASE RejectSecondary(s)
    <2>1. inbox[s] # <<>>
      BY <1>4, ReadsFrame DEF RejectSecondary
    <2>2. CallsOK' /\ inbox' \in [Station -> Seq(Frame)]
      BY <1>0, <1>4, <2>1, ExchangeType, ReturnType DEF RejectSecondary
    <2>3. RestOK'
      BY <1>4 DEF RejectSecondary, RestOK, stateVars
    <2>4. QED
      BY <1>4, <2>2, <2>3 DEF RejectSecondary
  <1>5. QED
    BY <1>1, <1>2, <1>3, <1>4

\* Every variable keeps its type, and a call waits for an answer exactly when
\* it has a request (StrictChannel.transact's parameter first).
THEOREM TypeCorrect == Spec => []TypeOK
  <1>1. Init => TypeOK
    BY StrictLinkAssumption DEF Init, TypeOK
  <1>2. TypeOK /\ [Next]_vars => TypeOK'
    <2> SUFFICES ASSUME TypeOK, [Next]_vars PROVE TypeOK'
      OBVIOUS
    <2>1. CASE UNCHANGED vars
      BY <2>1 DEF vars, TypeOK
    <2>2. ASSUME NEW s \in Station, Start(s) \/ Handle(s) \/ NoFrame(s) PROVE TypeOK'
      BY <2>2, StartType, NoFrameType, HandlePrimaryType, HandleSecondaryType DEF Handle
    <2>3. QED
      BY <2>1, <2>2 DEF Next
  <1>3. QED
    BY <1>1, <1>2, PTL DEF Spec

-----------------------------------------------------------------------------
(* The invariant behind at-most-once delivery.                             *)

DirectionInto(t) ==
    Direction(inbox[t], issued[Peer(t)], Open(Peer(t)), expectedFCB[t], delivered[t])

\* What a running call may write: nothing, a response, its open request again,
\* or both.
Answer(frames, open) ==
    \/ frames = <<>>
    \/ \E fn \in SecondaryFn : frames = <<Secondary(fn)>>
    \/ open # None /\ frames = <<open>>
    \/ open # None /\ \E fn \in SecondaryFn : frames = <<Secondary(fn)>> \o <<open>>

\* Concatenation with at most two frames, in terms of Append.
LEMMA ConcatOne ==
    ASSUME NEW q \in Seq(Frame), NEW f \in Frame, NEW g \in Frame
    PROVE  /\ q \o <<>> = q
           /\ q \o <<f>> = Append(q, f)
           /\ q \o (<<f>> \o <<g>>) = Append(Append(q, f), g)
  OBVIOUS

\* A direction survives whatever a call answers to a frame it read.
LEMMA DirectionAnswer ==
    ASSUME NEW q \in Seq(Frame), NEW n \in Nat, NEW open \in Request \cup {None},
           NEW exp \in BOOLEAN, NEW del \in Seq(Nat), NEW frames, NEW open2 \in {None, open},
           Direction(q, n, open, exp, del), Answer(frames, open)
    PROVE  Direction(q \o frames, n, open2, exp, del)
  <1>1. Direction(q \o frames, n, open, exp, del)
    <2>1. CASE frames = <<>>
      <3>1. q \o <<>> = q
        OBVIOUS
      <3>2. QED
        BY <2>1, <3>1
    <2>2. ASSUME NEW fn \in SecondaryFn, frames = <<Secondary(fn)>>
          PROVE  Direction(q \o frames, n, open, exp, del)
      <3>1. Secondary(fn) \in Frame /\ ~IsPrimary(Secondary(fn))
        BY FramesWritten
      <3>2. q \o frames = Append(q, Secondary(fn))
        BY <2>2, <3>1, ConcatOne
      <3>3. QED
        BY <3>1, <3>2, DirectionSecondary
    <2>3. CASE open # None /\ frames = <<open>>
      <3>1. open \in Request /\ open \in Frame
        BY <2>3, FramesWritten
      <3>2. q \o frames = Append(q, open)
        BY <2>3, <3>1, ConcatOne
      <3>3. QED
        BY <3>1, <3>2, DirectionRetransmit
    <2>4. ASSUME open # None, NEW fn \in SecondaryFn,
                 frames = <<Secondary(fn)>> \o <<open>>
          PROVE  Direction(q \o frames, n, open, exp, del)
      <3>1. open \in Request /\ open \in Frame
        BY <2>4, FramesWritten
      <3>2. Secondary(fn) \in Frame /\ ~IsPrimary(Secondary(fn))
        BY FramesWritten
      <3> DEFINE q2 == Append(q, Secondary(fn))
      <3>3. q2 \in Seq(Frame) /\ Direction(q2, n, open, exp, del)
        BY <3>2, DirectionSecondary, AppendAt
      <3>4. q \o frames = Append(q2, open)
        BY <2>4, <3>1, <3>2, ConcatOne
      <3> HIDE DEF q2
      <3>5. QED
        BY <3>1, <3>3, <3>4, DirectionRetransmit
    <2>5. QED
      BY <2>1, <2>2, <2>3, <2>4 DEF Answer
  <1>2. QED
    BY <1>1, DirectionClosed

\* What is open is a request or nothing.
LEMMA OpenType == ASSUME TypeOK PROVE \A s \in Station : Open(s) \in Request \cup {None}
  BY DEF TypeOK, Open

\* A step of s touches nothing of its peer but the peer's inbox.
LEMMA StepIsLocal ==
    ASSUME TypeOK, NEW s \in Station, Start(s) \/ Handle(s) \/ NoFrame(s),
           NEW p, p = Peer(s)
    PROVE  /\ p \in Station /\ Peer(p) = s /\ p # s
           /\ issued'[p] = issued[p]
           /\ Open(p)' = Open(p)
           /\ expectedFCB'[p] = expectedFCB[p]
           /\ delivered'[p] = delivered[p]
  <1>1. p \in Station /\ Peer(p) = s /\ p # s
    BY StationFacts
  <1>2. issued'[p] = issued[p]
    BY <1>1 DEF TypeOK, Start, Handle, NoFrame, Reset, SendConfirmed, KeepAlive,
       SendUnconfirmed, Receive, Begin, HandleReset, RefuseConfirmed, RepeatConfirmed,
       AcceptConfirmed, AcceptUnconfirmed, AnswerStatus, HandleAck, HandleStatus,
       HandleNack, RejectSecondary, ReadTimeout, Abandon, ReadGarbage
  <1>3. expectedFCB'[p] = expectedFCB[p]
    BY <1>1 DEF TypeOK, Start, Handle, NoFrame, Reset, SendConfirmed, KeepAlive,
       SendUnconfirmed, Receive, Begin, HandleReset, RefuseConfirmed, RepeatConfirmed,
       AcceptConfirmed, AcceptUnconfirmed, AnswerStatus, HandleAck, HandleStatus,
       HandleNack, RejectSecondary, ReadTimeout, Abandon, ReadGarbage, stateVars
  <1>4. delivered'[p] = delivered[p]
    BY <1>1 DEF TypeOK, Start, Handle, NoFrame, Reset, SendConfirmed, KeepAlive,
       SendUnconfirmed, Receive, Begin, HandleReset, RefuseConfirmed, RepeatConfirmed,
       AcceptConfirmed, AcceptUnconfirmed, AnswerStatus, HandleAck, HandleStatus,
       HandleNack, RejectSecondary, ReadTimeout, Abandon, ReadGarbage, HandOver
  <1>5. pending'[p] = pending[p]
    BY <1>1 DEF TypeOK, Start, Handle, NoFrame, Reset, SendConfirmed, KeepAlive,
       SendUnconfirmed, Receive, Begin, HandleReset, RefuseConfirmed, RepeatConfirmed,
       AcceptConfirmed, AcceptUnconfirmed, AnswerStatus, HandleAck, HandleStatus,
       HandleNack, RejectSecondary, ReadTimeout, Abandon, ReadGarbage, stateVars, Conclude
  <1>6. call'[p] = call[p]
    <2> USE <1>1 DEF TypeOK, callVars, Return, Succeed, Retry
    <2>1. CASE Start(s)
      BY <2>1 DEF Start, Reset, SendConfirmed, KeepAlive, SendUnconfirmed, Receive, Begin
    <2>2. CASE NoFrame(s)
      BY <2>2 DEF NoFrame, ReadTimeout, Abandon, ReadGarbage
    <2>3. CASE Handle(s)
      BY <2>3 DEF Handle, HandleReset, RefuseConfirmed, RepeatConfirmed, AcceptConfirmed,
         AcceptUnconfirmed, AnswerStatus, HandleAck, HandleStatus, HandleNack,
         RejectSecondary, Conclude, HandOver, ReplyAndReadOn, ReplyLost
    <2>4. QED
      BY <2>1, <2>2, <2>3
  <1>7. QED
    BY <1>1, <1>2, <1>3, <1>4, <1>5, <1>6 DEF Open

\* Reading and timing out never open a request, and issue none.
LEMMA OpenShrinks ==
    ASSUME TypeOK, NEW s \in Station, Handle(s) \/ NoFrame(s)
    PROVE  Open(s)' \in {None, Open(s)} /\ issued'[s] = issued[s]
  <1>1. issued'[s] = issued[s]
    BY DEF Handle, NoFrame, HandleReset, RefuseConfirmed, RepeatConfirmed,
       AcceptConfirmed, AcceptUnconfirmed, AnswerStatus, HandleAck, HandleStatus,
       HandleNack, RejectSecondary, ReadTimeout, Abandon, ReadGarbage
  <1>2. pending'[s] \in {None, pending[s]}
    BY DEF TypeOK, Handle, NoFrame, HandleReset, RefuseConfirmed, RepeatConfirmed,
       AcceptConfirmed, AcceptUnconfirmed, AnswerStatus, HandleAck, HandleStatus,
       HandleNack, RejectSecondary, ReadTimeout, Abandon, ReadGarbage, stateVars, Conclude
  <1>3. call'[s] \in {"idle", call[s]}
    <2> USE DEF TypeOK, callVars, Return, Succeed, Retry
    <2>1. CASE NoFrame(s)
      BY <2>1 DEF NoFrame, ReadTimeout, Abandon, ReadGarbage
    <2>2. CASE Handle(s)
      BY <2>2 DEF Handle, HandleReset, RefuseConfirmed, RepeatConfirmed, AcceptConfirmed,
         AcceptUnconfirmed, AnswerStatus, HandleAck, HandleStatus, HandleNack,
         RejectSecondary, Conclude, HandOver, ReplyAndReadOn, ReplyLost
    <2>3. QED
      BY <2>1, <2>2
  <1>4. QED
    BY <1>1, <1>2, <1>3 DEF Open

\* What a retransmitting call writes is an Answer.
LEMMA RetransmissionAnswers ==
    ASSUME TypeOK, NEW s \in Station, call[s] = "transact"
    PROVE  /\ Answer(Retransmission(s, pending[s]), Open(s))
           /\ Answer(<<Secondary("Nack")>> \o Retransmission(s, pending[s]), Open(s))
  <1>1. Open(s) = pending[s] /\ "Nack" \in SecondaryFn
    BY DEF Open, SecondaryFn
  <1>2. CASE CanRetry(s, pending[s])
    BY <1>1, <1>2 DEF CanRetry, Retransmission, Answer
  <1>3. CASE ~CanRetry(s, pending[s])
    <2>1. <<Secondary("Nack")>> \o <<>> = <<Secondary("Nack")>>
      BY FramesWritten, OneFrame, ConcatOne, <1>1
    <2>2. QED
      BY <1>1, <1>3, <2>1 DEF Retransmission, Answer
  <1>4. QED
    BY <1>2, <1>3

\* Every frame read is answered with an Answer.
LEMMA HandleAnswers ==
    ASSUME TypeOK, NEW s \in Station, Handle(s)
    PROVE  /\ inbox[s] # <<>> /\ call[s] # "idle"
           /\ \E frames : Answer(frames, Open(s)) /\ Exchange(s, frames)
  <1>1. {"Ack", "Nack", "LinkStatus"} \subseteq SecondaryFn
    BY DEF SecondaryFn
  <1>2. inbox[s] # <<>> /\ call[s] # "idle"
    BY DEF Handle, HandleReset, RefuseConfirmed, RepeatConfirmed, AcceptConfirmed,
       AcceptUnconfirmed, AnswerStatus, HandleAck, HandleStatus, HandleNack,
       RejectSecondary, Reads
  <1>3. \/ Exchange(s, <<>>)
        \/ \E fn \in {"Ack", "Nack", "LinkStatus"} : Exchange(s, <<Secondary(fn)>>)
        \/ /\ call[s] = "transact"
           /\ \/ Exchange(s, Retransmission(s, pending[s]))
              \/ Exchange(s, <<Secondary("Nack")>> \o Retransmission(s, pending[s]))
    BY DEF Handle, HandleReset, RefuseConfirmed, RepeatConfirmed, AcceptConfirmed,
       AcceptUnconfirmed, AnswerStatus, HandleAck, HandleStatus, HandleNack,
       RejectSecondary, ReplyAndReadOn, ReplyLost, HandOver, Conclude
  <1>4. CASE Exchange(s, <<>>)
    BY <1>2, <1>4 DEF Answer
  <1>5. CASE \E fn \in {"Ack", "Nack", "LinkStatus"} : Exchange(s, <<Secondary(fn)>>)
    BY <1>1, <1>2, <1>5 DEF Answer
  <1>6. CASE /\ call[s] = "transact"
             /\ \/ Exchange(s, Retransmission(s, pending[s]))
                \/ Exchange(s, <<Secondary("Nack")>> \o Retransmission(s, pending[s]))
    BY <1>2, <1>6, RetransmissionAnswers
  <1>7. QED
    BY <1>3, <1>4, <1>5, <1>6

\* An Answer is a sequence of frames.
LEMMA AnswerType ==
    ASSUME NEW open \in Request \cup {None}, NEW frames, Answer(frames, open)
    PROVE  frames \in Seq(Frame)
  <1>1. \A fn \in SecondaryFn : <<Secondary(fn)>> \in Seq(Frame)
    BY FramesWritten, OneFrame
  <1>2. open # None => <<open>> \in Seq(Frame)
    BY FramesWritten, OneFrame
  <1>3. \A a, b \in Seq(Frame) : a \o b \in Seq(Frame)
    BY ConcatProperties
  <1>4. CASE frames = <<>>
    BY <1>4
  <1>5. CASE frames # <<>>
    BY <1>1, <1>2, <1>3, <1>5 DEF Answer
  <1>6. QED
    BY <1>4, <1>5

\* The direction into the peer of the station that reads or times out.
LEMMA AnsweredDirection ==
    ASSUME TypeOK, FCBInv, NEW s \in Station, Handle(s) \/ NoFrame(s)
    PROVE  DirectionInto(Peer(s))'
  <1> DEFINE p == Peer(s)
  <1>1. /\ p \in Station /\ Peer(p) = s
        /\ expectedFCB'[p] = expectedFCB[p] /\ delivered'[p] = delivered[p]
    BY StepIsLocal
  <1>2. Open(s)' \in {None, Open(s)} /\ issued'[s] = issued[s]
    BY OpenShrinks
  <1>3. Open(s) \in Request \cup {None}
    BY OpenType
  <1>4. PICK frames : Answer(frames, Open(s)) /\ inbox'[p] = inbox[p] \o frames
    <2>1. CASE Handle(s)
      BY <1>3, <2>1, HandleAnswers, AnswerType, ExchangeType DEF TypeOK
    <2>2. CASE ReadTimeout(s)
      <3>1. call[s] = "transact" /\ LosePlace(s, Retransmission(s, pending[s]))
        BY <2>2 DEF ReadTimeout
      <3>2. Answer(Retransmission(s, pending[s]), Open(s))
        BY <3>1, RetransmissionAnswers
      <3>3. QED
        BY <1>3, <3>1, <3>2, AnswerType, LosePlaceType DEF TypeOK
    <2>3. CASE Abandon(s) \/ ReadGarbage(s)
      <3>1. LosePlace(s, <<>>) /\ Answer(<<>>, Open(s))
        BY <2>3 DEF Abandon, ReadGarbage, Answer
      <3>2. QED
        BY <1>3, <3>1, AnswerType, LosePlaceType DEF TypeOK
    <2>4. QED
      BY <2>1, <2>2, <2>3 DEF NoFrame
  <1>5. Direction(inbox[p], issued[s], Open(s), expectedFCB[p], delivered[p])
    BY <1>1 DEF FCBInv
  <1>6. Direction(inbox[p] \o frames, issued[s], Open(s)', expectedFCB[p], delivered[p])
    <2>1. /\ inbox[p] \in Seq(Frame) /\ issued[s] \in Nat
          /\ expectedFCB[p] \in BOOLEAN /\ delivered[p] \in Seq(Nat)
      BY <1>1 DEF TypeOK
    <2> HIDE DEF p
    <2>2. QED
      BY <1>2, <1>3, <1>4, <1>5, <2>1, DirectionAnswer
  <1>7. QED
    BY <1>1, <1>2, <1>4, <1>6 DEF DirectionInto

\* The direction into the station that reads: what it expects and hands over.
LEMMA ReaderDirection ==
    ASSUME TypeOK, FCBInv, NEW s \in Station, Handle(s)
    PROVE  DirectionInto(s)'
  <1> DEFINE q == inbox[s]
             n == issued[Peer(s)]
             open == Open(Peer(s))
             exp == expectedFCB[s]
             del == delivered[s]
             f == Head(q)
  <1>1. /\ issued'[Peer(s)] = n /\ Open(Peer(s))' = open
        /\ Peer(s) \in Station
    BY StepIsLocal
  <1>2. /\ q \in Seq(Frame) /\ n \in Nat /\ open \in Request \cup {None}
        /\ exp \in BOOLEAN /\ del \in Seq(Nat)
    BY <1>1, OpenType DEF TypeOK
  <1>3. Direction(q, n, open, exp, del)
    BY DEF FCBInv
  <1>4. q # <<>> /\ inbox'[s] = Tail(q)
    <2>1. q # <<>>
      BY HandleAnswers
    <2>2. QED
      BY <2>1, HandleAnswers, AnswerType, OpenType, ExchangeType DEF TypeOK
  <1>5. f \in Frame /\ f.fcb \in BOOLEAN /\ f.id \in Nat
    BY <1>2, <1>4, TailAt, FrameFields
  <1>6. IsPrimary(f) => \A k \in DOMAIN del :
                            del[k] = f.id => f.fn = "ConfirmedData" /\ f.fcb # exp
    BY <1>2, <1>3, <1>4, TailAt DEF Direction, AheadIsNew
  <1>7. SUFFICES Direction(Tail(q), n, open, expectedFCB'[s], delivered'[s])
    BY <1>1, <1>4 DEF DirectionInto
  <1> HIDE DEF q, n, open, exp, del, f
  <1>8. CASE HandleReset(s)
    <2>1. f.fn = "ResetLink" /\ IsPrimary(f)
      BY <1>8 DEF HandleReset, Reads, f, q, IsPrimary, PrimaryFn
    <2>2. expectedFCB'[s] = TRUE /\ delivered'[s] = del
      BY <1>8 DEF HandleReset, TypeOK, del
    <2>3. QED
      BY <1>2, <1>3, <1>4, <1>6, <2>1, <2>2, DirectionFresh DEF f
  <1>9. CASE AcceptConfirmed(s)
    <2>1. f.fn = "ConfirmedData" /\ IsPrimary(f) /\ f.fcb = exp
      BY <1>9 DEF AcceptConfirmed, Reads, Duplicate, f, q, exp, IsPrimary, PrimaryFn
    <2>2. expectedFCB'[s] = ~exp /\ expectedFCB'[s] \in BOOLEAN
      BY <1>2, <1>9 DEF AcceptConfirmed, TypeOK, exp
    <2>3. f.fcb # expectedFCB'[s]
      BY <1>2, <2>1, <2>2
    <2>4. \A k \in DOMAIN del : del[k] # f.id
      BY <1>6, <2>1
    <2>5. CASE delivered'[s] = del
      BY <1>2, <1>3, <1>4, <2>1, <2>2, <2>4, <2>5, DirectionFresh DEF f
    <2>6. CASE delivered'[s] = Append(del, f.id)
      BY <1>2, <1>3, <1>4, <2>1, <2>2, <2>3, <2>4, <2>6, DirectionHandOver DEF f
    <2>7. delivered'[s] = del \/ delivered'[s] = Append(del, f.id)
      BY <1>9 DEF AcceptConfirmed, HandOver, TypeOK, del, f, q
    <2>8. QED
      BY <2>5, <2>6, <2>7
  <1>10. CASE AcceptUnconfirmed(s)
    <2>1. f.fn = "UnconfirmedData" /\ IsPrimary(f)
      BY <1>10 DEF AcceptUnconfirmed, Reads, f, q, IsPrimary, PrimaryFn
    <2>2. expectedFCB'[s] = exp
      BY <1>10 DEF AcceptUnconfirmed, stateVars, exp
    <2>3. \A k \in DOMAIN del : del[k] # f.id
      BY <1>6, <2>1
    <2>4. CASE delivered'[s] = del
      BY <1>2, <1>3, <1>4, <2>2, <2>4, DirectionTail
    <2>5. CASE delivered'[s] = Append(del, f.id)
      BY <1>2, <1>3, <1>4, <2>1, <2>2, <2>3, <2>5, DirectionHandOver DEF f
    <2>6. delivered'[s] = del \/ delivered'[s] = Append(del, f.id)
      BY <1>10 DEF AcceptUnconfirmed, HandOver, TypeOK, del, f, q
    <2>7. QED
      BY <2>4, <2>5, <2>6
  <1>11. CASE \/ RefuseConfirmed(s) \/ RepeatConfirmed(s) \/ AnswerStatus(s)
              \/ HandleAck(s) \/ HandleStatus(s) \/ HandleNack(s) \/ RejectSecondary(s)
    <2>1. expectedFCB'[s] = exp /\ delivered'[s] = del
      BY <1>11 DEF RefuseConfirmed, RepeatConfirmed, AnswerStatus, HandleAck, HandleStatus,
         HandleNack, RejectSecondary, stateVars, exp, del
    <2>2. QED
      BY <1>2, <1>3, <1>4, <2>1, DirectionTail
  <1>12. QED
    BY <1>8, <1>9, <1>10, <1>11 DEF Handle

\* A call that starts leaves the direction into it alone; one that reads no
\* frame may lose what it was reading.
LEMMA IdleDirection ==
    ASSUME TypeOK, FCBInv, NEW s \in Station, Start(s) \/ NoFrame(s)
    PROVE  DirectionInto(s)'
  <1>1. /\ issued'[Peer(s)] = issued[Peer(s)] /\ Open(Peer(s))' = Open(Peer(s))
        /\ Peer(s) \in Station
    BY StepIsLocal
  <1>2. expectedFCB'[s] = expectedFCB[s] /\ delivered'[s] = delivered[s]
    BY DEF Start, NoFrame, Reset, SendConfirmed, KeepAlive, SendUnconfirmed, Receive,
       ReadTimeout, Abandon, ReadGarbage, stateVars
  <1>3. inbox'[s] = inbox[s] \/ (inbox[s] # <<>> /\ inbox'[s] = Tail(inbox[s]))
    <2>1. CASE Start(s)
      <3>1. UNCHANGED inbox \/ \E frames : Write(s, frames)
        BY <2>1 DEF Start, Reset, SendConfirmed, KeepAlive, SendUnconfirmed, Receive, Begin
      <3>2. QED
        BY <3>1, StationFacts DEF Write, TypeOK
    <2>2. CASE NoFrame(s)
      <3>1. PICK frames \in {<<>>, Retransmission(s, pending[s])} : LosePlace(s, frames)
        BY <2>2 DEF NoFrame, ReadTimeout, Abandon, ReadGarbage
      <3>2. <<>> \in Seq(Frame) /\ Retransmission(s, pending[s]) \in Seq(Frame)
        BY RetransmissionType DEF TypeOK
      <3>3. QED
        BY <3>1, <3>2, LosePlaceType DEF TypeOK
    <2>3. QED
      BY <2>1, <2>2
  <1>4. Direction(inbox[s], issued[Peer(s)], Open(Peer(s)), expectedFCB[s], delivered[s])
    BY DEF FCBInv
  <1>5. Direction(inbox'[s], issued[Peer(s)], Open(Peer(s)), expectedFCB[s], delivered[s])
    BY <1>1, <1>3, <1>4, OpenType, DirectionTail DEF TypeOK
  <1>6. QED
    BY <1>1, <1>2, <1>5 DEF DirectionInto

\* The direction into the peer of the station that starts a call.
LEMMA StartedDirection ==
    ASSUME TypeOK, FCBInv, NEW s \in Station, Start(s)
    PROVE  DirectionInto(Peer(s))'
  <1> DEFINE p == Peer(s)
             q == inbox[p]
             n == issued[s]
             exp == expectedFCB[p]
             del == delivered[p]
  <1>1. /\ p \in Station /\ Peer(p) = s
        /\ expectedFCB'[p] = exp /\ delivered'[p] = del
    BY StepIsLocal
  <1>2. /\ q \in Seq(Frame) /\ n \in Nat /\ Open(s) \in Request \cup {None}
        /\ exp \in BOOLEAN /\ del \in Seq(Nat) /\ nextSendFCB[s] \in BOOLEAN
    BY <1>1, OpenType DEF TypeOK
  <1>3. Direction(q, n, Open(s), exp, del)
    BY <1>1 DEF FCBInv
  <1>4. SUFFICES Direction(inbox'[p], issued'[s], Open(s)', exp, del)
    BY <1>1 DEF DirectionInto
  <1>5. ASSUME NEW fn \in {"ResetLink", "ConfirmedData", "LinkStatusRequest"},
               NEW fcb \in BOOLEAN, call[s] = "idle", Begin(s, Primary(fn, fcb, n + 1))
        PROVE  Direction(inbox'[p], issued'[s], Open(s)', exp, del)
    <2> DEFINE f == Primary(fn, fcb, n + 1)
    <2>1. f \in Frame /\ f \in Request /\ IsPrimary(f) /\ f.id = n + 1
      BY <1>2, FramesWritten DEF PrimaryFn, Primary
    <2>2. issued'[s] = n + 1 /\ pending'[s] = f
      BY <1>5 DEF Begin, TypeOK
    <2>3. CASE UNCHANGED <<callVars, inbox>>
      <3>1. Open(s)' = None /\ inbox'[p] = q
        BY <1>5, <2>3 DEF Open, callVars
      <3>2. QED
        BY <1>2, <1>3, <2>2, <3>1, DirectionUnwritten
    <2>4. CASE Write(s, <<f>>) /\ call' = [call EXCEPT ![s] = "transact"]
      <3>1. Open(s)' = f
        BY <2>2, <2>4 DEF Open, TypeOK
      <3>2. inbox'[p] = Append(q, f)
        BY <1>1, <1>2, <2>1, <2>4, ConcatOne DEF Write, TypeOK
      <3> HIDE DEF f, p, q, n, exp, del
      <3>3. QED
        BY <1>2, <1>3, <2>1, <2>2, <3>1, <3>2, DirectionIssue
    <2>5. QED
      BY <1>5, <2>3, <2>4 DEF Begin
  <1>6. CASE Reset(s) \/ SendConfirmed(s) \/ KeepAlive(s)
    BY <1>2, <1>5, <1>6 DEF Reset, SendConfirmed, KeepAlive, MayBegin
  <1>7. CASE SendUnconfirmed(s)
    <2> DEFINE f == Primary("UnconfirmedData", FALSE, n + 1)
    <2>1. f \in Frame /\ IsPrimary(f) /\ f.id = n + 1
      <3>1. f.fn = "UnconfirmedData" /\ f.fcb = FALSE /\ f.id = n + 1
        BY DEF Primary
      <3>2. "UnconfirmedData" \in PrimaryFn /\ n + 1 \in Nat
        BY <1>2 DEF PrimaryFn
      <3>3. f \in Frame
        BY <3>2, FramesWritten
      <3>4. QED
        BY <3>1, <3>2, <3>3 DEF IsPrimary
    <2>2. issued'[s] = n + 1 /\ Open(s)' = None
      BY <1>7 DEF SendUnconfirmed, TypeOK, Open, callVars
    <2>3. inbox'[p] = Append(q, f)
      BY <1>1, <1>2, <1>7, <2>1, ConcatOne DEF SendUnconfirmed, Write, TypeOK
    <2> HIDE DEF f, p, q, n, exp, del
    <2>4. QED
      BY <1>2, <1>3, <2>1, <2>2, <2>3, DirectionIssue
  <1>8. CASE Receive(s)
    <2>1. issued'[s] = n /\ inbox'[p] = q /\ Open(s)' = None
      BY <1>8 DEF Receive, TypeOK, Open
    <2>2. QED
      BY <1>3, <2>1, DirectionClosed
  <1>9. QED
    BY <1>6, <1>7, <1>8 DEF Start

\* Every step preserves the frame count bit invariant.
LEMMA FCBStep == ASSUME TypeOK, FCBInv, [Next]_vars PROVE FCBInv'
  <1>1. CASE UNCHANGED vars
    BY <1>1 DEF vars, FCBInv, Open
  <1>2. ASSUME NEW s \in Station, Start(s) \/ Handle(s) \/ NoFrame(s)
        PROVE  FCBInv'
    <2>1. DirectionInto(s)'
      BY <1>2, ReaderDirection, IdleDirection
    <2>2. DirectionInto(Peer(s))'
      BY <1>2, AnsweredDirection, StartedDirection
    <2>3. \A t \in Station : t = s \/ t = Peer(s)
      BY StationFacts
    <2>4. \A t \in Station : DirectionInto(t)'
      BY <2>1, <2>2, <2>3
    <2>5. QED
      BY <2>4 DEF FCBInv, DirectionInto
  <1>3. QED
    BY <1>1, <1>2 DEF Next

\* The frame count bit invariant holds of two new stations.
LEMMA FCBInitially == Init => FCBInv
  <1> SUFFICES ASSUME Init, NEW s \in Station
               PROVE  Direction(inbox[s], issued[Peer(s)], Open(Peer(s)),
                                expectedFCB[s], delivered[s])
    BY DEF FCBInv
  <1>1. /\ inbox[s] = <<>> /\ delivered[s] = <<>> /\ Open(Peer(s)) = None
    BY StationFacts DEF Init, Open
  <1>2. DOMAIN inbox[s] = {} /\ DOMAIN delivered[s] = {}
    BY <1>1
  <1>3. QED
    BY <1>1, <1>2 DEF Direction, DeliveredInOrder, FramesInOrder, AheadIsNew, OpenIsLast

\* The frame count bit invariant: what is on the wire, what is open and what
\* the receiver expects always agree well enough to recognise a repetition.
THEOREM FCBInvariant == Spec => []FCBInv
  <1>1. TypeOK /\ FCBInv /\ [Next]_vars => FCBInv'
    BY FCBStep
  <1>2. QED
    BY <1>1, FCBInitially, TypeCorrect, PTL DEF Spec

\* Whatever fails, is retried or is reset, no user data reaches a station's
\* caller twice or out of order (handleConfirmedPrimary, Retransmission).
THEOREM AtMostOnceDelivery == Spec => []AtMostOnce
  <1>1. FCBInv => AtMostOnce
    BY DEF FCBInv, Direction, DeliveredInOrder, AtMostOnce
  <1>2. QED
    BY <1>1, FCBInvariant, PTL

-----------------------------------------------------------------------------
(* A link on which one station resets and sends.                           *)

\* How the link is used when AckedNotLost holds: one station resets and sends,
\* its peer passes a handler, and every frame a call means to write is written
\* and is read whole.
OneWay(s) ==
    /\ Resetters \cup Senders \subseteq {s}
    /\ Peer(s) \in WithHandler
    /\ Faults \subseteq {"cancelDuring", "handlerFails"}

\* The frames that set or carry the frame count bit.
Mark(f) == f.fn \in {"ResetLink", "ConfirmedData"}

\* Where the marks of a stream are: one after the other, the first, the last.
NextMark(q, i, j) ==
    i < j /\ Mark(q[i]) /\ Mark(q[j]) /\ \A k \in DOMAIN q : i < k /\ k < j => ~Mark(q[k])
FirstMark(q, j) == Mark(q[j]) /\ \A k \in DOMAIN q : k < j => ~Mark(q[k])
LastMark(q, i) == Mark(q[i]) /\ \A k \in DOMAIN q : i < k => ~Mark(q[k])
NoMark(q) == \A k \in DOMAIN q : ~Mark(q[k])

\* On its way the bit starts with TRUE after a reset and alternates with every
\* new data; only copies of the same data repeat it.
Alternates(q) ==
    \A i, j \in DOMAIN q : NextMark(q, i, j) /\ q[j].fn = "ConfirmedData" =>
        IF q[i].fn = "ResetLink" THEN q[j].fcb
        ELSE (q[i].id = q[j].id) <=> (q[j].fcb <=> q[i].fcb)

\* The data the receiver reads first has the bit it expects, or is known to it.
\* rdy and exp are its ready and expectedFCB, got what it has handed over.
Expected(q, rdy, exp, got) ==
    \A j \in DOMAIN q : FirstMark(q, j) /\ q[j].fn = "ConfirmedData" =>
        rdy /\ ((q[j].fcb <=> exp) \/ q[j].id \in got)

\* The last mark on its way is the sender's pending request, or else the bit
\* the sender will use is the one that follows it.
Follows(q, next, open) ==
    \A i \in DOMAIN q : LastMark(q, i) =>
        IF Mark(open) THEN q[i] = open
        ELSE next <=> (q[i].fn = "ResetLink" \/ ~q[i].fcb)

\* With no mark on its way the bits of both ends agree: what is pending is
\* known to the receiver, and what is not yet sent will be new to it.
Agree(q, rdy, exp, got, next, open, begun) ==
    NoMark(q) /\ begun =>
        /\ rdy
        /\ IF open.fn = "ConfirmedData" THEN (open.fcb <=> ~exp) /\ open.id \in got
           ELSE next <=> exp

\* The bit the sender uses is that of its pending request.
OpenBit(next, open) ==
    /\ open.fn = "ConfirmedData" => (open.fcb <=> next)
    /\ open.fn = "ResetLink" => next

Train(q, rdy, exp, got, next, open, begun) ==
    /\ Alternates(q)
    /\ Expected(q, rdy, exp, got)
    /\ Follows(q, next, open)
    /\ Agree(q, rdy, exp, got, next, open, begun)
    /\ OpenBit(next, open)

\* The marks of a stream of which the first frame has been read.
LEMMA MarksOfTail ==
    ASSUME NEW q \in Seq(Frame), q # <<>>
    PROVE  /\ \A i, j \in DOMAIN Tail(q) : NextMark(Tail(q), i, j) => NextMark(q, i + 1, j + 1)
           /\ \A i \in DOMAIN Tail(q) : LastMark(Tail(q), i) => LastMark(q, i + 1)
           /\ \A i \in DOMAIN Tail(q) : FirstMark(Tail(q), i) =>
                IF Mark(Head(q)) THEN NextMark(q, 1, i + 1) ELSE FirstMark(q, i + 1)
           /\ NoMark(Tail(q)) =>
                IF Mark(Head(q)) THEN LastMark(q, 1) ELSE NoMark(q)
           /\ Mark(Head(q)) => FirstMark(q, 1)
  <1> DEFINE r == Tail(q)
  <1>1. /\ Head(q) = q[1] /\ 1 \in DOMAIN q
        /\ \A k \in DOMAIN q : k \in Nat /\ k >= 1 /\ (k # 1 => k - 1 \in DOMAIN r /\ r[k - 1] = q[k])
    BY HeadTailProperties, LenProperties
  <1>2. \A i \in DOMAIN r : i \in Nat /\ i >= 1 /\ i + 1 \in DOMAIN q /\ r[i] = q[i + 1]
    BY TailAt
  <1> HIDE DEF r
  <1>3. ASSUME NEW i \in DOMAIN r, NEW j \in DOMAIN r, NextMark(r, i, j)
        PROVE  NextMark(q, i + 1, j + 1)
    <2>1. i + 1 < j + 1 /\ Mark(q[i + 1]) /\ Mark(q[j + 1])
      BY <1>2, <1>3 DEF NextMark
    <2>2. ASSUME NEW k \in DOMAIN q, i + 1 < k, k < j + 1
          PROVE  ~Mark(q[k])
      <3>1. k \in Nat /\ i \in Nat /\ j \in Nat /\ i >= 1
        BY <1>1, <1>2
      <3>2. k # 1 /\ i < k - 1 /\ k - 1 < j
        BY <3>1, <2>2
      <3>3. QED
        BY <1>1, <1>3, <3>2 DEF NextMark
    <2>3. QED
      BY <2>1, <2>2 DEF NextMark
  <1>4. ASSUME NEW i \in DOMAIN r, LastMark(r, i)
        PROVE  LastMark(q, i + 1)
    <2>1. Mark(q[i + 1])
      BY <1>2, <1>4 DEF LastMark
    <2>2. ASSUME NEW k \in DOMAIN q, i + 1 < k
          PROVE  ~Mark(q[k])
      <3>1. k \in Nat /\ i \in Nat /\ i >= 1
        BY <1>1, <1>2
      <3>2. k # 1 /\ i < k - 1
        BY <3>1, <2>2
      <3>3. QED
        BY <1>1, <1>4, <3>2 DEF LastMark
    <2>3. QED
      BY <2>1, <2>2 DEF LastMark
  <1>5. ASSUME NEW i \in DOMAIN r, FirstMark(r, i)
        PROVE  IF Mark(Head(q)) THEN NextMark(q, 1, i + 1) ELSE FirstMark(q, i + 1)
    <2>1. i \in Nat /\ i >= 1 /\ Mark(q[i + 1]) /\ 1 < i + 1
      BY <1>2, <1>5 DEF FirstMark
    <2>2. ASSUME NEW k \in DOMAIN q, k # 1, k < i + 1
          PROVE  ~Mark(q[k])
      <3>1. k \in Nat /\ k - 1 < i
        BY <1>1, <2>1, <2>2
      <3>2. QED
        BY <1>1, <1>5, <2>2, <3>1 DEF FirstMark
    <2>3. CASE Mark(Head(q))
      <3>1. \A k \in DOMAIN q : 1 < k => k # 1
        OBVIOUS
      <3>2. QED
        BY <1>1, <2>1, <2>2, <2>3, <3>1 DEF NextMark
    <2>4. CASE ~Mark(Head(q))
      BY <1>1, <2>1, <2>2, <2>4 DEF FirstMark
    <2>5. QED
      BY <2>3, <2>4
  <1>6. ASSUME NoMark(r)
        PROVE  IF Mark(Head(q)) THEN LastMark(q, 1) ELSE NoMark(q)
    <2>1. \A k \in DOMAIN q : k # 1 => ~Mark(q[k])
      BY <1>1, <1>6 DEF NoMark
    <2>2. \A k \in DOMAIN q : 1 < k => k # 1
      OBVIOUS
    <2>3. QED
      BY <1>1, <2>1, <2>2 DEF LastMark, NoMark
  <1>7. ASSUME Mark(Head(q)) PROVE FirstMark(q, 1)
    BY <1>1, <1>7 DEF FirstMark
  <1>8. QED
    BY <1>3, <1>4, <1>5, <1>6, <1>7 DEF r

\* The marks of a stream to which a frame that is no mark has been written.
LEMMA MarksOfOther ==
    ASSUME NEW q \in Seq(Frame), NEW f \in Frame, ~Mark(f)
    PROVE  /\ \A i, j \in DOMAIN Append(q, f) : NextMark(Append(q, f), i, j) =>
                i \in DOMAIN q /\ j \in DOMAIN q /\ NextMark(q, i, j)
           /\ \A i \in DOMAIN Append(q, f) : FirstMark(Append(q, f), i) =>
                i \in DOMAIN q /\ FirstMark(q, i)
           /\ \A i \in DOMAIN Append(q, f) : LastMark(Append(q, f), i) =>
                i \in DOMAIN q /\ LastMark(q, i)
           /\ NoMark(Append(q, f)) <=> NoMark(q)
  <1> DEFINE r == Append(q, f)
  <1>1. /\ \A i \in DOMAIN q : i \in DOMAIN r /\ r[i] = q[i]
        /\ \A i \in DOMAIN r : i \notin DOMAIN q => r[i] = f
    BY AppendAt, LenProperties
  <1> HIDE DEF r
  <1>2. \A i \in DOMAIN r : Mark(r[i]) => i \in DOMAIN q
    BY <1>1
  <1>3. \A i, j \in DOMAIN r : NextMark(r, i, j) =>
                i \in DOMAIN q /\ j \in DOMAIN q /\ NextMark(q, i, j)
    BY <1>1, <1>2 DEF NextMark
  <1>4. \A i \in DOMAIN r : FirstMark(r, i) => i \in DOMAIN q /\ FirstMark(q, i)
    BY <1>1, <1>2 DEF FirstMark
  <1>5. \A i \in DOMAIN r : LastMark(r, i) => i \in DOMAIN q /\ LastMark(q, i)
    BY <1>1, <1>2 DEF LastMark
  <1>6. NoMark(r) <=> NoMark(q)
    BY <1>1, <1>2 DEF NoMark
  <1>7. QED
    BY <1>3, <1>4, <1>5, <1>6 DEF r

\* The marks of a stream to which one more has been written.
LEMMA MarksOfMore ==
    ASSUME NEW q \in Seq(Frame), NEW f \in Frame, Mark(f)
    PROVE  /\ \A i, j \in DOMAIN Append(q, f) : NextMark(Append(q, f), i, j) =>
                /\ i \in DOMAIN q
                /\ IF j \in DOMAIN q THEN NextMark(q, i, j)
                   ELSE Append(q, f)[j] = f /\ LastMark(q, i)
           /\ \A i \in DOMAIN Append(q, f) : FirstMark(Append(q, f), i) =>
                IF i \in DOMAIN q THEN FirstMark(q, i) ELSE Append(q, f)[i] = f /\ NoMark(q)
           /\ \A i \in DOMAIN Append(q, f) : LastMark(Append(q, f), i) => Append(q, f)[i] = f
           /\ ~NoMark(Append(q, f))
  <1> DEFINE r == Append(q, f)
             n == Len(q) + 1
  <1>1. /\ DOMAIN r = 1..n /\ DOMAIN q = 1..(n - 1) /\ n \in Nat /\ n >= 1
        /\ \A i \in DOMAIN q : r[i] = q[i]
        /\ r[n] = f
    BY AppendAt, LenProperties
  <1> HIDE DEF r, n
  <1>2. /\ \A i \in DOMAIN q : i \in DOMAIN r /\ i < n /\ i \in Nat
        /\ \A i \in DOMAIN r : i \in Nat /\ i <= n /\ (i \notin DOMAIN q <=> i = n)
        /\ n \in DOMAIN r
    BY <1>1
  <1>3. ASSUME NEW i \in DOMAIN r, NEW j \in DOMAIN r, NextMark(r, i, j)
        PROVE  /\ i \in DOMAIN q
               /\ IF j \in DOMAIN q THEN NextMark(q, i, j) ELSE r[j] = f /\ LastMark(q, i)
    <2>1. i < j /\ i < n /\ i \in DOMAIN q
      <3>1. i \in Nat /\ j \in Nat /\ n \in Nat /\ i < j /\ j <= n
        BY <1>1, <1>2, <1>3 DEF NextMark
      <3>2. i < n
        BY <3>1
      <3>3. QED
        BY <1>2, <3>1, <3>2
    <2>2. \A k \in DOMAIN q : i < k /\ k < j => ~Mark(q[k])
      BY <1>1, <1>2, <1>3 DEF NextMark
    <2>3. Mark(q[i])
      BY <1>1, <1>3, <2>1 DEF NextMark
    <2>4. CASE j \in DOMAIN q
      BY <1>1, <1>3, <2>1, <2>2, <2>3, <2>4 DEF NextMark
    <2>5. CASE j \notin DOMAIN q
      <3>1. j = n
        BY <1>2, <2>5
      <3>2. QED
        BY <1>1, <1>2, <2>1, <2>2, <2>3, <2>5, <3>1 DEF LastMark
    <2>6. QED
      BY <2>1, <2>4, <2>5
  <1>4. ASSUME NEW i \in DOMAIN r, FirstMark(r, i)
        PROVE  IF i \in DOMAIN q THEN FirstMark(q, i) ELSE r[i] = f /\ NoMark(q)
    <2>1. CASE i \in DOMAIN q
      BY <1>1, <1>2, <1>4, <2>1 DEF FirstMark
    <2>2. CASE i \notin DOMAIN q
      <3>1. i = n
        BY <1>2, <2>2
      <3>2. QED
        BY <1>1, <1>2, <1>4, <2>2, <3>1 DEF FirstMark, NoMark
    <2>3. QED
      BY <2>1, <2>2
  <1>5. ASSUME NEW i \in DOMAIN r, LastMark(r, i)
        PROVE  r[i] = f
    <2>1. CASE i \in DOMAIN q
      <3>1. i < n /\ n \in DOMAIN r /\ Mark(r[n])
        BY <1>1, <1>2, <2>1
      <3>2. QED
        BY <1>5, <3>1 DEF LastMark
    <2>2. CASE i \notin DOMAIN q
      BY <1>1, <1>2, <2>2
    <2>3. QED
      BY <2>1, <2>2
  <1>6. ~NoMark(r)
    BY <1>1, <1>2 DEF NoMark
  <1>7. QED
    BY <1>3, <1>4, <1>5, <1>6 DEF r

\* Reading a frame that is no mark.
LEMMA TrainPasses ==
    ASSUME NEW q \in Seq(Frame), q # <<>>, ~Mark(Head(q)), NEW rdy, NEW exp, NEW got,
           NEW next, NEW open, NEW begun, Train(q, rdy, exp, got, next, open, begun)
    PROVE  Train(Tail(q), rdy, exp, got, next, open, begun)
  <1>1. \A i \in DOMAIN Tail(q) : i + 1 \in DOMAIN q /\ Tail(q)[i] = q[i + 1]
    BY TailAt
  <1>2. Alternates(Tail(q))
    BY <1>1, MarksOfTail DEF Train, Alternates
  <1>3. Expected(Tail(q), rdy, exp, got)
    BY <1>1, MarksOfTail DEF Train, Expected
  <1>4. Follows(Tail(q), next, open)
    BY <1>1, MarksOfTail DEF Train, Follows
  <1>5. Agree(Tail(q), rdy, exp, got, next, open, begun)
    BY MarksOfTail DEF Train, Agree
  <1>6. QED
    BY <1>2, <1>3, <1>4, <1>5 DEF Train

\* Reading a reset: both bits start anew.
LEMMA TrainResets ==
    ASSUME NEW q \in Seq(Frame), q # <<>>, Head(q).fn = "ResetLink", NEW rdy, NEW exp,
           NEW got, NEW next, NEW open, NEW begun,
           Train(q, rdy, exp, got, next, open, begun)
    PROVE  Train(Tail(q), TRUE, TRUE, got, next, open, begun)
  <1>1. \A i \in DOMAIN Tail(q) : i + 1 \in DOMAIN q /\ Tail(q)[i] = q[i + 1]
    BY TailAt
  <1>2. Mark(Head(q)) /\ 1 \in DOMAIN q /\ q[1].fn = "ResetLink"
    BY TailAt DEF Mark
  <1>3. Alternates(Tail(q))
    BY <1>1, MarksOfTail DEF Train, Alternates
  <1>4. Expected(Tail(q), TRUE, TRUE, got)
    BY <1>1, <1>2, MarksOfTail DEF Train, Alternates, Expected
  <1>5. Follows(Tail(q), next, open)
    BY <1>1, MarksOfTail DEF Train, Follows
  <1>6. Agree(Tail(q), TRUE, TRUE, got, next, open, begun)
    <2> SUFFICES ASSUME NoMark(Tail(q))
                 PROVE  IF open.fn = "ConfirmedData" THEN (open.fcb <=> FALSE) /\ open.id \in got
                        ELSE next
      BY DEF Agree
    <2>1. LastMark(q, 1)
      BY <1>2, MarksOfTail
    <2>2. CASE Mark(open)
      <3>1. q[1] = open
        BY <1>2, <2>1, <2>2 DEF Train, Follows
      <3>2. open.fn = "ResetLink" /\ next
        BY <1>2, <3>1 DEF Train, OpenBit
      <3>3. QED
        BY <3>2
    <2>3. CASE ~Mark(open)
      <3>1. next
        BY <1>2, <2>1, <2>3 DEF Train, Follows
      <3>2. QED
        BY <2>3, <3>1 DEF Mark
    <2>4. QED
      BY <2>2, <2>3
  <1>7. QED
    BY <1>3, <1>4, <1>5, <1>6 DEF Train

\* Reading data the receiver knows, or takes for new: it is ready, and what
\* follows has the bit it expects then.
LEMMA TrainReads ==
    ASSUME NEW q \in Seq(Frame), q # <<>>, Head(q).fn = "ConfirmedData",
           NEW rdy \in BOOLEAN, NEW exp \in BOOLEAN, NEW exp2 \in BOOLEAN, NEW got, NEW got2,
           NEW next \in BOOLEAN, NEW open, NEW begun,
           Train(q, rdy, exp, got, next, open, begun),
           Head(q).fcb <=> ~exp2, Head(q).id \in got2, got \subseteq got2
    PROVE  Train(Tail(q), rdy, exp2, got2, next, open, begun)
  <1>1. \A i \in DOMAIN Tail(q) : i + 1 \in DOMAIN q /\ Tail(q)[i] = q[i + 1]
    BY TailAt
  <1>2. /\ Mark(Head(q)) /\ 1 \in DOMAIN q /\ q[1].fn = "ConfirmedData" /\ ~(q[1].fn = "ResetLink")
        /\ (q[1].fcb <=> ~exp2) /\ q[1].id \in got2
    BY TailAt DEF Mark
  <1>3. rdy
    BY <1>2, MarksOfTail DEF Train, Expected
  <1>4. Alternates(Tail(q))
    BY <1>1, MarksOfTail DEF Train, Alternates
  <1>5. Expected(Tail(q), rdy, exp2, got2)
    <2> SUFFICES ASSUME NEW j \in DOMAIN Tail(q), FirstMark(Tail(q), j),
                        Tail(q)[j].fn = "ConfirmedData"
                 PROVE  (Tail(q)[j].fcb <=> exp2) \/ Tail(q)[j].id \in got2
      BY <1>3 DEF Expected
    <2>1. NextMark(q, 1, j + 1) /\ j + 1 \in DOMAIN q /\ Tail(q)[j] = q[j + 1]
      BY <1>1, <1>2, MarksOfTail
    <2>2. (q[1].id = q[j + 1].id) <=> (q[j + 1].fcb <=> q[1].fcb)
      BY <1>2, <2>1 DEF Train, Alternates
    <2>3. QED
      BY <1>2, <2>1, <2>2
  <1>6. Follows(Tail(q), next, open)
    BY <1>1, MarksOfTail DEF Train, Follows
  <1>7. Agree(Tail(q), rdy, exp2, got2, next, open, begun)
    <2> SUFFICES ASSUME NoMark(Tail(q))
                 PROVE  IF open.fn = "ConfirmedData"
                        THEN (open.fcb <=> ~exp2) /\ open.id \in got2
                        ELSE next <=> exp2
      BY <1>3 DEF Agree
    <2>1. LastMark(q, 1)
      BY <1>2, MarksOfTail
    <2>2. CASE Mark(open)
      <3>1. q[1] = open
        BY <1>2, <2>1, <2>2 DEF Train, Follows
      <3>2. QED
        BY <1>2, <3>1
    <2>3. CASE ~Mark(open)
      <3>1. next <=> ~q[1].fcb
        BY <1>2, <2>1, <2>3 DEF Train, Follows
      <3>2. QED
        BY <1>2, <2>3, <3>1 DEF Mark
    <2>4. QED
      BY <2>2, <2>3
  <1>8. QED
    BY <1>4, <1>5, <1>6, <1>7 DEF Train

\* Writing a frame that is no mark.
LEMMA TrainOther ==
    ASSUME NEW q \in Seq(Frame), NEW f \in Frame, ~Mark(f), NEW rdy, NEW exp, NEW got,
           NEW next, NEW open, NEW begun, Train(q, rdy, exp, got, next, open, begun)
    PROVE  Train(Append(q, f), rdy, exp, got, next, open, begun)
  <1>1. \A i \in DOMAIN q : Append(q, f)[i] = q[i]
    BY AppendAt
  <1>2. Alternates(Append(q, f))
    BY <1>1, MarksOfOther DEF Train, Alternates
  <1>3. Expected(Append(q, f), rdy, exp, got)
    BY <1>1, MarksOfOther DEF Train, Expected
  <1>4. Follows(Append(q, f), next, open)
    BY <1>1, MarksOfOther DEF Train, Follows
  <1>5. Agree(Append(q, f), rdy, exp, got, next, open, begun)
    BY MarksOfOther DEF Train, Agree
  <1>6. QED
    BY <1>2, <1>3, <1>4, <1>5 DEF Train

\* Writing the pending request again.
LEMMA TrainCopies ==
    ASSUME NEW q \in Seq(Frame), NEW open \in Frame, Mark(open), NEW rdy, NEW exp, NEW got,
           NEW next, NEW begun, begun, Train(q, rdy, exp, got, next, open, begun)
    PROVE  Train(Append(q, open), rdy, exp, got, next, open, begun)
  <1> DEFINE r == Append(q, open)
  <1>1. \A i \in DOMAIN q : r[i] = q[i]
    BY AppendAt
  <1>2. Alternates(r)
    <2> SUFFICES ASSUME NEW i \in DOMAIN r, NEW j \in DOMAIN r, NextMark(r, i, j),
                        r[j].fn = "ConfirmedData"
                 PROVE  IF r[i].fn = "ResetLink" THEN r[j].fcb
                        ELSE (r[i].id = r[j].id) <=> (r[j].fcb <=> r[i].fcb)
      BY DEF Alternates
    <2>1. i \in DOMAIN q /\ r[i] = q[i]
      BY <1>1, MarksOfMore
    <2>2. CASE j \in DOMAIN q
      <3>1. NextMark(q, i, j) /\ r[j] = q[j]
        BY <1>1, <2>2, MarksOfMore
      <3>2. QED
        BY <2>1, <2>2, <3>1 DEF Train, Alternates
    <2>3. CASE j \notin DOMAIN q
      <3>1. r[j] = open /\ LastMark(q, i)
        BY <2>3, MarksOfMore
      <3>2. q[i] = open
        BY <2>1, <3>1 DEF Train, Follows
      <3>3. QED
        BY <2>1, <3>1, <3>2
    <2>4. QED
      BY <2>2, <2>3
  <1>3. Expected(r, rdy, exp, got)
    <2> SUFFICES ASSUME NEW j \in DOMAIN r, FirstMark(r, j), r[j].fn = "ConfirmedData"
                 PROVE  rdy /\ ((r[j].fcb <=> exp) \/ r[j].id \in got)
      BY DEF Expected
    <2>1. CASE j \in DOMAIN q
      <3>1. FirstMark(q, j) /\ r[j] = q[j]
        BY <1>1, <2>1, MarksOfMore
      <3>2. QED
        BY <2>1, <3>1 DEF Train, Expected
    <2>2. CASE j \notin DOMAIN q
      <3>1. r[j] = open /\ NoMark(q)
        BY <2>2, MarksOfMore
      <3>2. QED
        BY <3>1 DEF Train, Agree
    <2>3. QED
      BY <2>1, <2>2
  <1>4. Follows(r, next, open)
    BY MarksOfMore DEF Follows
  <1>5. Agree(r, rdy, exp, got, next, open, begun)
    BY MarksOfMore DEF Agree
  <1>6. QED
    BY <1>2, <1>3, <1>4, <1>5 DEF Train

\* A new reset or new data is written and pending: f has the bit the sender
\* uses now, and data is written to a link that was reset before.
LEMMA TrainIssues ==
    ASSUME NEW q \in Seq(Frame), NEW f \in Frame, Mark(f), NEW rdy, NEW exp, NEW got,
           NEW next, NEW next2, NEW open, ~Mark(open), NEW begun,
           Train(q, rdy, exp, got, next, open, begun),
           f.fn = "ConfirmedData" => begun /\ (f.fcb <=> next) /\ (next2 <=> next),
           f.fn = "ResetLink" => next2,
           \A i \in DOMAIN q : Mark(q[i]) => q[i].id # f.id
    PROVE  Train(Append(q, f), rdy, exp, got, next2, f, TRUE)
  <1> DEFINE r == Append(q, f)
  <1>1. \A i \in DOMAIN q : r[i] = q[i]
    BY AppendAt
  <1>2. Alternates(r)
    <2> SUFFICES ASSUME NEW i \in DOMAIN r, NEW j \in DOMAIN r, NextMark(r, i, j),
                        r[j].fn = "ConfirmedData"
                 PROVE  IF r[i].fn = "ResetLink" THEN r[j].fcb
                        ELSE (r[i].id = r[j].id) <=> (r[j].fcb <=> r[i].fcb)
      BY DEF Alternates
    <2>1. i \in DOMAIN q /\ r[i] = q[i]
      BY <1>1, MarksOfMore
    <2>2. CASE j \in DOMAIN q
      <3>1. NextMark(q, i, j) /\ r[j] = q[j]
        BY <1>1, <2>2, MarksOfMore
      <3>2. QED
        BY <2>1, <2>2, <3>1 DEF Train, Alternates
    <2>3. CASE j \notin DOMAIN q
      <3>1. r[j] = f /\ LastMark(q, i)
        BY <2>3, MarksOfMore
      <3>2. next <=> (q[i].fn = "ResetLink" \/ ~q[i].fcb)
        BY <2>1, <3>1 DEF Train, Follows
      <3>3. Mark(q[i]) /\ q[i].id # f.id
        BY <2>1, <3>1 DEF LastMark
      <3>4. f.fcb <=> next
        BY <3>1
      <3>5. QED
        BY <2>1, <3>1, <3>2, <3>3, <3>4
    <2>4. QED
      BY <2>2, <2>3
  <1>3. Expected(r, rdy, exp, got)
    <2> SUFFICES ASSUME NEW j \in DOMAIN r, FirstMark(r, j), r[j].fn = "ConfirmedData"
                 PROVE  rdy /\ ((r[j].fcb <=> exp) \/ r[j].id \in got)
      BY DEF Expected
    <2>1. CASE j \in DOMAIN q
      <3>1. FirstMark(q, j) /\ r[j] = q[j]
        BY <1>1, <2>1, MarksOfMore
      <3>2. QED
        BY <2>1, <3>1 DEF Train, Expected
    <2>2. CASE j \notin DOMAIN q
      <3>1. r[j] = f /\ NoMark(q)
        BY <2>2, MarksOfMore
      <3>2. ~(open.fn = "ConfirmedData")
        BY DEF Mark
      <3>3. QED
        BY <3>1, <3>2 DEF Train, Agree
    <2>3. QED
      BY <2>1, <2>2
  <1>4. Follows(r, next2, f)
    BY MarksOfMore DEF Follows
  <1>5. Agree(r, rdy, exp, got, next2, f, TRUE)
    BY MarksOfMore DEF Agree
  <1>6. OpenBit(next2, f)
    BY DEF OpenBit
  <1>7. QED
    BY <1>2, <1>3, <1>4, <1>5, <1>6 DEF Train

\* The pending request is answered: after data the sender uses the other bit.
LEMMA TrainCloses ==
    ASSUME NEW q, NEW open, Mark(open), NEW rdy, NEW exp \in BOOLEAN, NEW got,
           NEW next \in BOOLEAN, Train(q, rdy, exp, got, next, open, TRUE)
    PROVE  /\ open.fn = "ResetLink" => Train(q, rdy, exp, got, TRUE, None, TRUE)
           /\ open.fn = "ConfirmedData" => Train(q, rdy, exp, got, ~next, None, TRUE)
  <1>1. ~Mark(None) /\ ~(None.fn = "ConfirmedData") /\ ~(None.fn = "ResetLink")
    BY DEF Mark, None
  <1>2. ASSUME NEW next2 \in BOOLEAN, next2 <=> (open.fn = "ResetLink" \/ ~next)
        PROVE  Train(q, rdy, exp, got, next2, None, TRUE)
    <2>1. \/ open.fn = "ResetLink" /\ next /\ next2
          \/ /\ open.fn = "ConfirmedData" /\ ~(open.fn = "ResetLink")
             /\ (open.fcb <=> next) /\ (next2 <=> ~next)
      BY <1>2 DEF Train, OpenBit, Mark
    <2>2. Follows(q, next2, None)
      BY <1>1, <2>1 DEF Train, Follows
    <2>3. Agree(q, rdy, exp, got, next2, None, TRUE)
      <3>1. CASE ~NoMark(q)
        BY <3>1 DEF Agree
      <3>2. CASE NoMark(q)
        <4>1. rdy /\ IF open.fn = "ConfirmedData" THEN open.fcb <=> ~exp ELSE next <=> exp
          BY <3>2 DEF Train, Agree
        <4>2. next2 <=> exp
          BY <2>1, <4>1
        <4>3. QED
          BY <1>1, <4>1, <4>2 DEF Agree
      <3>3. QED
        BY <3>1, <3>2
    <2>4. OpenBit(next2, None)
      BY <1>1 DEF OpenBit
    <2>5. QED
      BY <2>2, <2>3, <2>4 DEF Train
  <1>3. ASSUME open.fn = "ResetLink" PROVE Train(q, rdy, exp, got, TRUE, None, TRUE)
    BY <1>2, <1>3
  <1>4. ASSUME open.fn = "ConfirmedData" PROVE Train(q, rdy, exp, got, ~next, None, TRUE)
    <2>1. PICK next2 \in BOOLEAN : next2 = ~next
      OBVIOUS
    <2>2. next2 <=> (open.fn = "ResetLink" \/ ~next)
      BY <1>4, <2>1
    <2>3. Train(q, rdy, exp, got, next2, None, TRUE)
      BY <1>2, <2>2
    <2>4. QED
      BY <2>1, <2>3
  <1>5. QED
    BY <1>3, <1>4

\* A request that is no mark comes or goes; more may be handed over.
LEMMA TrainStays ==
    ASSUME NEW q \in Seq(Frame), NEW rdy, NEW exp, NEW got, NEW got2, got \subseteq got2,
           NEW next, NEW open, NEW open2, open2 = open \/ (~Mark(open) /\ ~Mark(open2)),
           NEW begun, Train(q, rdy, exp, got, next, open, begun)
    PROVE  Train(q, rdy, exp, got2, next, open2, begun)
  <1>1. Expected(q, rdy, exp, got2)
    BY DEF Train, Expected
  <1>2. CASE open2 = open
    BY <1>1, <1>2 DEF Train, Agree
  <1>3. CASE ~Mark(open) /\ ~Mark(open2)
    <2>1. /\ ~(open.fn = "ConfirmedData") /\ ~(open2.fn = "ConfirmedData")
          /\ ~(open2.fn = "ResetLink")
      BY <1>3 DEF Mark
    <2>2. Follows(q, next, open2) /\ OpenBit(next, open2)
      BY <1>3, <2>1 DEF Train, Follows, OpenBit
    <2>3. Agree(q, rdy, exp, got2, next, open2, begun)
      BY <2>1 DEF Train, Agree
    <2>4. QED
      BY <1>1, <2>2, <2>3 DEF Train
  <1>4. QED
    BY <1>2, <1>3

-----------------------------------------------------------------------------
(* What a step does to such a link.                                        *)

\* The numbers of the confirmed data that station p has not read yet.
OnItsWay(p) ==
    {inbox[p][i].id : i \in {j \in DOMAIN inbox[p] : inbox[p][j].fn = "ConfirmedData"}}

\* The peer of the sender neither resets nor sends, and writes no mark to it.
OnlyListens(s) ==
    /\ ~Mark(pending[Peer(s)]) /\ ~Mark(request[Peer(s)])
    /\ \A f \in succeeded[Peer(s)] : ~Mark(f)
    /\ NoMark(inbox[s])

TrainFrom(s) ==
    Train(inbox[Peer(s)], ready[Peer(s)], expectedFCB[Peer(s)], Received(Peer(s)),
          nextSendFCB[s], pending[s], ready[s] \/ Mark(pending[s]))

\* The data of every call that has been made is with the peer or on its way.
Carried(s) ==
    \A f \in succeeded[s] \cup {request[s], pending[s]} :
        f.fn = "ConfirmedData" => f.id \in Received(Peer(s)) \cup OnItsWay(Peer(s))

OneWayInv(s) ==
    /\ \A t \in Station : ~torn[t]
    /\ OnlyListens(s)
    /\ TrainFrom(s)
    /\ Carried(s)

\* What of the peer a step leaves alone, besides what StepIsLocal names.
LEMMA StepSparesPeer ==
    ASSUME TypeOK, NEW s \in Station, Start(s) \/ Handle(s) \/ NoFrame(s),
           NEW p, p = Peer(s)
    PROVE  /\ ready'[p] = ready[p] /\ nextSendFCB'[p] = nextSendFCB[p]
           /\ pending'[p] = pending[p]
           /\ request'[p] = request[p] /\ succeeded'[p] = succeeded[p]
  <1>1. p \in Station /\ p # s
    BY StationFacts
  <1>2. ready'[p] = ready[p] /\ nextSendFCB'[p] = nextSendFCB[p]
    BY <1>1 DEF TypeOK, Start, Handle, NoFrame, Reset, SendConfirmed, KeepAlive,
       SendUnconfirmed, Receive, Begin, HandleReset, RefuseConfirmed, RepeatConfirmed,
       AcceptConfirmed, AcceptUnconfirmed, AnswerStatus, HandleAck, HandleStatus,
       HandleNack, RejectSecondary, ReadTimeout, Abandon, ReadGarbage, stateVars
  <1>3. pending'[p] = pending[p]
    BY <1>1 DEF TypeOK, Start, Handle, NoFrame, Reset, SendConfirmed, KeepAlive,
       SendUnconfirmed, Receive, Begin, HandleReset, RefuseConfirmed, RepeatConfirmed,
       AcceptConfirmed, AcceptUnconfirmed, AnswerStatus, HandleAck, HandleStatus,
       HandleNack, RejectSecondary, ReadTimeout, Abandon, ReadGarbage, stateVars, Conclude
  <1>4. request'[p] = request[p]
    <2> USE <1>1 DEF TypeOK, callVars, Return, Succeed, Retry
    <2>1. CASE Start(s)
      BY <2>1 DEF Start, Reset, SendConfirmed, KeepAlive, SendUnconfirmed, Receive, Begin
    <2>2. CASE NoFrame(s)
      BY <2>2 DEF NoFrame, ReadTimeout, Abandon, ReadGarbage
    <2>3. CASE Handle(s)
      BY <2>3 DEF Handle, HandleReset, RefuseConfirmed, RepeatConfirmed, AcceptConfirmed,
         AcceptUnconfirmed, AnswerStatus, HandleAck, HandleStatus, HandleNack,
         RejectSecondary, Conclude, HandOver, ReplyAndReadOn, ReplyLost
    <2>4. QED
      BY <2>1, <2>2, <2>3
  <1>5. succeeded'[p] = succeeded[p]
    BY <1>1 DEF TypeOK, Start, Handle, NoFrame, Reset, SendConfirmed, KeepAlive,
       SendUnconfirmed, Receive, Begin, HandleReset, RefuseConfirmed, RepeatConfirmed,
       AcceptConfirmed, AcceptUnconfirmed, AnswerStatus, HandleAck, HandleStatus,
       HandleNack, RejectSecondary, ReadTimeout, Abandon, ReadGarbage, Conclude, Succeed
  <1>6. QED
    BY <1>2, <1>3, <1>4, <1>5

\* Reading and timing out begin no request, and record as succeeded only the
\* request of the call.
LEMMA RequestShrinks ==
    ASSUME TypeOK, NEW s \in Station, Handle(s) \/ NoFrame(s)
    PROVE  /\ pending'[s] \in {None, pending[s]}
           /\ request'[s] \in {None, request[s]}
           /\ succeeded'[s] \subseteq succeeded[s] \cup {request[s]}
  <1>1. pending'[s] \in {None, pending[s]}
    BY DEF TypeOK, Handle, NoFrame, HandleReset, RefuseConfirmed, RepeatConfirmed,
       AcceptConfirmed, AcceptUnconfirmed, AnswerStatus, HandleAck, HandleStatus,
       HandleNack, RejectSecondary, ReadTimeout, Abandon, ReadGarbage, stateVars, Conclude
  <1>2. request'[s] \in {None, request[s]}
    <2> USE DEF TypeOK, callVars, Return, Succeed, Retry
    <2>1. CASE NoFrame(s)
      BY <2>1 DEF NoFrame, ReadTimeout, Abandon, ReadGarbage
    <2>2. CASE Handle(s)
      BY <2>2 DEF Handle, HandleReset, RefuseConfirmed, RepeatConfirmed, AcceptConfirmed,
         AcceptUnconfirmed, AnswerStatus, HandleAck, HandleStatus, HandleNack,
         RejectSecondary, Conclude, HandOver, ReplyAndReadOn, ReplyLost
    <2>3. QED
      BY <2>1, <2>2
  <1>3. succeeded'[s] \subseteq succeeded[s] \cup {request[s]}
    BY DEF TypeOK, Handle, NoFrame, HandleReset, RefuseConfirmed, RepeatConfirmed,
       AcceptConfirmed, AcceptUnconfirmed, AnswerStatus, HandleAck, HandleStatus,
       HandleNack, RejectSecondary, ReadTimeout, Abandon, ReadGarbage, Conclude, Succeed
  <1>4. QED
    BY <1>1, <1>2, <1>3

\* Where no read is torn, no read ever starts inside a frame.
LEMMA NothingIsTorn ==
    ASSUME TypeOK, NEW s \in Station, Start(s) \/ Handle(s) \/ NoFrame(s),
           \A t \in Station : ~torn[t], "tornRead" \notin Faults
    PROVE  \A t \in Station : ~torn'[t]
  <1>1. CASE Start(s) \/ Handle(s)
    <2>1. UNCHANGED torn
      BY <1>1 DEF Start, Handle, Reset, SendConfirmed, KeepAlive,
         SendUnconfirmed, Receive, HandleReset, RefuseConfirmed, RepeatConfirmed,
         AcceptConfirmed, AcceptUnconfirmed, AnswerStatus, HandleAck, HandleStatus,
         HandleNack, RejectSecondary
    <2>2. QED
      BY <2>1
  <1>2. CASE NoFrame(s)
    <2>1. \E frames : LosePlace(s, frames)
      BY <1>2 DEF NoFrame, ReadTimeout, Abandon, ReadGarbage
    <2>2. UNCHANGED torn
      BY <2>1 DEF LosePlace
    <2>3. QED
      BY <2>2
  <1>3. QED
    BY <1>1, <1>2

\* What a call writes that reads, or waits, and what it leaves to be read.
LEMMA StepWrites ==
    ASSUME TypeOK, NEW s \in Station, NEW p, p = Peer(s),
           Handle(s) \/ (NoFrame(s) /\ ~torn[s])
    PROVE  /\ \E frames : Answer(frames, Open(s)) /\ inbox'[p] = inbox[p] \o frames
           /\ inbox'[s] = inbox[s] \/ (inbox[s] # <<>> /\ inbox'[s] = Tail(inbox[s]))
  <1>1. p \in Station /\ Peer(p) = s /\ p # s
    BY StationFacts
  <1>2. Open(s) \in Request \cup {None}
    BY OpenType
  <1>3. CASE Handle(s)
    BY <1>1, <1>2, <1>3, HandleAnswers, AnswerType, ExchangeType DEF TypeOK
  <1>4. ASSUME NEW frames, LosePlace(s, frames), Answer(frames, Open(s)), ~torn[s]
        PROVE  inbox'[p] = inbox[p] \o frames /\ inbox'[s] = inbox[s]
    <2>1. Write(s, frames)
      BY <1>4 DEF LosePlace
    <2>2. QED
      BY <1>1, <1>2, <1>4, <2>1, AnswerType, WriteType DEF TypeOK
  <1>5. CASE ReadTimeout(s) /\ ~torn[s]
    <2>1. call[s] = "transact" /\ LosePlace(s, Retransmission(s, pending[s]))
      BY <1>5 DEF ReadTimeout
    <2>2. Answer(Retransmission(s, pending[s]), Open(s))
      BY <2>1, RetransmissionAnswers
    <2>3. QED
      BY <1>4, <1>5, <2>1, <2>2
  <1>6. CASE (Abandon(s) \/ ReadGarbage(s)) /\ ~torn[s]
    <2>1. LosePlace(s, <<>>) /\ Answer(<<>>, Open(s))
      BY <1>6 DEF Abandon, ReadGarbage, Answer
    <2>2. QED
      BY <1>4, <1>6, <2>1
  <1>7. QED
    BY <1>3, <1>5, <1>6 DEF NoFrame

\* A response is no mark.
LEMMA ResponsesAreNoMarks ==
    /\ \A fn \in SecondaryFn : ~Mark(Secondary(fn)) /\ Secondary(fn) \in Frame
    /\ ~Mark(None)
  BY FramesWritten DEF Mark, Secondary, SecondaryFn, None

\* What is in a stream stays there when more is written to it.
LEMMA ConcatKeeps ==
    ASSUME NEW q \in Seq(Frame), NEW r \in Seq(Frame)
    PROVE  /\ q \o r \in Seq(Frame)
           /\ \A i \in DOMAIN q : i \in DOMAIN (q \o r) /\ (q \o r)[i] = q[i]
  BY ConcatProperties, LenProperties

\* Marks that follow one another to the receiver still do after an Answer.
LEMMA TrainAnswer ==
    ASSUME NEW q \in Seq(Frame), NEW open \in Request \cup {None}, NEW rdy, NEW exp, NEW got,
           NEW next, NEW begun, Mark(open) => begun,
           Train(q, rdy, exp, got, next, open, begun), NEW frames, Answer(frames, open)
    PROVE  Train(q \o frames, rdy, exp, got, next, open, begun)
  <1>1. ASSUME open # None, NEW r \in Seq(Frame),
               Train(r, rdy, exp, got, next, open, begun)
        PROVE  open \in Frame /\ Train(Append(r, open), rdy, exp, got, next, open, begun)
    <2>1. open \in Frame
      BY <1>1, FramesWritten
    <2>2. CASE Mark(open)
      BY <1>1, <2>1, <2>2, TrainCopies
    <2>3. CASE ~Mark(open)
      BY <1>1, <2>1, <2>3, TrainOther
    <2>4. QED
      BY <2>1, <2>2, <2>3
  <1>2. CASE frames = <<>>
    <2>1. q \o <<>> = q
      OBVIOUS
    <2>2. QED
      BY <1>2, <2>1
  <1>3. ASSUME NEW fn \in SecondaryFn
        PROVE  /\ Secondary(fn) \in Frame
               /\ Append(q, Secondary(fn)) \in Seq(Frame)
               /\ Train(Append(q, Secondary(fn)), rdy, exp, got, next, open, begun)
    <2>1. Secondary(fn) \in Frame /\ ~Mark(Secondary(fn))
      BY ResponsesAreNoMarks
    <2>2. QED
      BY <2>1, TrainOther, AppendAt
  <1>4. ASSUME NEW fn \in SecondaryFn, frames = <<Secondary(fn)>>
        PROVE  Train(q \o frames, rdy, exp, got, next, open, begun)
    <2>1. q \o <<Secondary(fn)>> = Append(q, Secondary(fn))
      BY <1>3, ConcatOne
    <2>2. QED
      BY <1>3, <1>4, <2>1
  <1>5. CASE open # None /\ frames = <<open>>
    <2>1. open \in Frame /\ Train(Append(q, open), rdy, exp, got, next, open, begun)
      BY <1>1, <1>5
    <2>2. q \o <<open>> = Append(q, open)
      BY <2>1, ConcatOne
    <2>3. QED
      BY <1>5, <2>1, <2>2
  <1>6. ASSUME open # None, NEW fn \in SecondaryFn, frames = <<Secondary(fn)>> \o <<open>>
        PROVE  Train(q \o frames, rdy, exp, got, next, open, begun)
    <2> DEFINE r == Append(q, Secondary(fn))
    <2>1. /\ Secondary(fn) \in Frame /\ r \in Seq(Frame)
          /\ Train(r, rdy, exp, got, next, open, begun)
      BY <1>3
    <2>2. open \in Frame /\ Train(Append(r, open), rdy, exp, got, next, open, begun)
      <3> HIDE DEF r
      <3>1. QED
        BY <1>1, <1>6, <2>1
    <2>3. q \o (<<Secondary(fn)>> \o <<open>>) = Append(r, open)
      BY <2>1, <2>2, ConcatOne
    <2>4. QED
      BY <1>6, <2>2, <2>3
  <1>7. QED
    BY <1>2, <1>4, <1>5, <1>6 DEF Answer

\* What only listens writes no mark.
LEMMA AnswerIsNoMark ==
    ASSUME NEW q \in Seq(Frame), NoMark(q), NEW open \in Request \cup {None}, ~Mark(open),
           NEW frames, Answer(frames, open)
    PROVE  NoMark(q \o frames)
  <1>1. ASSUME NEW r \in Seq(Frame), NEW f \in Frame, ~Mark(f), NoMark(r)
        PROVE  NoMark(Append(r, f)) /\ Append(r, f) \in Seq(Frame)
    BY <1>1, MarksOfOther, AppendAt
  <1>2. open # None => open \in Frame
    BY FramesWritten
  <1>3. CASE frames = <<>>
    <2>1. q \o <<>> = q
      OBVIOUS
    <2>2. QED
      BY <1>3, <2>1
  <1>4. ASSUME NEW fn \in SecondaryFn
        PROVE  /\ Secondary(fn) \in Frame
               /\ NoMark(Append(q, Secondary(fn))) /\ Append(q, Secondary(fn)) \in Seq(Frame)
    BY <1>1, ResponsesAreNoMarks
  <1>5. ASSUME NEW fn \in SecondaryFn, frames = <<Secondary(fn)>>
        PROVE  NoMark(q \o frames)
    <2>1. q \o <<Secondary(fn)>> = Append(q, Secondary(fn))
      BY <1>4, ConcatOne
    <2>2. QED
      BY <1>4, <1>5, <2>1
  <1>6. CASE open # None /\ frames = <<open>>
    <2>1. q \o <<open>> = Append(q, open)
      BY <1>2, <1>6, ConcatOne
    <2>2. QED
      BY <1>1, <1>2, <1>6, <2>1
  <1>7. ASSUME open # None, NEW fn \in SecondaryFn, frames = <<Secondary(fn)>> \o <<open>>
        PROVE  NoMark(q \o frames)
    <2>1. q \o (<<Secondary(fn)>> \o <<open>>) = Append(Append(q, Secondary(fn)), open)
      BY <1>2, <1>4, <1>7, ConcatOne
    <2>2. NoMark(Append(Append(q, Secondary(fn)), open))
      BY <1>1, <1>2, <1>4, <1>7
    <2>3. QED
      BY <1>7, <2>1, <2>2
  <1>8. QED
    BY <1>3, <1>5, <1>6, <1>7 DEF Answer

\* The peer goes on only listening.
LEMMA ListensStep ==
    ASSUME TypeOK, NEW s \in Station, OneWay(s), \A t \in Station : ~torn[t], OnlyListens(s),
           NEW t \in Station, Start(t) \/ Handle(t) \/ NoFrame(t)
    PROVE  OnlyListens(s)'
  <1> DEFINE p == Peer(s)
  <1>1. p \in Station /\ p # s /\ Peer(p) = s /\ (t = s \/ t = p)
    BY StationFacts
  <1>2. inbox[s] \in Seq(Frame) /\ Open(p) \in Request \cup {None} /\ Open(s) \in Request \cup {None}
    BY <1>1, OpenType DEF TypeOK
  <1>3. /\ ~Mark(pending[p]) /\ ~Mark(request[p]) /\ (\A f \in succeeded[p] : ~Mark(f))
        /\ NoMark(inbox[s]) /\ ~Mark(None) /\ ~Mark(Open(p))
    BY ResponsesAreNoMarks DEF OnlyListens, Open
  <1>4. ASSUME NEW f \in Frame, ~Mark(f)
        PROVE  NoMark(Append(inbox[s], f))
    BY <1>2, <1>3, <1>4, MarksOfOther
  <1> SUFFICES /\ ~Mark(pending'[p]) /\ ~Mark(request'[p]) /\ (\A f \in succeeded'[p] : ~Mark(f))
               /\ NoMark(inbox'[s])
    BY DEF OnlyListens
  <1> HIDE DEF p
  <1>5. CASE t = s
    <2>1. /\ pending'[p] = pending[p] /\ request'[p] = request[p] /\ succeeded'[p] = succeeded[p]
      BY <1>5, StepSparesPeer DEF p
    <2>2. inbox'[s] = inbox[s] \/ (inbox[s] # <<>> /\ inbox'[s] = Tail(inbox[s]))
      <3>1. CASE Start(s)
        <4>1. UNCHANGED inbox \/ \E frames : Write(s, frames)
          BY <3>1 DEF Start, Reset, SendConfirmed, KeepAlive, SendUnconfirmed, Receive, Begin
        <4>2. QED
          BY <4>1, StationFacts DEF Write, TypeOK
      <3>2. CASE Handle(s) \/ NoFrame(s)
        BY <3>2, <1>1, <1>5, StepWrites
      <3>3. QED
        BY <1>5, <3>1, <3>2
    <2>3. NoMark(inbox'[s])
      <3>1. ASSUME inbox[s] # <<>> PROVE NoMark(Tail(inbox[s]))
        BY <1>2, <1>3, <3>1, TailAt DEF NoMark
      <3>2. QED
        BY <1>3, <2>2, <3>1
    <2>4. QED
      BY <1>3, <2>1, <2>3
  <1>6. CASE t = p /\ (Handle(t) \/ NoFrame(t))
    <2>1. /\ pending'[p] \in {None, pending[p]} /\ request'[p] \in {None, request[p]}
          /\ succeeded'[p] \subseteq succeeded[p] \cup {request[p]}
      BY <1>1, <1>6, RequestShrinks
    <2>2. PICK frames : Answer(frames, Open(p)) /\ inbox'[s] = inbox[s] \o frames
      BY <1>1, <1>6, StepWrites
    <2>3. NoMark(inbox'[s])
      BY <1>2, <1>3, <2>2, AnswerIsNoMark
    <2>4. QED
      BY <1>3, <2>1, <2>3
  <1>7. CASE t = p /\ Start(t)
    <2>1. ~Reset(p) /\ ~SendConfirmed(p)
      BY <1>1 DEF OneWay, Reset, SendConfirmed
    <2>2. CASE KeepAlive(p)
      <3> DEFINE f == Primary("LinkStatusRequest", FALSE, issued[p] + 1)
      <3>1. f \in Frame /\ ~Mark(f)
        <4>1. "LinkStatusRequest" \in PrimaryFn /\ issued[p] + 1 \in Nat
          BY <1>1 DEF PrimaryFn, TypeOK
        <4>2. QED
          BY <4>1, FramesWritten DEF Mark, Primary
      <3>2. pending'[p] = f /\ succeeded'[p] = succeeded[p] /\ request'[p] \in {request[p], f}
        BY <1>1, <2>2 DEF KeepAlive, Begin, TypeOK, callVars
      <3>3. inbox'[s] = inbox[s] \/ inbox'[s] = Append(inbox[s], f)
        <4>1. UNCHANGED inbox \/ Write(p, <<f>>)
          BY <2>2 DEF KeepAlive, Begin
        <4>2. inbox[s] \o <<f>> = Append(inbox[s], f)
          BY <1>2, <3>1, ConcatOne
        <4>3. QED
          BY <1>1, <4>1, <4>2 DEF Write, TypeOK
      <3> HIDE DEF f
      <3>4. QED
        BY <1>3, <1>4, <3>1, <3>2, <3>3
    <2>3. CASE SendUnconfirmed(p)
      <3> DEFINE f == Primary("UnconfirmedData", FALSE, issued[p] + 1)
      <3>1. f \in Frame /\ ~Mark(f)
        <4>1. "UnconfirmedData" \in PrimaryFn /\ issued[p] + 1 \in Nat
          BY <1>1 DEF PrimaryFn, TypeOK
        <4>2. QED
          BY <4>1, FramesWritten DEF Mark, Primary
      <3>2. pending'[p] = pending[p] /\ succeeded'[p] = succeeded[p] /\ request'[p] = request[p]
        BY <1>1, <2>3 DEF SendUnconfirmed, stateVars, callVars
      <3>3. inbox'[s] = Append(inbox[s], f)
        <4>1. Write(p, <<f>>)
          BY <2>3 DEF SendUnconfirmed
        <4>2. inbox[s] \o <<f>> = Append(inbox[s], f)
          BY <1>2, <3>1, ConcatOne
        <4>3. QED
          BY <1>1, <4>1, <4>2 DEF Write, TypeOK
      <3> HIDE DEF f
      <3>4. QED
        BY <1>3, <1>4, <3>1, <3>2, <3>3
    <2>4. CASE Receive(p)
      BY <1>3, <2>4 DEF Receive, stateVars
    <2>5. QED
      BY <1>7, <2>1, <2>2, <2>3, <2>4 DEF Start
  <1>8. QED
    BY <1>1, <1>5, <1>6, <1>7

\* The bit after a call of the sender has read a frame or waited in vain.
LEMMA SenderTrain ==
    ASSUME TypeOK, NEW s \in Station, OneWay(s), OneWayInv(s), Handle(s) \/ NoFrame(s)
    PROVE  TrainFrom(s)'
  <1> DEFINE p == Peer(s)
             q == inbox[p]
             rdy == ready[p]
             exp == expectedFCB[p]
             got == Received(p)
             next == nextSendFCB[s]
             open == pending[s]
             begun == ready[s] \/ Mark(open)
  <1>1. /\ p \in Station /\ ready'[p] = rdy /\ expectedFCB'[p] = exp /\ delivered'[p] = delivered[p]
    BY StepIsLocal, StepSparesPeer
  <1>2. Received(p)' = got
    BY <1>1 DEF Received
  <1>3. /\ q \in Seq(Frame) /\ exp \in BOOLEAN /\ next \in BOOLEAN /\ open \in Request \cup {None}
        /\ inbox[s] \in Seq(Frame)
    BY <1>1 DEF TypeOK
  <1>4. Train(q, rdy, exp, got, next, open, begun)
    BY DEF OneWayInv, TrainFrom
  <1>5. SUFFICES Train(inbox'[p], rdy, exp, got, nextSendFCB'[s], pending'[s],
                       ready'[s] \/ Mark(pending'[s]))
    BY <1>1, <1>2 DEF TrainFrom
  <1> HIDE DEF p, q, rdy, exp, got, next, open, begun
  <1>6. \A fn : Reads(s, fn) => fn \notin {"ResetLink", "ConfirmedData"}
    BY <1>3, TailAt DEF OneWayInv, OnlyListens, NoMark, Mark, Reads
  <1>7. CASE HandleAck(s)
    <2>1. inbox'[p] = q
      <3>1. Exchange(s, <<>>) /\ inbox[s] # <<>> /\ <<>> \in Seq(Frame)
        BY <1>7 DEF HandleAck, Conclude, Reads
      <3>2. inbox'[p] = q \o <<>>
        BY <3>1, ExchangeType DEF TypeOK, p, q
      <3>3. q \o <<>> = q
        BY <1>3
      <3>4. QED
        BY <3>2, <3>3
    <2>2. Mark(open) /\ begun
      BY <1>7 DEF HandleAck, Mark, open, begun
    <2>3. pending'[s] = None
      BY <1>7 DEF HandleAck, Conclude, TypeOK
    <2>4. \/ open.fn = "ResetLink" /\ nextSendFCB'[s] = TRUE
          \/ open.fn = "ConfirmedData" /\ nextSendFCB'[s] = ~next
      BY <1>7 DEF HandleAck, TypeOK, open, next
    <2>5. Train(q, rdy, exp, got, next, open, TRUE)
      BY <1>4, <2>2 DEF Train, Agree
    <2>6. Train(q, rdy, exp, got, nextSendFCB'[s], None, TRUE)
      BY <1>3, <2>2, <2>4, <2>5, TrainCloses
    <2>7. Agree(q, rdy, exp, got, nextSendFCB'[s], None, ready'[s] \/ Mark(None))
      BY <2>6 DEF Train, Agree
    <2>8. QED
      BY <2>1, <2>3, <2>6, <2>7 DEF Train
  <1>8. ASSUME nextSendFCB'[s] = next, pending'[s] = open, ready'[s] = ready[s]
        PROVE  Train(inbox'[p], rdy, exp, got, nextSendFCB'[s], pending'[s],
                     ready'[s] \/ Mark(pending'[s]))
    <2>1. PICK frames : Answer(frames, Open(s)) /\ inbox'[p] = q \o frames
      BY StepWrites DEF OneWayInv, p, q
    <2>2. Answer(frames, open)
      BY <2>1 DEF Open, Answer, open
    <2>3. Mark(open) => begun
      BY DEF begun
    <2>4. Train(q \o frames, rdy, exp, got, next, open, begun)
      BY <1>3, <1>4, <2>2, <2>3, TrainAnswer
    <2>5. QED
      BY <1>8, <2>1, <2>4 DEF begun
  <1>9. CASE HandleStatus(s)
    <2>1. inbox'[p] = q
      <3>1. Exchange(s, <<>>) /\ inbox[s] # <<>> /\ <<>> \in Seq(Frame)
        BY <1>9 DEF HandleStatus, Conclude, Reads
      <3>2. inbox'[p] = q \o <<>>
        BY <3>1, ExchangeType DEF TypeOK, p, q
      <3>3. q \o <<>> = q
        BY <1>3
      <3>4. QED
        BY <3>2, <3>3
    <2>2. /\ ~Mark(open) /\ pending'[s] = None
          /\ nextSendFCB'[s] = next /\ ready'[s] = ready[s]
      BY <1>9 DEF HandleStatus, Conclude, TypeOK, Mark, open, next
    <2>3. Train(q, rdy, exp, got, next, None, begun)
      BY <1>3, <1>4, <2>2, ResponsesAreNoMarks, TrainStays
    <2>4. begun <=> ready[s] \/ Mark(None)
      BY <2>2, ResponsesAreNoMarks DEF begun
    <2>5. Agree(q, rdy, exp, got, next, None, ready[s] \/ Mark(None))
      BY <2>3, <2>4 DEF Train, Agree
    <2>6. QED
      BY <2>1, <2>2, <2>3, <2>5 DEF Train
  <1>10. CASE \/ AcceptUnconfirmed(s) \/ AnswerStatus(s) \/ HandleNack(s) \/ RejectSecondary(s)
              \/ NoFrame(s)
    <2>1. nextSendFCB'[s] = next /\ pending'[s] = open /\ ready'[s] = ready[s]
      BY <1>10 DEF AcceptUnconfirmed, AnswerStatus, HandleNack, RejectSecondary, NoFrame,
         ReadTimeout, Abandon, ReadGarbage, stateVars, next, open
    <2>2. QED
      BY <1>8, <2>1
  <1>11. /\ ~HandleReset(s) /\ ~RefuseConfirmed(s) /\ ~RepeatConfirmed(s) /\ ~AcceptConfirmed(s)
    BY <1>6 DEF HandleReset, RefuseConfirmed, RepeatConfirmed, AcceptConfirmed
  <1>12. QED
    BY <1>7, <1>9, <1>10, <1>11 DEF Handle

\* The bit after the sender has started a call.
LEMMA StartedTrain ==
    ASSUME TypeOK, FCBInv, NEW s \in Station, OneWay(s), OneWayInv(s), Start(s)
    PROVE  TrainFrom(s)'
  <1> DEFINE p == Peer(s)
             q == inbox[p]
             rdy == ready[p]
             exp == expectedFCB[p]
             got == Received(p)
             next == nextSendFCB[s]
             open == pending[s]
             begun == ready[s] \/ Mark(open)
             n == issued[s]
  <1>1. /\ p \in Station /\ Peer(p) = s
        /\ ready'[p] = rdy /\ expectedFCB'[p] = exp /\ delivered'[p] = delivered[p]
    BY StepIsLocal, StepSparesPeer
  <1>2. Received(p)' = got
    BY <1>1 DEF Received
  <1>3. /\ q \in Seq(Frame) /\ exp \in BOOLEAN /\ next \in BOOLEAN /\ open \in Request \cup {None}
        /\ n \in Nat
    BY <1>1 DEF TypeOK
  <1>4. Train(q, rdy, exp, got, next, open, begun)
    BY DEF OneWayInv, TrainFrom
  <1>5. SUFFICES Train(inbox'[p], rdy, exp, got, nextSendFCB'[s], pending'[s],
                       ready'[s] \/ Mark(pending'[s]))
    BY <1>1, <1>2 DEF TrainFrom
  <1>6. \A i \in DOMAIN q : Mark(q[i]) => q[i].id # n + 1
    <2>1. FramesInOrder(q, n)
      BY <1>1 DEF FCBInv, Direction
    <2>2. \A i \in DOMAIN q : Mark(q[i]) => IsPrimary(q[i])
      BY DEF Mark, IsPrimary, PrimaryFn
    <2>3. \A i \in DOMAIN q : q[i] \in Frame /\ q[i].id \in Nat
      BY <1>3, ElementOfSeq, LenProperties, FrameFields
    <2>4. \A m \in Nat : m <= n => m # n + 1
      BY <1>3
    <2>5. QED
      BY <2>1, <2>2, <2>3, <2>4 DEF FramesInOrder
  <1> HIDE DEF p, q, rdy, exp, got, next, open, begun
  <1>7. ASSUME NEW f \in Frame, Begin(s, f)
        PROVE  inbox'[p] = Append(q, f) /\ pending'[s] = f
    <2>1. Write(s, <<f>>)
      BY <1>7 DEF Begin, OneWay
    <2>2. inbox'[p] = q \o <<f>>
      BY <1>1, <2>1 DEF Write, TypeOK, p, q
    <2>3. pending'[s] = f
      BY <1>7 DEF Begin, TypeOK
    <2>4. QED
      BY <1>3, <2>2, <2>3, ConcatOne
  <1>8. CASE Reset(s)
    <2> DEFINE f == Primary("ResetLink", FALSE, n + 1)
    <2>1. f \in Frame /\ f.fn = "ResetLink" /\ Mark(f) /\ f.id = n + 1 /\ ~(f.fn = "ConfirmedData")
      <3>1. "ResetLink" \in PrimaryFn /\ n + 1 \in Nat
        BY <1>3 DEF PrimaryFn
      <3>2. QED
        BY <3>1, FramesWritten DEF Mark, Primary
    <2>2. Begin(s, f) /\ open = None
      BY <1>8 DEF Reset, MayBegin, open
    <2>3. nextSendFCB'[s] = TRUE
      BY <1>8 DEF Reset, TypeOK
    <2> HIDE DEF f, n
    <2>4. inbox'[p] = Append(q, f) /\ pending'[s] = f
      BY <1>7, <2>1, <2>2
    <2>5. Train(Append(q, f), rdy, exp, got, TRUE, f, TRUE)
      BY <1>3, <1>4, <1>6, <2>1, <2>2, ResponsesAreNoMarks, TrainIssues
    <2>6. (ready'[s] \/ Mark(f)) <=> TRUE
      BY <2>1
    <2>7. Agree(Append(q, f), rdy, exp, got, TRUE, f, ready'[s] \/ Mark(f))
      BY <2>5 DEF Train, Agree
    <2>8. QED
      BY <2>3, <2>4, <2>5, <2>7 DEF Train
  <1>9. CASE SendConfirmed(s)
    <2> DEFINE f == Primary("ConfirmedData", next, n + 1)
    <2>1. /\ f \in Frame /\ f.fn = "ConfirmedData" /\ Mark(f) /\ f.id = n + 1 /\ f.fcb = next
          /\ ~(f.fn = "ResetLink")
      <3>1. "ConfirmedData" \in PrimaryFn /\ n + 1 \in Nat
        BY <1>3 DEF PrimaryFn
      <3>2. QED
        BY <1>3, <3>1, FramesWritten DEF Mark, Primary
    <2>2. Begin(s, f) /\ open = None /\ begun
      BY <1>9 DEF SendConfirmed, MayBegin, open, next, begun
    <2>3. nextSendFCB'[s] = next
      BY <1>9 DEF SendConfirmed, next
    <2> HIDE DEF f, n
    <2>4. inbox'[p] = Append(q, f) /\ pending'[s] = f
      BY <1>7, <2>1, <2>2
    <2>5. Train(Append(q, f), rdy, exp, got, next, f, TRUE)
      BY <1>3, <1>4, <1>6, <2>1, <2>2, ResponsesAreNoMarks, TrainIssues
    <2>7. Agree(Append(q, f), rdy, exp, got, next, f, ready'[s] \/ Mark(f))
      BY <2>5 DEF Train, Agree
    <2>8. QED
      BY <2>3, <2>4, <2>5, <2>7 DEF Train
  <1>10. ASSUME NEW f \in Frame, ~Mark(f), inbox'[p] = Append(q, f), ready'[s] = ready[s],
                nextSendFCB'[s] = next, pending'[s] = open \/ (open = None /\ pending'[s] = f)
         PROVE  Train(inbox'[p], rdy, exp, got, nextSendFCB'[s], pending'[s],
                      ready'[s] \/ Mark(pending'[s]))
    <2>1. Train(Append(q, f), rdy, exp, got, next, open, begun) /\ Append(q, f) \in Seq(Frame)
      BY <1>3, <1>4, <1>10, TrainOther, AppendAt
    <2>2. PICK open2 : open2 = pending'[s]
      OBVIOUS
    <2>3. open2 = open \/ (~Mark(open) /\ ~Mark(open2))
      BY <1>10, <2>2, ResponsesAreNoMarks
    <2>4. Train(Append(q, f), rdy, exp, got, next, open2, begun)
      BY <2>1, <2>3, TrainStays
    <2>5. begun => ready[s] \/ Mark(open2)
      BY <2>3 DEF begun
    <2>6. ready[s] \/ Mark(open2) => begun
      BY <2>3 DEF begun
    <2>7. Agree(Append(q, f), rdy, exp, got, next, open2, ready[s] \/ Mark(open2))
      BY <2>4, <2>6 DEF Train, Agree
    <2>8. QED
      BY <1>10, <2>2, <2>4, <2>7 DEF Train
  <1>11. CASE KeepAlive(s)
    <2> DEFINE f == Primary("LinkStatusRequest", FALSE, n + 1)
    <2>1. f \in Frame /\ ~Mark(f)
      <3>1. "LinkStatusRequest" \in PrimaryFn /\ n + 1 \in Nat
        BY <1>3 DEF PrimaryFn
      <3>2. QED
        BY <3>1, FramesWritten DEF Mark, Primary
    <2>2. Begin(s, f) /\ open = None
      BY <1>11 DEF KeepAlive, MayBegin, open
    <2>3. ready'[s] = ready[s] /\ nextSendFCB'[s] = next
      BY <1>11 DEF KeepAlive, next
    <2> HIDE DEF f, n
    <2>4. QED
      BY <1>7, <1>10, <2>1, <2>2, <2>3
  <1>12. CASE SendUnconfirmed(s)
    <2> DEFINE f == Primary("UnconfirmedData", FALSE, n + 1)
    <2>1. f \in Frame /\ ~Mark(f)
      <3>1. "UnconfirmedData" \in PrimaryFn /\ n + 1 \in Nat
        BY <1>3 DEF PrimaryFn
      <3>2. QED
        BY <3>1, FramesWritten DEF Mark, Primary
    <2>2. Write(s, <<f>>)
      BY <1>12 DEF SendUnconfirmed
    <2>3. inbox'[p] = q \o <<f>>
      BY <1>1, <2>2 DEF Write, TypeOK, p, q
    <2>4. ready'[s] = ready[s] /\ nextSendFCB'[s] = next /\ pending'[s] = open
      BY <1>12 DEF SendUnconfirmed, stateVars, next, open
    <2> HIDE DEF f, n
    <2>5. inbox'[p] = Append(q, f)
      BY <1>3, <2>1, <2>3, ConcatOne
    <2>6. QED
      BY <1>10, <2>1, <2>4, <2>5
  <1>13. CASE Receive(s)
    <2>1. /\ inbox'[p] = q /\ ready'[s] = ready[s] /\ nextSendFCB'[s] = next
          /\ pending'[s] = open
      BY <1>13 DEF Receive, stateVars, q, next, open
    <2>2. QED
      BY <1>4, <2>1 DEF begun
  <1>14. QED
    BY <1>8, <1>9, <1>11, <1>12, <1>13 DEF Start

\* A listener that reads no frame takes none either.
LEMMA ListenerStream ==
    ASSUME TypeOK, NEW p \in Station, Start(p) \/ NoFrame(p), \A t \in Station : ~torn[t]
    PROVE  inbox'[p] = inbox[p]
  <1>1. UNCHANGED inbox \/ \E frames : Write(p, frames)
    BY DEF Start, Reset, SendConfirmed, KeepAlive, SendUnconfirmed, Receive, Begin,
       NoFrame, ReadTimeout, Abandon, ReadGarbage, LosePlace
  <1>2. QED
    BY <1>1, StationFacts DEF Write, TypeOK

\* The bit after the receiver has read a frame.
LEMMA ReceiverTrain ==
    ASSUME TypeOK, NEW s \in Station, OneWay(s), OneWayInv(s), NEW p, p = Peer(s), Handle(p)
    PROVE  /\ TrainFrom(s)'
           /\ Received(p) \subseteq Received(p)'
           /\ Head(inbox[p]).fn = "ConfirmedData" => Head(inbox[p]).id \in Received(p)'
  <1> DEFINE q == inbox[p]
             f == Head(q)
             rdy == ready[p]
             exp == expectedFCB[p]
             got == Received(p)
             got2 == Received(p)'
             next == nextSendFCB[s]
             open == pending[s]
             begun == ready[s] \/ Mark(open)
  <1>1. /\ p \in Station /\ Peer(p) = s /\ s # p
        /\ ready'[s] = ready[s] /\ nextSendFCB'[s] = next /\ pending'[s] = open
    BY StationFacts, StepSparesPeer
  <1>2. /\ q \in Seq(Frame) /\ rdy \in BOOLEAN /\ exp \in BOOLEAN /\ next \in BOOLEAN
        /\ delivered[p] \in Seq(Nat)
    BY <1>1 DEF TypeOK
  <1>3. q # <<>> /\ inbox'[p] = Tail(q)
    <2>1. q # <<>>
      BY <1>1, HandleAnswers
    <2>2. QED
      BY <1>1, <2>1, HandleAnswers, AnswerType, OpenType, ExchangeType DEF TypeOK
  <1>4. f \in Frame /\ f.fcb \in BOOLEAN /\ f.id \in Nat /\ 1 \in DOMAIN q /\ q[1] = f
    BY <1>2, <1>3, TailAt, FrameFields
  <1>5. Train(q, rdy, exp, got, next, open, begun)
    BY DEF OneWayInv, TrainFrom
  <1>6. SUFFICES /\ Train(Tail(q), ready'[p], expectedFCB'[p], got2, next, open, begun)
                 /\ got \subseteq got2
                 /\ f.fn = "ConfirmedData" => f.id \in got2
    BY <1>1, <1>3 DEF TrainFrom
  <1>7. delivered'[p] = delivered[p] => got2 = got
    BY DEF Received
  <1>8. delivered'[p] = Append(delivered[p], f.id) => got \subseteq got2 /\ f.id \in got2
    <2>1. ASSUME delivered'[p] = Append(delivered[p], f.id)
          PROVE  got \subseteq got2 /\ f.id \in got2
      <3> DEFINE d == delivered[p]
                 e == Append(d, f.id)
      <3>1. /\ DOMAIN e = 1..(Len(d) + 1) /\ DOMAIN d = 1..Len(d) /\ Len(d) \in Nat
            /\ \A k \in DOMAIN d : e[k] = d[k]
            /\ e[Len(d) + 1] = f.id
        BY <1>2, <1>4, AppendAt, LenProperties
      <3>2. got = {d[k] : k \in DOMAIN d} /\ got2 = {e[k] : k \in DOMAIN e}
        BY <2>1 DEF Received
      <3>3. (\A k \in DOMAIN d : k \in DOMAIN e) /\ Len(d) + 1 \in DOMAIN e
        BY <3>1
      <3> HIDE DEF d, e, got, got2
      <3>4. QED
        BY <3>1, <3>2, <3>3
    <2>2. QED
      BY <2>1
  <1> HIDE DEF q, f, rdy, exp, got, got2, next, open, begun
  <1>9. CASE HandleReset(p)
    <2>1. f.fn = "ResetLink"
      BY <1>9 DEF HandleReset, Reads, f, q
    <2>2. ready'[p] = TRUE /\ expectedFCB'[p] = TRUE /\ delivered'[p] = delivered[p]
      BY <1>1, <1>9 DEF HandleReset, TypeOK
    <2>3. Train(Tail(q), TRUE, TRUE, got, next, open, begun)
      BY <1>2, <1>3, <1>5, <2>1, TrainResets DEF f
    <2>4. QED
      BY <1>7, <2>1, <2>2, <2>3
  <1>10. ASSUME f.fn = "ConfirmedData"
         PROVE  rdy /\ ((f.fcb <=> exp) \/ f.id \in got)
    <2>1. FirstMark(q, 1)
      BY <1>2, <1>3, <1>10, MarksOfTail DEF Mark, f
    <2>2. QED
      BY <1>4, <1>5, <1>10, <2>1 DEF Train, Expected
  <1>11. ~RefuseConfirmed(p)
    BY <1>10 DEF RefuseConfirmed, Reads, f, q, rdy
  <1>12. CASE RepeatConfirmed(p)
    <2>1. f.fn = "ConfirmedData" /\ (f.fcb <=> ~exp)
      BY <1>2, <1>4, <1>12 DEF RepeatConfirmed, Reads, Duplicate, f, q, exp
    <2>2. ready'[p] = rdy /\ expectedFCB'[p] = exp /\ delivered'[p] = delivered[p]
      BY <1>12 DEF RepeatConfirmed, stateVars, rdy, exp
    <2>3. f.id \in got
      BY <1>2, <1>4, <1>10, <2>1
    <2>4. Train(Tail(q), rdy, exp, got, next, open, begun)
      BY <1>2, <1>3, <1>5, <2>1, <2>3, TrainReads DEF f
    <2>5. QED
      BY <1>7, <2>2, <2>3, <2>4
  <1>13. CASE AcceptConfirmed(p)
    <2>1. f.fn = "ConfirmedData" /\ f.fcb = exp
      BY <1>13 DEF AcceptConfirmed, Reads, Duplicate, f, q, exp
    <2>2. ready'[p] = rdy /\ expectedFCB'[p] = ~exp
      BY <1>1, <1>13 DEF AcceptConfirmed, TypeOK, rdy, exp
    <2>3. HandOver(p, f, <<Secondary("Ack")>>)
      BY <1>13 DEF AcceptConfirmed, ReplyLost, OneWay, f, q
    <2>4. delivered'[p] = Append(delivered[p], f.id)
      BY <1>1, <2>3 DEF HandOver, OneWay, TypeOK
    <2>5. PICK exp2 \in BOOLEAN : exp2 = ~exp
      BY <1>2
    <2>6. got \subseteq got2 /\ f.id \in got2
      BY <1>8, <2>4
    <2>7. f.fcb <=> ~exp2
      BY <1>2, <2>1, <2>5
    <2>8. Train(Tail(q), rdy, exp2, got2, next, open, begun)
      BY <1>2, <1>3, <1>5, <2>1, <2>6, <2>7, TrainReads DEF f
    <2>9. QED
      BY <2>1, <2>2, <2>5, <2>6, <2>8
  <1>14. ASSUME ~Mark(f), ready'[p] = rdy, expectedFCB'[p] = exp,
                delivered'[p] = delivered[p] \/ delivered'[p] = Append(delivered[p], f.id)
         PROVE  /\ Train(Tail(q), ready'[p], expectedFCB'[p], got2, next, open, begun)
                /\ got \subseteq got2
                /\ f.fn = "ConfirmedData" => f.id \in got2
    <2>1. Train(Tail(q), rdy, exp, got, next, open, begun) /\ Tail(q) \in Seq(Frame)
      BY <1>2, <1>3, <1>5, <1>14, TrainPasses, TailAt DEF f
    <2>2. got \subseteq got2
      BY <1>7, <1>8, <1>14
    <2>3. Train(Tail(q), rdy, exp, got2, next, open, begun)
      BY <2>1, <2>2, TrainStays
    <2>4. QED
      BY <1>14, <2>2, <2>3 DEF Mark
  <1>15. CASE AcceptUnconfirmed(p)
    <2>1. ~Mark(f)
      BY <1>15 DEF AcceptUnconfirmed, Reads, f, q, Mark
    <2>2. ready'[p] = rdy /\ expectedFCB'[p] = exp
      BY <1>15 DEF AcceptUnconfirmed, stateVars, rdy, exp
    <2>3. delivered'[p] = delivered[p] \/ delivered'[p] = Append(delivered[p], f.id)
      BY <1>1, <1>15 DEF AcceptUnconfirmed, HandOver, TypeOK, f, q
    <2>4. QED
      BY <1>14, <2>1, <2>2, <2>3
  <1>16. CASE AnswerStatus(p) \/ HandleStatus(p) \/ HandleNack(p) \/ RejectSecondary(p)
    <2>1. ~Mark(f)
      BY <1>16 DEF AnswerStatus, HandleStatus, HandleNack, RejectSecondary, Reads, f, q, Mark
    <2>2. ready'[p] = rdy /\ expectedFCB'[p] = exp /\ delivered'[p] = delivered[p]
      BY <1>16 DEF AnswerStatus, HandleStatus, HandleNack, RejectSecondary, stateVars, rdy, exp
    <2>3. QED
      BY <1>14, <2>1, <2>2
  <1>17. ~HandleAck(p)
    <2>1. ~Mark(pending[p])
      BY DEF OneWayInv, OnlyListens
    <2>2. QED
      BY <2>1 DEF HandleAck, Mark
  <1>18. QED
    BY <1>9, <1>11, <1>12, <1>13, <1>15, <1>16, <1>17 DEF Handle

\* What was written for a call stays with the peer, or on its way.
LEMMA CarriedStep ==
    ASSUME TypeOK, NEW s \in Station, OneWay(s), OneWayInv(s),
           NEW t \in Station, Start(t) \/ Handle(t) \/ NoFrame(t)
    PROVE  Carried(s)'
  <1> DEFINE p == Peer(s)
             q == inbox[p]
             q2 == inbox'[p]
  <1>1. p \in Station /\ p # s /\ Peer(p) = s /\ (t = s \/ t = p)
    BY StationFacts
  <1>2. q \in Seq(Frame) /\ Open(s) \in Request \cup {None}
    BY <1>1, OpenType DEF TypeOK
  <1>3. \A f \in succeeded[s] \cup {request[s], pending[s]} :
            f.fn = "ConfirmedData" => f.id \in Received(p) \cup OnItsWay(p)
    BY DEF OneWayInv, Carried
  <1>4. /\ OnItsWay(p) = {q[i].id : i \in {j \in DOMAIN q : q[j].fn = "ConfirmedData"}}
        /\ OnItsWay(p)' = {q2[i].id : i \in {j \in DOMAIN q2 : q2[j].fn = "ConfirmedData"}}
    BY DEF OnItsWay
  <1>5. SUFFICES \A f \in succeeded'[s] \cup {request'[s], pending'[s]} :
            f.fn = "ConfirmedData" => f.id \in Received(p)' \cup OnItsWay(p)'
    BY DEF Carried
  <1>6. ~(None.fn = "ConfirmedData")
    BY DEF None
  <1> HIDE DEF p, q, q2
  <1>7. CASE t = s
    <2>1. Received(p)' = Received(p)
      BY <1>7, StepIsLocal DEF Received, p
    <2>2. CASE Handle(s) \/ NoFrame(s)
      <3>1. PICK frames : Answer(frames, Open(s)) /\ q2 = q \o frames
        BY <2>2, StepWrites DEF OneWayInv, p, q, q2
      <3>2. \A i \in DOMAIN q : i \in DOMAIN q2 /\ q2[i] = q[i]
        BY <1>2, <3>1, AnswerType, ConcatKeeps
      <3>3. OnItsWay(p) \subseteq OnItsWay(p)'
        BY <1>4, <3>2
      <3>4. /\ pending'[s] \in {None, pending[s]} /\ request'[s] \in {None, request[s]}
            /\ succeeded'[s] \subseteq succeeded[s] \cup {request[s]}
        BY <2>2, RequestShrinks
      <3>5. QED
        BY <1>3, <1>6, <2>1, <3>3, <3>4
    <2>3. ASSUME NEW f \in Frame, Begin(s, f), UNCHANGED succeeded
          PROVE  Carried(s)'
      <3>1. Write(s, <<f>>) /\ pending'[s] = f /\ request'[s] = f
        BY <2>3 DEF Begin, OneWay, TypeOK
      <3>2. q2 = Append(q, f)
        BY <1>1, <1>2, <3>1, ConcatOne DEF Write, TypeOK, p, q, q2
      <3>3. /\ \A i \in DOMAIN q : i \in DOMAIN q2 /\ q2[i] = q[i]
            /\ Len(q) + 1 \in DOMAIN q2 /\ q2[Len(q) + 1] = f
        BY <1>2, <3>2, AppendAt, LenProperties
      <3>4. OnItsWay(p) \subseteq OnItsWay(p)'
        BY <1>4, <3>3
      <3>5. f.fn = "ConfirmedData" => f.id \in OnItsWay(p)'
        BY <1>4, <3>3
      <3>6. QED
        BY <1>3, <2>1, <2>3, <3>1, <3>4, <3>5 DEF Carried, p
    <2>4. CASE Reset(s) \/ SendConfirmed(s) \/ KeepAlive(s)
      <3>1. \A fn \in {"ResetLink", "ConfirmedData", "LinkStatusRequest"}, fcb \in BOOLEAN :
                Primary(fn, fcb, issued[s] + 1) \in Frame
        BY FramesWritten DEF TypeOK, PrimaryFn
      <3>2. nextSendFCB[s] \in BOOLEAN /\ FALSE \in BOOLEAN
        BY DEF TypeOK
      <3>3. \E f \in Frame : Begin(s, f) /\ UNCHANGED succeeded
        BY <2>4, <3>1, <3>2 DEF Reset, SendConfirmed, KeepAlive
      <3>4. Carried(s)'
        BY <2>3, <3>3
      <3>5. QED
        BY <3>4 DEF Carried, p
    <2>5. CASE SendUnconfirmed(s) \/ Receive(s)
      <3>1. \/ q2 = q
            \/ \E f \in Frame : q2 = Append(q, f)
        <4>1. CASE Receive(s)
          BY <4>1 DEF Receive, q, q2
        <4>2. CASE SendUnconfirmed(s)
          <5> DEFINE f == Primary("UnconfirmedData", FALSE, issued[s] + 1)
          <5>1. f \in Frame
            <6>1. "UnconfirmedData" \in PrimaryFn /\ issued[s] + 1 \in Nat /\ FALSE \in BOOLEAN
              BY DEF TypeOK, PrimaryFn
            <6>2. QED
              BY <6>1, FramesWritten
          <5>2. Write(s, <<f>>)
            BY <4>2 DEF SendUnconfirmed
          <5> HIDE DEF f
          <5>3. QED
            BY <1>1, <1>2, <5>1, <5>2, ConcatOne DEF Write, TypeOK, p, q, q2
        <4>3. QED
          BY <2>5, <4>1, <4>2
      <3>2. \A i \in DOMAIN q : i \in DOMAIN q2 /\ q2[i] = q[i]
        BY <1>2, <3>1, AppendAt, LenProperties
      <3>3. OnItsWay(p) \subseteq OnItsWay(p)'
        BY <1>4, <3>2
      <3>4. succeeded'[s] = succeeded[s] /\ request'[s] = request[s] /\ pending'[s] = pending[s]
        BY <2>5 DEF SendUnconfirmed, Receive, stateVars, callVars
      <3>5. QED
        BY <1>3, <2>1, <3>3, <3>4
    <2>6. QED
      BY <1>7, <2>2, <2>4, <2>5 DEF Start
  <1>8. CASE t = p
    <2>1. succeeded'[s] = succeeded[s] /\ request'[s] = request[s] /\ pending'[s] = pending[s]
      BY <1>1, <1>8, StepSparesPeer
    <2>2. CASE Handle(p)
      <3>1. /\ Received(p) \subseteq Received(p)'
            /\ Head(q).fn = "ConfirmedData" => Head(q).id \in Received(p)'
        BY <2>2, ReceiverTrain DEF p, q
      <3>2. q # <<>> /\ q2 = Tail(q)
        <4>1. q # <<>>
          BY <1>1, <2>2, HandleAnswers DEF q
        <4>2. QED
          BY <1>1, <2>2, <4>1, HandleAnswers, AnswerType, OpenType, ExchangeType
          DEF TypeOK, q, q2
      <3>3. \A i \in DOMAIN q : i = 1 \/ (i - 1 \in DOMAIN q2 /\ q2[i - 1] = q[i])
        BY <1>2, <3>2, HeadTailProperties, LenProperties
      <3>4. Head(q) = q[1]
        BY <1>2, <3>2, TailAt
      <3>5. OnItsWay(p) \subseteq Received(p)' \cup OnItsWay(p)'
        BY <1>4, <3>1, <3>3, <3>4
      <3>6. QED
        BY <1>3, <2>1, <3>1, <3>5
    <2>3. CASE Start(p) \/ NoFrame(p)
      <3>1. delivered'[p] = delivered[p]
        BY <2>3 DEF Start, NoFrame, Reset, SendConfirmed, KeepAlive, SendUnconfirmed, Receive,
           ReadTimeout, Abandon, ReadGarbage
      <3>2. q2 = q
        BY <1>1, <2>3, ListenerStream DEF OneWayInv, p, q, q2
      <3>3. QED
        BY <1>3, <1>4, <2>1, <3>1, <3>2 DEF Received
    <2>4. QED
      BY <1>8, <2>2, <2>3
  <1>9. QED
    BY <1>1, <1>7, <1>8

\* Every step of a one-way link preserves its invariant.
LEMMA OneWayStep ==
    ASSUME TypeOK, FCBInv, NEW s \in Station, OneWay(s), OneWayInv(s), [Next]_vars
    PROVE  OneWayInv(s)'
  <1> DEFINE p == Peer(s)
  <1>1. CASE UNCHANGED vars
    BY <1>1 DEF vars, OneWayInv, OnlyListens, TrainFrom, Carried, Received, OnItsWay
  <1>2. ASSUME NEW t \in Station, Start(t) \/ Handle(t) \/ NoFrame(t)
        PROVE  OneWayInv(s)'
    <2>1. p \in Station /\ p # s /\ Peer(p) = s /\ (t = s \/ t = p)
      BY StationFacts
    <2>2. \A u \in Station : ~torn'[u]
      <3>1. "tornRead" \notin Faults
        BY DEF OneWay
      <3>2. QED
        BY <1>2, <3>1, NothingIsTorn DEF OneWayInv
    <2>3. OnlyListens(s)'
      BY <1>2, ListensStep DEF OneWayInv
    <2>4. Carried(s)'
      BY <1>2, CarriedStep
    <2>5. TrainFrom(s)'
      <3>1. CASE t = s
        BY <1>2, <3>1, SenderTrain, StartedTrain
      <3>2. CASE t = p /\ Handle(p)
        BY <3>2, ReceiverTrain
      <3>3. CASE t = p /\ (Start(p) \/ NoFrame(p))
        <4>1. inbox'[p] = inbox[p]
          BY <2>1, <3>3, ListenerStream DEF OneWayInv
        <4>2. /\ ready'[s] = ready[s] /\ nextSendFCB'[s] = nextSendFCB[s]
              /\ pending'[s] = pending[s]
          BY <2>1, <3>3, StepSparesPeer
        <4>3. delivered'[p] = delivered[p] /\ expectedFCB'[p] = expectedFCB[p]
          BY <3>3 DEF Start, NoFrame, Reset, SendConfirmed, KeepAlive, SendUnconfirmed, Receive,
             ReadTimeout, Abandon, ReadGarbage, stateVars
        <4>4. ready'[p] = ready[p]
          <5>1. ~Reset(p)
            BY <2>1 DEF OneWay, Reset
          <5>2. QED
            BY <3>3, <5>1 DEF Start, NoFrame, SendConfirmed, KeepAlive, SendUnconfirmed, Receive,
               ReadTimeout, Abandon, ReadGarbage, stateVars
        <4>5. QED
          BY <4>1, <4>2, <4>3, <4>4 DEF OneWayInv, TrainFrom, Received
      <3>4. QED
        BY <1>2, <2>1, <3>1, <3>2, <3>3
    <2>6. QED
      BY <2>2, <2>3, <2>4, <2>5 DEF OneWayInv
  <1>3. QED
    BY <1>1, <1>2 DEF Next

\* The invariant holds of two new stations.
LEMMA OneWayInitially == ASSUME NEW s \in Station, Init PROVE OneWayInv(s)
  <1>1. Peer(s) \in Station
    BY StationFacts
  <1>2. /\ \A t \in Station : ~torn[t] /\ inbox[t] = <<>> /\ succeeded[t] = {}
        /\ pending[s] = None /\ request[s] = None /\ ready[s] = FALSE
        /\ pending[Peer(s)] = None /\ request[Peer(s)] = None
    BY <1>1 DEF Init
  <1>3. ~Mark(None) /\ ~(None.fn = "ConfirmedData") /\ ~(None.fn = "ResetLink")
    BY DEF Mark, None
  <1>4. OnlyListens(s)
    BY <1>1, <1>2, <1>3 DEF OnlyListens, NoMark
  <1>5. TrainFrom(s)
    BY <1>1, <1>2, <1>3 DEF TrainFrom, Train, Alternates, Expected, Follows, Agree, OpenBit
  <1>6. Carried(s)
    BY <1>2, <1>3 DEF Carried
  <1>7. QED
    BY <1>2, <1>4, <1>5, <1>6 DEF OneWayInv

\* On a link where one station resets and sends to a peer with a handler, where
\* every frame a call means to write is written and is read whole, data that
\* SendConfirmed reported acknowledged is never dropped as a duplicate
\* (handleConfirmedPrimary), although an ACK may answer an earlier copy.
THEOREM AckedIsNotLost ==
    ASSUME NEW s \in Station, OneWay(s)
    PROVE  Spec => []AckedNotLost
  <1>1. Init => OneWayInv(s)
    BY OneWayInitially
  <1>2. TypeOK /\ FCBInv /\ OneWayInv(s) /\ [Next]_vars => OneWayInv(s)'
    BY OneWayStep
  <1>3. OneWayInv(s) => AckedNotLost
    <2> SUFFICES ASSUME OneWayInv(s), NEW t \in Station, NEW f \in Acked(t)
                 PROVE  f.id \in Received(Peer(t)) \cup InFlight(Peer(t))
      BY DEF AckedNotLost
    <2>1. t = s
      <3>1. t # Peer(s)
        BY DEF OneWayInv, OnlyListens, Acked, Mark
      <3>2. QED
        BY <3>1, StationFacts
    <2>2. f.id \in Received(Peer(s)) \cup OnItsWay(Peer(s))
      BY <2>1 DEF OneWayInv, Carried, Acked
    <2>3. OnItsWay(Peer(s)) \subseteq InFlight(Peer(s))
      BY DEF OnItsWay, InFlight, IsPrimary, PrimaryFn
    <2>4. QED
      BY <2>1, <2>2, <2>3
  <1>4. QED
    BY <1>1, <1>2, <1>3, TypeCorrect, FCBInvariant, PTL DEF Spec

-----------------------------------------------------------------------------
(* The link implements LinkService.                                        *)

\* What a step of s does to the numbers LinkService sees.
LEMMA ServiceStep ==
    ASSUME TypeOK, FCBInv, [Next]_vars
    PROVE  [Service!Next]_<<issued, delivered>>
  <1>1. CASE UNCHANGED vars
    BY <1>1 DEF vars
  <1>2. ASSUME NEW s \in Station, Start(s) PROVE [Service!Next]_<<issued, delivered>>
    <2>1. /\ delivered' = delivered
          /\ issued' = issued \/ issued' = [issued EXCEPT ![s] = @ + 1]
      BY <1>2 DEF Start, Reset, SendConfirmed, KeepAlive, SendUnconfirmed, Receive, Begin
    <2>2. CASE issued' = issued
      BY <2>1, <2>2
    <2>3. CASE issued' = [issued EXCEPT ![s] = @ + 1]
      BY <2>1, <2>3 DEF Service!Next, Service!Offer, Service!Station, Station
    <2>4. QED
      BY <2>1, <2>2, <2>3
  <1>3. ASSUME NEW s \in Station, NoFrame(s) PROVE [Service!Next]_<<issued, delivered>>
    BY <1>3 DEF NoFrame, ReadTimeout, Abandon, ReadGarbage
  <1>4. ASSUME NEW s \in Station, Handle(s) PROVE [Service!Next]_<<issued, delivered>>
    <2> DEFINE f == Head(inbox[s])
               del == delivered[s]
    <2>1. issued' = issued
      BY <1>4 DEF Handle, HandleReset, RefuseConfirmed, RepeatConfirmed,
         AcceptConfirmed, AcceptUnconfirmed, AnswerStatus, HandleAck, HandleStatus,
         HandleNack, RejectSecondary
    <2>2. \/ delivered' = delivered
          \/ /\ AcceptConfirmed(s) \/ AcceptUnconfirmed(s)
             /\ delivered' = [delivered EXCEPT ![s] = Append(@, f.id)]
      BY <1>4 DEF Handle, HandleReset, RefuseConfirmed, RepeatConfirmed,
         AcceptConfirmed, AcceptUnconfirmed, AnswerStatus, HandleAck, HandleStatus,
         HandleNack, RejectSecondary, HandOver
    <2>3. CASE /\ AcceptConfirmed(s) \/ AcceptUnconfirmed(s)
               /\ delivered' = [delivered EXCEPT ![s] = Append(@, f.id)]
      <3>1. /\ inbox[s] # <<>> /\ inbox[s] \in Seq(Frame) /\ f.id \in Nat
            /\ IsPrimary(f)
            /\ f.fn = "UnconfirmedData" \/ f.fcb = expectedFCB[s]
        BY <2>3, ReadsFrame
           DEF AcceptConfirmed, AcceptUnconfirmed, Duplicate, IsPrimary, PrimaryFn, TypeOK
      <3>2. Direction(inbox[s], issued[Peer(s)], Open(Peer(s)), expectedFCB[s], del)
        BY DEF FCBInv
      <3>3. f = inbox[s][1] /\ 1 \in DOMAIN inbox[s]
        BY <3>1, TailAt
      <3>4. 1 <= f.id /\ f.id <= issued[Peer(s)]
        BY <3>1, <3>2, <3>3 DEF Direction, FramesInOrder
      <3>5. \A k \in DOMAIN del : del[k] \in Nat /\ del[k] < f.id
        <4>1. \A k \in DOMAIN del : del[k] \in Nat
          BY ElementOfSeq, LenProperties DEF TypeOK
        <4>2. \A k \in DOMAIN del : del[k] <= f.id /\ del[k] # f.id
          BY <3>1, <3>2, <3>3 DEF Direction, AheadIsNew
        <4>3. QED
          BY <3>1, <4>1, <4>2
      <3>6. f.id \in (Service!LastOf(del) + 1)..issued[Peer(s)]
        <4>1. issued[Peer(s)] \in Nat
          BY StationFacts DEF TypeOK
        <4>2. CASE del = <<>>
          BY <3>1, <3>4, <4>1, <4>2 DEF Service!LastOf
        <4>3. CASE del # <<>>
          <5>1. Len(del) \in DOMAIN del
            BY <4>3, LenProperties, EmptySeq DEF TypeOK
          <5>2. QED
            BY <3>1, <3>4, <3>5, <4>1, <4>3, <5>1 DEF Service!LastOf
        <4>4. QED
          BY <4>2, <4>3
      <3>7. Service!Peer(s) = Peer(s)
        BY DEF Service!Peer, Peer
      <3>8. Service!Deliver(s)
        BY <2>1, <2>3, <3>6, <3>7 DEF Service!Deliver
      <3>9. QED
        BY <3>8 DEF Service!Next, Service!Station, Station
    <2>4. QED
      BY <2>1, <2>2, <2>3
  <1>5. QED
    BY <1>1, <1>2, <1>3, <1>4 DEF Next

\* The link implements at-most-once, in-order delivery.
THEOREM ImplementsService == Spec => DeliveryService
  <1>1. Init => Service!Init
    BY DEF Init, Service!Init, Service!Station, Station
  <1>2. TypeOK /\ FCBInv /\ [Next]_vars => [Service!Next]_<<issued, delivered>>
    BY ServiceStep
  <1>3. QED
    BY <1>1, <1>2, TypeCorrect, FCBInvariant, PTL DEF Spec, DeliveryService, Service!Spec
=============================================================================
