------------------------- MODULE StrictSession_proofs -------------------------
(***************************************************************************)
(* Theorems about StrictSession, for any numbers and lengths of fragments, *)
(* any limits and any faults.                                              *)
(*                                                                         *)
(* The argument for what is joined: whatever a station has written is a    *)
(* sequence h of segments, none of which the state still holds when it has *)
(* been read; the invariant says that there is such an h (Stream), that    *)
(* what travels and what is joined are elements of h in the order of h,    *)
(* and that two elements that a reassembler takes for neighbours are       *)
(* neighbours in h, or a full cycle of numbers apart.                      *)
(*                                                                         *)
(* For the order of what is joined no h is needed: what has been returned, *)
(* what the two reassemblers hold, what travels and what is yet to be      *)
(* written are, in this order, numbered upwards (OrderInv).                *)
(*                                                                         *)
(* The argument for what is refused: as long as nothing is disturbed, what *)
(* travels is the very end of h, and each reassembler is where the last    *)
(* element it read left it (Unbroken), so the next one fits.               *)
(***************************************************************************)
EXTENDS StrictSession, Integers, TLAPS

-----------------------------------------------------------------------------
(* Facts about sequences, and about numbers that go round.                 *)

LEMMA Appended ==
    ASSUME NEW S, NEW s \in Seq(S), NEW x \in S
    PROVE  /\ Append(s, x) \in Seq(S)
           /\ Len(s) \in Nat /\ Len(Append(s, x)) = Len(s) + 1
           /\ Append(s, x)[Len(s) + 1] = x
           /\ \A i \in 1..Len(s) : Append(s, x)[i] = s[i] /\ s[i] \in S
  OBVIOUS

LEMMA Growing ==
    ASSUME NEW S, NEW s \in Seq(S), NEW x \in S
    PROVE  \E v \in Seq(S) :
             /\ v = Append(s, x) /\ Len(s) \in Nat /\ Len(v) = Len(s) + 1 /\ v[Len(s) + 1] = x
             /\ \A i \in 1..Len(s) : v[i] = s[i]
  <1>1. /\ Append(s, x) \in Seq(S) /\ Len(s) \in Nat /\ Len(Append(s, x)) = Len(s) + 1
        /\ Append(s, x)[Len(s) + 1] = x
        /\ \A i \in 1..Len(s) : Append(s, x)[i] = s[i]
    BY Appended
  <1> QED
    BY <1>1

LEMMA Removed ==
    ASSUME NEW S, NEW s \in Seq(S), s # <<>>
    PROVE  /\ Tail(s) \in Seq(S)
           /\ Len(s) \in Nat \ {0} /\ Len(Tail(s)) = Len(s) - 1
           /\ Head(s) = s[1] /\ s[1] \in S
           /\ \A i \in 1..Len(Tail(s)) : Tail(s)[i] = s[i + 1]
  OBVIOUS

LEMMA Nothing ==
    ASSUME NEW S, NEW s \in Seq(S)
    PROVE  s = <<>> <=> Len(s) = 0
  OBVIOUS

LEMMA Within ==
    ASSUME NEW S, NEW s \in Seq(S)
    PROVE  Len(s) \in Nat /\ \A i \in 1..Len(s) : s[i] \in S
  OBVIOUS

LEMMA MoreLeft ==
    ASSUME NEW S, NEW s \in Seq(S), s # <<>>
    PROVE  Len(s) > 1 <=> Tail(s) # <<>>
  <1>1. PICK n \in Nat \ {0} : n = Len(s)
    BY Removed
  <1>2. PICK t \in Seq(S) : t = Tail(s) /\ Len(t) = n - 1
    BY <1>1, Removed
  <1>3. t = <<>> <=> Len(t) = 0
    BY Nothing
  <1>4. n > 1 <=> t # <<>>
    BY <1>2, <1>3
  <1> QED
    BY <1>1, <1>2, <1>4

LEMMA Joining ==
    ASSUME NEW S, NEW a \in Seq(S), NEW b \in Seq(S)
    PROVE  /\ a \o b \in Seq(S)
           /\ Len(a) \in Nat /\ Len(b) \in Nat /\ Len(a \o b) = Len(a) + Len(b)
           /\ \A i \in 1..Len(a) : (a \o b)[i] = a[i]
           /\ \A i \in 1..Len(b) : (a \o b)[Len(a) + i] = b[i]
  OBVIOUS

LEMMA Divides ==
    ASSUME NEW M \in Nat \ {0}, NEW a \in Nat
    PROVE  \E q \in Nat, r \in 0..(M - 1) : a = M * q + r /\ a % M = r
  OBVIOUS

LEMMA Remainder ==
    ASSUME NEW M \in Nat \ {0}, NEW q \in Nat, NEW r \in 0..(M - 1)
    PROVE  (M * q + r) % M = r
  OBVIOUS

\* Two numbers that look the same are the same, or a cycle apart.
LEMMA Cycle ==
    ASSUME NEW M \in Nat \ {0}, NEW a \in Nat, NEW b \in Nat, a % M = b % M, a < b
    PROVE  b >= a + M
  <1>1. PICK x \in Nat, r \in 0..(M - 1) : a = M * x + r /\ a % M = r
    BY Divides
  <1>2. PICK y \in Nat, t \in 0..(M - 1) : b = M * y + t /\ b % M = t
    BY Divides
  <1>3. M * x < M * y
    BY <1>1, <1>2
  <1>4. x < y
    BY <1>3
  <1>5. M * (y - x) >= M
    BY <1>4
  <1> QED
    BY <1>1, <1>2, <1>5

LEMMA AddCycle ==
    ASSUME NEW M \in Nat \ {0}, NEW a \in Nat, NEW b \in Nat
    PROVE  ((a % M) + b) % M = (a + b) % M
  <1>1. PICK x \in Nat, r \in 0..(M - 1) : a = M * x + r /\ a % M = r
    BY Divides
  <1>2. PICK y \in Nat, t \in 0..(M - 1) : r + b = M * y + t /\ (r + b) % M = t
    BY Divides
  <1>3. a + b = M * (x + y) + t
    BY <1>1, <1>2
  <1>4. (M * (x + y) + t) % M = t
    BY Remainder
  <1> QED
    BY <1>1, <1>2, <1>3, <1>4

LEMMA Least ==
    ASSUME NEW M \in Nat \ {0}, NEW a \in Nat
    PROVE  a % M \in 0..(M - 1)
  OBVIOUS

-----------------------------------------------------------------------------
(* Type correctness.                                                       *)

Data(x) == x.header.kind = "data"

\* The two stations, and what the configuration gives each.
LEMMA Stations ==
    /\ Master \in Station /\ Outstation \in Station
    /\ \A s \in Station :
         /\ Peer(s) \in Station /\ Peer(s) # s /\ Peer(Peer(s)) = s
         /\ \A t \in Station : t = s \/ t = Peer(s)
         /\ MaximumApplication[s] \in Nat \ {0}
         /\ MaxSize[s] \in Nat
         /\ \A mode \in Modes[s] : mode.con \in BOOLEAN /\ mode.acked \in BOOLEAN
    /\ Modulus \in Nat \ {0} /\ AppModulus \in Nat \ {0}
  BY StrictSessionAssumption DEF Station, Peer

\* What a fragment is cut into.
Part(piece, i) == [piece EXCEPT !.part = i]

IsCut(g, header, piece, size, number, n) ==
    \A i \in 1..size :
        /\ g[i].Sequence = (number + i - 1) % Modulus
        /\ (g[i].FIR <=> i = 1) /\ (g[i].FIN <=> i = size)
        /\ g[i].header = header /\ g[i].piece = Part(piece, i)
        /\ g[i].n = n + i

LEMMA Cut ==
    ASSUME NEW header \in Header, NEW piece \in Piece, NEW size \in Nat \ {0},
           NEW number \in Nat, NEW n \in Nat
    PROVE  /\ SegmentStrict(header, piece, size, number, n) \in Seq(Segment)
           /\ Len(SegmentStrict(header, piece, size, number, n)) = size
           /\ IsCut(SegmentStrict(header, piece, size, number, n), header, piece, size, number, n)
  <1> DEFINE g == SegmentStrict(header, piece, size, number, n)
  <1>1. \A i \in 1..size : (number + i - 1) % Modulus \in 0..(Modulus - 1)
    <2> TAKE i \in 1..size
    <2>1. number + i - 1 \in Nat
      OBVIOUS
    <2> QED
      BY <2>1, Least, Stations
  <1>2. \A i \in 1..size :
           /\ g[i] \in Segment
           /\ g[i].Sequence = (number + i - 1) % Modulus
           /\ g[i].FIR = (i = 1) /\ g[i].FIN = (i = size)
           /\ g[i].header = header /\ g[i].piece = [piece EXCEPT !.part = i]
           /\ g[i].n = n + i
    BY <1>1 DEF SegmentStrict, Segment, Piece
  <1>3. g = [i \in 1..size |-> g[i]]
    BY DEF SegmentStrict
  <1> HIDE DEF g
  <1>4. g \in Seq(Segment) /\ Len(g) = size
    <2>1. DOMAIN g = 1..size /\ g \in [1..size -> Segment]
      BY <1>2, <1>3
    <2> QED
      BY <2>1
  <1>5. IsCut(g, header, piece, size, number, n)
    BY <1>2 DEF IsCut, Part
  <1> QED
    BY <1>4, <1>5 DEF g

OpenState == [msg : Nat, k : Nat, pieces : Nat]
SentState == [fragments : Nat, segments : Nat, abandoned : BOOLEAN, longest : Nat]

\* Everything has its type, the ghosts included.
TypeInv ==
    /\ TypeOK
    /\ open \in [Station -> OpenState] /\ sent \in [Station -> SentState]
    /\ spoiled \in [Station -> BOOLEAN] /\ rejected \in [Station -> BOOLEAN]

LEMMA OpenFields ==
    \A o \in OpenState :
       o.msg \in Nat /\ o.k \in Nat /\ o.pieces \in Nat
  BY DEF OpenState

LEMMA OpenEnds ==
    \A o \in OpenState, k \in Nat : [o EXCEPT !.k = k] \in OpenState
  BY DEF OpenState

LEMMA SentFields ==
    \A x \in SentState :
       /\ x.fragments \in Nat /\ x.segments \in Nat /\ x.abandoned \in BOOLEAN
       /\ x.longest \in Nat
  BY DEF SentState

LEMMA SentGrows ==
    ASSUME NEW x \in SentState
    PROVE  /\ [x EXCEPT !.segments = x.segments + 1] \in SentState
           /\ [x EXCEPT !.abandoned = TRUE] \in SentState
  <1>1. [x EXCEPT !.segments = x.segments + 1] \in SentState
    BY DEF SentState
  <1>2. [x EXCEPT !.abandoned = TRUE] \in SentState
    BY DEF SentState
  <1> QED
    BY <1>1, <1>2

LEMMA SentMore ==
    ASSUME NEW x \in SentState, NEW q \in Nat, NEW n \in Nat
    PROVE  [x EXCEPT !.fragments = q, !.longest = n] \in SentState
  BY DEF SentState

LEMMA FaultLeft == TypeInv /\ Fault => faults' \in 0..MaxFaults
  <1>1. MaxFaults \in Nat
    BY StrictSessionAssumption
  <1>2. TypeInv => faults \in 0..MaxFaults
    BY DEF TypeInv, TypeOK
  <1> QED
    BY <1>1, <1>2 DEF Fault

LEMMA TypeInit == Init => TypeInv
  <1> SUFFICES ASSUME Init PROVE TypeInv
    OBVIOUS
  <1>1. 0 \in 0..(Modulus - 1) /\ 0 \in 0..(AppModulus - 1)
    BY Stations
  <1>2. NoTransport \in [active : BOOLEAN, nextSequence : 0..(Modulus - 1),
                         fragment : Seq(Segment)]
    BY <1>1 DEF NoTransport
  <1>3. NoApplication \in [active : BOOLEAN, nextSequence : 0..(AppModulus - 1),
                           kind : {"data", "confirm"}, objects : Seq(Segment)]
    BY <1>1 DEF NoApplication
  <1>4. NoTransport.fragment = <<>> /\ NoApplication.objects = <<>>
    BY DEF NoTransport, NoApplication
  <1> QED
    BY <1>1, <1>2, <1>3, <1>4, Stations, StrictSessionAssumption
    DEF Init, TypeInv, TypeOK, OpenState, SentState

TransportState == [active : BOOLEAN, nextSequence : 0..(Modulus - 1), fragment : Seq(Segment)]
ApplicationState == [active : BOOLEAN, nextSequence : 0..(AppModulus - 1),
                     kind : {"data", "confirm"}, objects : Seq(Segment)]

\* What the transport's reassembler does with a segment.
LEMMA TransportPushed ==
    ASSUME TypeInv, NEW s \in Station, NEW seg \in Segment
    PROVE  LET push == TransportPush(s, seg)
               t == transportInput[s]
               old == IF seg.FIR THEN <<>> ELSE t.fragment
               fits == /\ seg.FIR \/ (t.active /\ seg.Sequence = t.nextSequence)
                       /\ Len(old) + 1 <= MaximumApplication[s]
           IN /\ old \in Seq(Segment)
              /\ push.state \in TransportState
              /\ Len(push.state.fragment) <= MaximumApplication[s]
              /\ ~push.state.active => push.state.fragment = <<>>
              /\ push.result = IF ~fits THEN "error" ELSE IF seg.FIN THEN "complete" ELSE "more"
              /\ push.result # "more" => push.state = NoTransport
              /\ push.result = "more" =>
                    /\ push.state.active /\ push.state.fragment = Append(old, seg)
                    /\ push.state.nextSequence = (seg.Sequence + 1) % Modulus
              /\ push.result = "complete" => push.fragment = Append(old, seg)
  <1> DEFINE t == transportInput[s]
             old == IF seg.FIR THEN <<>> ELSE t.fragment
             r == IF seg.FIR THEN [NoTransport EXCEPT !.active = TRUE, !.nextSequence = seg.Sequence]
                  ELSE t
             got == Append(r.fragment, seg)
  <1>1. t \in TransportState /\ seg.Sequence \in 0..(Modulus - 1)
    BY DEF TypeInv, TypeOK, TransportState, Segment
  <1>2. /\ r \in TransportState /\ r.fragment = old
        /\ seg.FIR => r.active /\ r.nextSequence = seg.Sequence
        /\ ~seg.FIR => r = t
    <2>1. CASE seg.FIR
      <3>1. r = [active |-> TRUE, nextSequence |-> seg.Sequence, fragment |-> <<>>]
        BY <2>1 DEF NoTransport
      <3> HIDE DEF r
      <3> QED
        BY <1>1, <2>1, <3>1 DEF TransportState
    <2>2. CASE ~seg.FIR
      BY <1>1, <2>2 DEF TransportState
    <2> QED
      BY <2>1, <2>2
  <1>3. old \in Seq(Segment)
    BY <1>1 DEF TransportState
  <1> HIDE DEF r, old
  <1>4. (seg.Sequence + 1) % Modulus \in 0..(Modulus - 1)
    BY <1>1, Least, Stations
  <1>5. /\ NoTransport \in TransportState /\ NoTransport.fragment = <<>>
        /\ Len(<<>>) <= MaximumApplication[s]
    BY Stations DEF NoTransport, TransportState
  <1>6. got \in Seq(Segment) /\ got = Append(old, seg) /\ Len(got) = Len(old) + 1
    BY <1>2, <1>3
  <1> DEFINE more == [r EXCEPT !.fragment = got, !.nextSequence = (seg.Sequence + 1) % Modulus]
             refused == ~r.active \/ seg.Sequence # r.nextSequence \/ Len(got) > MaximumApplication[s]
  <1>7. /\ more \in TransportState /\ more.fragment = got /\ more.active = r.active
        /\ more.nextSequence = (seg.Sequence + 1) % Modulus
    BY <1>2, <1>4, <1>6 DEF TransportState
  <1>8. TransportPush(s, seg) =
            IF refused THEN [state |-> NoTransport, result |-> "error", fragment |-> <<>>]
            ELSE IF seg.FIN
            THEN [state |-> NoTransport, result |-> "complete", fragment |-> got]
            ELSE [state |-> more, result |-> "more", fragment |-> <<>>]
    BY DEF TransportPush, r
  <1>9. refused <=> ~(/\ seg.FIR \/ (t.active /\ seg.Sequence = t.nextSequence)
                      /\ Len(old) + 1 <= MaximumApplication[s])
    BY <1>2, <1>3, <1>6, Stations
  <1>10. ~refused => Len(got) <= MaximumApplication[s] /\ r.active
    BY <1>6, <1>3, Stations
  <1> HIDE DEF t, old, r, got, more, refused
  <1>11. CASE refused
    BY <1>3, <1>5, <1>8, <1>9, <1>11 DEF old, t
  <1>12. CASE ~refused /\ seg.FIN
    BY <1>3, <1>5, <1>6, <1>8, <1>9, <1>12 DEF old, t
  <1>13. CASE ~refused /\ ~seg.FIN
    BY <1>3, <1>5, <1>6, <1>7, <1>8, <1>9, <1>10, <1>13 DEF old, t
  <1> QED
    BY <1>11, <1>12, <1>13

\* What the application's reassembler does with a fragment.
LEMMA ApplicationPushed ==
    ASSUME TypeInv, NEW s \in Station, NEW f \in Header, NEW objects \in Seq(Segment),
           objects # <<>>
    PROVE  LET push == ApplicationPush(s, f, objects)
               a == applicationInput[s]
               old == IF f.FIR THEN <<>> ELSE a.objects
               fits == /\ IF f.FIR THEN ~a.active
                          ELSE a.active /\ f.Sequence = a.nextSequence /\ f.kind = a.kind
                       /\ Len(old) + Len(objects) <= MaximumApplication[s]
           IN /\ old \in Seq(Segment)
              /\ push.state \in ApplicationState
              /\ Len(push.state.objects) <= MaximumApplication[s]
              /\ ~push.state.active => push.state.objects = <<>>
              /\ push.result = IF ~fits THEN "error" ELSE IF f.FIN THEN "complete" ELSE "more"
              /\ push.result # "more" => push.state = NoApplication
              /\ push.result = "more" =>
                    /\ push.state.active /\ push.state.objects = old \o objects
                    /\ push.state.kind = f.kind
                    /\ push.state.nextSequence = (f.Sequence + 1) % AppModulus
              /\ push.objects \in Seq(Segment)
              /\ push.result = "complete" => push.objects = old \o objects
  <1> DEFINE a == applicationInput[s]
             old == IF f.FIR THEN <<>> ELSE a.objects
             r == IF f.FIR THEN [NoApplication EXCEPT !.active = TRUE, !.kind = f.kind,
                                                      !.nextSequence = f.Sequence]
                  ELSE a
             got == r.objects \o objects
  <1>1. /\ a \in ApplicationState
        /\ f.Sequence \in 0..(AppModulus - 1) /\ f.kind \in {"data", "confirm"}
    BY DEF TypeInv, TypeOK, ApplicationState, Header
  <1>2. /\ r \in ApplicationState /\ r.objects = old
        /\ f.FIR => r.active /\ r.nextSequence = f.Sequence /\ r.kind = f.kind
        /\ ~f.FIR => r = a
    <2>1. CASE f.FIR
      <3>1. r = [active |-> TRUE, nextSequence |-> f.Sequence, kind |-> f.kind, objects |-> <<>>]
        BY <2>1 DEF NoApplication
      <3> HIDE DEF r
      <3> QED
        BY <1>1, <2>1, <3>1 DEF ApplicationState
    <2>2. CASE ~f.FIR
      BY <1>1, <2>2 DEF ApplicationState
    <2> QED
      BY <2>1, <2>2
  <1>3. old \in Seq(Segment)
    BY <1>1 DEF ApplicationState
  <1> HIDE DEF r, old
  <1>4. (f.Sequence + 1) % AppModulus \in 0..(AppModulus - 1)
    <2>1. f.Sequence + 1 \in Nat /\ AppModulus \in Nat \ {0}
      BY <1>1, Stations
    <2> QED
      BY <2>1, Least
  <1>5. /\ NoApplication \in ApplicationState /\ NoApplication.objects = <<>>
        /\ Len(<<>>) <= MaximumApplication[s]
    BY <1>1, Stations DEF NoApplication, ApplicationState
  <1>6. got \in Seq(Segment) /\ got = old \o objects /\ Len(got) = Len(old) + Len(objects)
    BY <1>2, <1>3
  <1> DEFINE more == [r EXCEPT !.objects = got, !.nextSequence = (f.Sequence + 1) % AppModulus]
             refused == \/ f.FIR /\ a.active
                        \/ ~r.active
                        \/ f.Sequence # r.nextSequence
                        \/ f.kind # r.kind
                        \/ Len(got) > MaximumApplication[s]
  <1>7. /\ more \in ApplicationState /\ more.objects = got /\ more.active = r.active
        /\ more.nextSequence = (f.Sequence + 1) % AppModulus /\ more.kind = r.kind
    BY <1>2, <1>4, <1>6 DEF ApplicationState
  <1>8. ApplicationPush(s, f, objects) =
            IF refused THEN [state |-> NoApplication, result |-> "error", objects |-> <<>>]
            ELSE IF f.FIN
            THEN [state |-> NoApplication, result |-> "complete", objects |-> got]
            ELSE [state |-> more, result |-> "more", objects |-> <<>>]
    BY DEF ApplicationPush, r
  <1>9. refused <=> ~(/\ IF f.FIR THEN ~a.active
                         ELSE a.active /\ f.Sequence = a.nextSequence /\ f.kind = a.kind
                      /\ Len(old) + Len(objects) <= MaximumApplication[s])
    BY <1>2, <1>3, <1>6, Stations
  <1>10. ~refused => Len(got) <= MaximumApplication[s] /\ r.active /\ r.kind = f.kind
    BY <1>6, <1>3, Stations
  <1> HIDE DEF a, old, r, got, more, refused
  <1>11. CASE refused
    BY <1>3, <1>5, <1>8, <1>9, <1>11 DEF old, a
  <1>12. CASE ~refused /\ f.FIN
    BY <1>3, <1>5, <1>6, <1>8, <1>9, <1>12 DEF old, a
  <1>13. CASE ~refused /\ ~f.FIN
    <2>1. ApplicationPush(s, f, objects) = [state |-> more, result |-> "more", objects |-> <<>>]
      BY <1>8, <1>13
    <2>2. /\ ApplicationPush(s, f, objects).state = more
          /\ ApplicationPush(s, f, objects).result = "more"
          /\ ApplicationPush(s, f, objects).objects = <<>>
      BY <2>1
    <2>3. more.active /\ more.objects = old \o objects /\ more.kind = f.kind
          /\ Len(more.objects) <= MaximumApplication[s]
      BY <1>6, <1>7, <1>10, <1>13
    <2>4. /\ IF f.FIR THEN ~a.active
             ELSE a.active /\ f.Sequence = a.nextSequence /\ f.kind = a.kind
          /\ Len(old) + Len(objects) <= MaximumApplication[s]
      BY <1>9, <1>13
    <2>5. <<>> \in Seq(Segment) /\ "more" # "complete"
      OBVIOUS
    <2> QED
      BY <1>3, <1>7, <1>13, <2>2, <2>3, <2>4, <2>5 DEF old, a
  <1> QED
    BY <1>11, <1>12, <1>13

LEMMA TypeSending ==
    ASSUME TypeInv, NEW s \in Station,
           SendApplication(s) \/ SendUnconfirmed(s) \/ SendConfirmed(s) \/ Acknowledged(s)
                \/ SendFails(s)
    PROVE  TypeInv'
  <1> USE DEF inputVars, callVars
  <1>1. CASE SendApplication(s)
    <2>1. PICK size \in 1..MaxSize[s], fin \in BOOLEAN, mode \in Modes[s] :
            LET m == IF open[s].k = 0 THEN open[s].msg + 1 ELSE open[s].msg
                k == open[s].k + 1
                q == sent[s].fragments + 1
                length == size + (IF k = 1 THEN 0 ELSE open[s].pieces)
                header == [FIR |-> k = 1, FIN |-> fin, CON |-> mode.con, kind |-> "data",
                           Sequence |-> q % AppModulus]
                piece == [msg |-> m, k |-> k, q |-> q, size |-> size, part |-> 0, last |-> fin]
            IN /\ Encodes(s, size)
               /\ segments' = [segments EXCEPT ![s] = SegmentStrict(header, piece, size,
                                    nextTransport[s], sent[s].segments)]
               /\ confirmed' = [confirmed EXCEPT ![s] = mode.acked]
               /\ open' = [open EXCEPT ![s] = [msg |-> m, k |-> k, pieces |-> length]]
               /\ sent' = [sent EXCEPT ![s].fragments = q,
                                       ![s].longest = IF length > @ THEN length ELSE @]
      BY <1>1 DEF SendApplication
    <2> DEFINE m == IF open[s].k = 0 THEN open[s].msg + 1 ELSE open[s].msg
               k == open[s].k + 1
               q == sent[s].fragments + 1
               length == size + (IF k = 1 THEN 0 ELSE open[s].pieces)
               longest == IF length > sent[s].longest THEN length ELSE sent[s].longest
               header == [FIR |-> k = 1, FIN |-> fin, CON |-> mode.con, kind |-> "data",
                          Sequence |-> q % AppModulus]
               piece == [msg |-> m, k |-> k, q |-> q, size |-> size, part |-> 0, last |-> fin]
               g == SegmentStrict(header, piece, size, nextTransport[s], sent[s].segments)
    <2>2. /\ size \in Nat \ {0} /\ mode.con \in BOOLEAN /\ mode.acked \in BOOLEAN
          /\ open[s] \in OpenState /\ sent[s] \in SentState
      BY Stations DEF TypeInv
    <2>3. m \in Nat /\ k \in Nat /\ q \in Nat /\ length \in Nat /\ longest \in Nat
      <3>1. /\ open[s].msg \in Nat /\ open[s].k \in Nat /\ open[s].pieces \in Nat
            /\ sent[s].fragments \in Nat /\ sent[s].longest \in Nat
        BY <2>2, OpenFields, SentFields
      <3> QED
        BY <2>2, <3>1
    <2>4. q % AppModulus \in 0..(AppModulus - 1)
      BY <2>3, Least, Stations
    <2>5. header \in Header /\ piece \in Piece
      BY <2>2, <2>3, <2>4 DEF Header, Piece
    <2>10. nextTransport[s] \in Nat /\ sent[s].segments \in Nat
      <3>1. nextTransport[s] \in 0..(Modulus - 1)
        BY DEF TypeInv, TypeOK
      <3> QED
        BY <2>2, <3>1, Stations, SentFields
    <2>11. /\ segments' = [segments EXCEPT ![s] = g]
           /\ confirmed' = [confirmed EXCEPT ![s] = mode.acked]
           /\ open' = [open EXCEPT ![s] = [msg |-> m, k |-> k, pieces |-> length]]
           /\ sent' = [sent EXCEPT ![s].fragments = q, ![s].longest = longest]
      BY <2>1
    <2> HIDE DEF m, k, q, length, longest, header, piece
    <2>12. g \in Seq(Segment) /\ g # <<>>
      <3>1. g \in Seq(Segment) /\ Len(g) = size
        BY <2>2, <2>5, <2>10, Cut
      <3> QED
        BY <2>2, <3>1, Nothing
    <2> HIDE DEF g
    <2>6. /\ call' = [call EXCEPT ![s] = "send"] /\ call[s] = "idle"
          /\ UNCHANGED <<wire, waiting, nextTransport, transportInput, applicationInput,
                         complete, handed, spoiled, rejected, faults>>
      BY <1>1 DEF SendApplication
    <2>7. open' \in [Station -> OpenState] /\ sent' \in [Station -> SentState]
      <3>1. sent' = [sent EXCEPT ![s] = [sent[s] EXCEPT !.fragments = q, !.longest = longest]]
        BY <2>11
      <3>2. [sent[s] EXCEPT !.fragments = q, !.longest = longest] \in SentState
        BY <2>2, <2>3, SentMore
      <3>3. [msg |-> m, k |-> k, pieces |-> length] \in OpenState
        BY <2>3 DEF OpenState
      <3> QED
        BY <2>11, <3>1, <3>2, <3>3 DEF TypeInv
    <2> QED
      BY <2>2, <2>6, <2>7, <2>11, <2>12 DEF TypeInv, TypeOK
  <1>2. ASSUME call[s] = "send"
        PROVE  /\ segments[s] \in Seq(Segment) /\ segments[s] # <<>>
               /\ Tail(segments[s]) \in Seq(Segment)
               /\ Len(segments[s]) > 1 <=> Tail(segments[s]) # <<>>
               /\ Head(segments[s]) \in Segment /\ Head(segments[s]).Sequence \in Nat
               /\ (Head(segments[s]).Sequence + 1) % Modulus \in 0..(Modulus - 1)
               /\ Head(segments[s]) = segments[s][1]
    <2>1. segments[s] \in Seq(Segment) /\ segments[s] # <<>>
      BY <1>2 DEF TypeInv, TypeOK
    <2>2. Head(segments[s]) \in Segment /\ Head(segments[s]) = segments[s][1]
          /\ Tail(segments[s]) \in Seq(Segment)
      BY <2>1, Removed
    <2>3. Head(segments[s]).Sequence \in 0..(Modulus - 1)
      BY <2>2 DEF Segment
    <2>4. Head(segments[s]).Sequence \in Nat /\ Head(segments[s]).Sequence + 1 \in Nat
      BY <2>3, Stations
    <2>5. (Head(segments[s]).Sequence + 1) % Modulus \in 0..(Modulus - 1)
      BY <2>4, Least, Stations
    <2>6. Len(segments[s]) > 1 <=> Tail(segments[s]) # <<>>
      BY <2>1, MoreLeft
    <2> QED
      BY <2>1, <2>2, <2>4, <2>5, <2>6
  <1>3. ASSUME call[s] = "send", SegmentSent(s)
        PROVE  /\ segments' \in [Station -> Seq(Segment)]
               /\ waiting' \in [Station -> BOOLEAN]
               /\ call' \in [Station -> {"idle", "send", "receive", "other"}]
               /\ nextTransport' \in [Station -> 0..(Modulus - 1)]
               /\ open' \in [Station -> OpenState]
               /\ call'[s] = "send" <=> segments'[s] # <<>>
               /\ ~waiting'[s]
               /\ \A t \in Station : t # s => /\ call'[t] = call[t] /\ waiting'[t] = waiting[t]
                                              /\ segments'[t] = segments[t]
    <2>1. segments' = [segments EXCEPT ![s] = Tail(@)] /\ waiting' = [waiting EXCEPT ![s] = FALSE]
      BY <1>3 DEF SegmentSent
    <2>2. CASE Len(segments[s]) > 1
      <3>1. UNCHANGED <<call, nextTransport, open>>
        BY <1>3, <2>2 DEF SegmentSent
      <3> QED
        BY <1>2, <1>3, <2>1, <2>2, <3>1 DEF TypeInv, TypeOK
    <2>3. CASE ~(Len(segments[s]) > 1)
      <3>1. /\ call' = [call EXCEPT ![s] = "idle"]
            /\ nextTransport' = [nextTransport EXCEPT ![s] = (Head(segments[s]).Sequence + 1) % Modulus]
            /\ open' = [open EXCEPT ![s].k = IF Head(segments[s]).header.FIN THEN 0 ELSE @]
        BY <1>3, <2>3 DEF SegmentSent
      <3>2. open' \in [Station -> OpenState]
        <4>1. \E k \in Nat : open' = [open EXCEPT ![s] = [open[s] EXCEPT !.k = k]]
          <5>1. open[s] \in OpenState /\ open[s].k \in Nat
            BY OpenFields DEF TypeInv
          <5> QED
            BY <3>1, <5>1
        <4>2. PICK k \in Nat : open' = [open EXCEPT ![s] = [open[s] EXCEPT !.k = k]]
          BY <4>1
        <4>3. [open[s] EXCEPT !.k = k] \in OpenState
          BY OpenEnds DEF TypeInv
        <4> QED
          BY <4>2, <4>3 DEF TypeInv
      <3> QED
        BY <1>2, <1>3, <2>1, <2>3, <3>1, <3>2 DEF TypeInv, TypeOK
    <2> QED
      BY <2>2, <2>3
  <1>4. ASSUME call[s] = "send", WriteSegment(s)
        PROVE  /\ wire' \in [Station -> Seq(Segment)]
               /\ sent' \in [Station -> SentState]
    <2>1. wire[Peer(s)] \in Seq(Segment) /\ Append(wire[Peer(s)], Head(segments[s])) \in Seq(Segment)
      BY <1>2, <1>4, Stations, Appended DEF TypeInv, TypeOK
    <2>2. sent' = [sent EXCEPT ![s] = [sent[s] EXCEPT !.segments = sent[s].segments + 1]]
      BY <1>4 DEF WriteSegment
    <2>3. sent' \in [Station -> SentState]
      BY <2>2, SentGrows DEF TypeInv
    <2> QED
      BY <1>4, <2>1, <2>3, Stations DEF WriteSegment, TypeInv, TypeOK
  <1>5. CASE SendUnconfirmed(s)
    <2>1. /\ call[s] = "send" /\ WriteSegment(s) /\ SegmentSent(s)
          /\ UNCHANGED <<confirmed, transportInput, applicationInput, handed, spoiled, rejected, faults>>
      BY <1>5 DEF SendUnconfirmed
    <2> QED
      BY <1>3, <1>4, <2>1 DEF TypeInv, TypeOK
  <1>6. CASE SendConfirmed(s)
    <2>1. /\ call[s] = "send" /\ WriteSegment(s) /\ confirmed[s]
          /\ waiting' = [waiting EXCEPT ![s] = TRUE]
          /\ UNCHANGED <<call, segments, confirmed, nextTransport, transportInput, applicationInput,
                         open, handed, spoiled, rejected, faults>>
      BY <1>6 DEF SendConfirmed
    <2> QED
      BY <1>4, <2>1 DEF TypeInv, TypeOK
  <1>7. CASE Acknowledged(s)
    <2>1. /\ call[s] = "send" /\ SegmentSent(s)
          /\ UNCHANGED <<wire, confirmed, transportInput, applicationInput, sent, handed, spoiled,
                         rejected, faults>>
      BY <1>7 DEF Acknowledged, TypeInv, TypeOK
    <2> QED
      BY <1>3, <2>1 DEF TypeInv, TypeOK
  <1>8. CASE SendFails(s)
    <2>1. /\ call' = [call EXCEPT ![s] = "idle"] /\ segments' = [segments EXCEPT ![s] = <<>>]
          /\ waiting' = [waiting EXCEPT ![s] = FALSE] /\ open' = [open EXCEPT ![s].k = 0]
          /\ sent' = [sent EXCEPT ![s].abandoned = TRUE]
          /\ Fault
          /\ UNCHANGED <<wire, confirmed, nextTransport, transportInput, applicationInput, handed,
                         spoiled, rejected>>
      BY <1>8 DEF SendFails
    <2>2. open' \in [Station -> OpenState]
      <3>1. open' = [open EXCEPT ![s] = [open[s] EXCEPT !.k = 0]]
        BY <2>1
      <3> QED
        BY <3>1, OpenEnds DEF TypeInv
    <2>3. sent' \in [Station -> SentState]
      <3>1. sent' = [sent EXCEPT ![s] = [sent[s] EXCEPT !.abandoned = TRUE]]
        BY <2>1
      <3> QED
        BY <3>1, SentGrows DEF TypeInv
    <2>4. faults' \in 0..MaxFaults
      BY <2>1, FaultLeft
    <2>5. segments' \in [Station -> Seq(Segment)]
      BY <2>1 DEF TypeInv, TypeOK
    <2> QED
      BY <2>1, <2>2, <2>3, <2>4, <2>5 DEF TypeInv, TypeOK
  <1> QED
    BY <1>1, <1>5, <1>6, <1>7, <1>8

\* The confirmation of a fragment is a segment, and numbered as the next one.
LEMMA Confirms ==
    ASSUME TypeInv, NEW s \in Station, NEW f \in Header
    PROVE  LET x == Confirmation(s, f) IN
           /\ x \in Segment
           /\ x.Sequence = nextTransport[s] /\ x.n = sent[s].segments + 1
           /\ x.FIR /\ x.FIN /\ x.piece.part = 1 /\ x.piece.size = 1 /\ x.piece.k = 1
           /\ x.piece.last
           /\ x.header.FIR /\ x.header.FIN /\ ~x.header.CON /\ x.header.kind = "confirm"
  <1>0. PICK one \in Nat \ {0} : one = 1
    OBVIOUS
  <1> DEFINE header == [FIR |-> TRUE, FIN |-> TRUE, CON |-> FALSE, kind |-> "confirm",
                        Sequence |-> f.Sequence]
             piece == [msg |-> 0, k |-> 1, q |-> 0, size |-> 1, part |-> 0, last |-> TRUE]
             g == SegmentStrict(header, piece, one, nextTransport[s], sent[s].segments)
  <1>1. header \in Header /\ piece \in Piece
    BY DEF Header, Piece
  <1>2. nextTransport[s] \in 0..(Modulus - 1) /\ nextTransport[s] \in Nat
        /\ sent[s].segments \in Nat
    <2>1. nextTransport[s] \in 0..(Modulus - 1) /\ sent[s] \in SentState
      BY DEF TypeInv, TypeOK
    <2> QED
      BY <2>1, Stations, SentFields
  <1>3. (nextTransport[s] + 1 - 1) % Modulus = nextTransport[s]
    BY <1>2, Stations
  <1>4. LET x == Part(piece, 1) IN
        x.part = 1 /\ x.size = 1 /\ x.k = 1 /\ x.last
    BY DEF Part
  <1>5. Confirmation(s, f) = Head(g)
    BY <1>0 DEF Confirmation
  <1>6. header.FIR /\ header.FIN /\ ~header.CON /\ header.kind = "confirm"
    OBVIOUS
  <1> HIDE DEF header, piece
  <1>9. /\ g \in Seq(Segment) /\ Len(g) = one
        /\ IsCut(g, header, piece, one, nextTransport[s], sent[s].segments)
    BY <1>1, <1>2, Cut, SMTT(20)
  <1> HIDE DEF g
  <1>7. /\ g # <<>>
        /\ g[1].Sequence = (nextTransport[s] + 1 - 1) % Modulus
        /\ g[1].FIR = (1 = 1) /\ g[1].FIN = (1 = 1)
        /\ g[1].header = header /\ g[1].piece = Part(piece, 1)
        /\ g[1].n = sent[s].segments + 1
    <2>1. 1 \in 1..one /\ Len(g) = 1
      BY <1>0, <1>9
    <2>2. g # <<>>
      BY <1>9, <2>1
    <2> QED
      BY <1>0, <1>9, <2>1, <2>2 DEF IsCut
  <1>8. Head(g) = g[1] /\ g[1] \in Segment
    BY <1>9, <1>7, Removed
  <1> QED
    BY <1>3, <1>4, <1>5, <1>6, <1>7, <1>8, ZenonT(30)

\* What the first segment on the wire, and the fragment it may complete, are.
LEMMA Arrives ==
    ASSUME TypeInv, NEW s \in Station, wire[s] # <<>>
    PROVE  LET push == TransportPush(s, Head(wire[s])) IN
           /\ Head(wire[s]) \in Segment /\ Head(wire[s]) = wire[s][1]
           /\ Tail(wire[s]) \in Seq(Segment)
           /\ push.result = "complete" =>
                 /\ push.fragment \in Seq(Segment) /\ push.fragment # <<>>
                 /\ Decode(push.fragment) = push.fragment[1].header
                 /\ Decode(push.fragment) \in Header
  <1>1. wire[s] \in Seq(Segment)
    BY DEF TypeInv, TypeOK
  <1>2. Head(wire[s]) \in Segment /\ Head(wire[s]) = wire[s][1] /\ Tail(wire[s]) \in Seq(Segment)
    BY <1>1, Removed
  <1> DEFINE push == TransportPush(s, Head(wire[s]))
             old == IF Head(wire[s]).FIR THEN <<>> ELSE transportInput[s].fragment
  <1>3. old \in Seq(Segment) /\ (push.result = "complete" => push.fragment = Append(old, Head(wire[s])))
    BY <1>2, TransportPushed
  <1> HIDE DEF push, old
  <1>4. ASSUME push.result = "complete"
        PROVE  /\ push.fragment \in Seq(Segment) /\ push.fragment # <<>>
               /\ Head(push.fragment) = push.fragment[1] /\ push.fragment[1] \in Segment
    <2>1. push.fragment \in Seq(Segment) /\ push.fragment # <<>>
      BY <1>2, <1>3, <1>4, Appended, SMTT(20)
    <2> QED
      BY <2>1, Removed
  <1>5. \A x \in Segment : x.header \in Header
    BY DEF Segment
  <1> QED
    BY <1>2, <1>4, <1>5 DEF Decode, push

LEMMA TypeReceiving ==
    ASSUME TypeInv, NEW s \in Station, Receive(s) \/ ConfirmFails(s)
    PROVE  TypeInv'
  <1> USE DEF inputVars, callVars
  <1> DEFINE push == TransportPush(s, Head(wire[s]))
             f == Decode(push.fragment)
             up == ApplicationPush(s, f, push.fragment)
  <1>1. wire[s] # <<>> /\ call[s] = "receive" /\ ~waiting[s] /\ segments[s] = <<>>
    BY DEF Receive, ConfirmFails, TypeInv, TypeOK
  <1>2. /\ push.state \in TransportState
        /\ Len(push.state.fragment) <= MaximumApplication[s]
        /\ ~push.state.active => push.state.fragment = <<>>
        /\ push.result \in {"error", "more", "complete"}
    BY <1>1, Arrives, TransportPushed
  <1>3. push.result = "complete" =>
           /\ f \in Header
           /\ up.state \in ApplicationState
           /\ Len(up.state.objects) <= MaximumApplication[s]
           /\ ~up.state.active => up.state.objects = <<>>
           /\ up.objects \in Seq(Segment)
    BY <1>1, Arrives, ApplicationPushed
  <1>4. Tail(wire[s]) \in Seq(Segment)
    BY <1>1, Arrives
  <1>5. transportInput' = [transportInput EXCEPT ![s] = push.state]
        /\ UNCHANGED <<segments, confirmed, waiting, open>>
    BY DEF Receive, ConfirmFails
  <1> HIDE DEF push, f, up
  <1>6. transportInput' \in [Station -> TransportState]
    BY <1>2, <1>5 DEF TypeInv, TypeOK, TransportState
  <1>7. ASSUME NoConfirm(s)
        PROVE  /\ wire' \in [Station -> Seq(Segment)] /\ UNCHANGED <<nextTransport, sent, spoiled>>
    BY <1>4, <1>7 DEF NoConfirm, TypeInv, TypeOK
  <1>8. ASSUME push.result = "complete", Confirm(s, f)
        PROVE  /\ wire' \in [Station -> Seq(Segment)]
               /\ nextTransport' \in [Station -> 0..(Modulus - 1)]
               /\ sent' \in [Station -> SentState]
               /\ spoiled' \in [Station -> BOOLEAN]
    <2>1. Confirmation(s, f) \in Segment
      BY <1>3, <1>8, Confirms
    <2>2. Append(wire[Peer(s)], Confirmation(s, f)) \in Seq(Segment)
      BY <2>1, Stations, Appended DEF TypeInv, TypeOK
    <2>3. (nextTransport[s] + 1) % Modulus \in 0..(Modulus - 1)
      <3>1. nextTransport[s] + 1 \in Nat
        BY DEF TypeInv, TypeOK
      <3> QED
        BY <3>1, Least, Stations
    <2>4. wire' = [wire EXCEPT ![s] = Tail(@), ![Peer(s)] = Append(@, Confirmation(s, f))]
      BY <1>8 DEF Confirm
    <2>5. wire' \in [Station -> Seq(Segment)]
      BY <1>4, <2>2, <2>4, Stations DEF TypeInv, TypeOK
    <2>6. nextTransport' \in [Station -> 0..(Modulus - 1)]
      BY <1>8, <2>3 DEF Confirm, TypeInv, TypeOK
    <2>7. sent' \in [Station -> SentState]
      <3>1. sent' = [sent EXCEPT ![s] = [sent[s] EXCEPT !.segments = sent[s].segments + 1]]
        BY <1>8 DEF Confirm
      <3> QED
        BY <3>1, SentGrows DEF TypeInv
    <2>8. spoiled' \in [Station -> BOOLEAN]
      BY <1>8, Stations DEF Confirm, TypeInv
    <2> QED
      BY <2>5, <2>6, <2>7, <2>8
  <1>9. ASSUME push.result = "complete", Accept(s, f, push.fragment)
        PROVE  /\ applicationInput' \in [Station -> ApplicationState]
               /\ \A t \in Station :
                    /\ Len(applicationInput'[t].objects) <= MaximumApplication[t]
                    /\ ~applicationInput'[t].active => applicationInput'[t].objects = <<>>
               /\ call' \in [Station -> {"idle", "send", "receive", "other"}]
               /\ call'[s] # "send" /\ \A t \in Station : t # s => call'[t] = call[t]
               /\ handed' \in [Station -> Seq(Seq(Segment))]
               /\ rejected' \in [Station -> BOOLEAN]
    <2>1. /\ applicationInput' = [applicationInput EXCEPT ![s] = up.state]
          /\ call' = [call EXCEPT ![s] = IF up.result = "more" THEN @ ELSE "idle"]
          /\ handed' = [handed EXCEPT ![s] = IF up.result = "complete" THEN Append(@, up.objects) ELSE @]
          /\ rejected' = [rejected EXCEPT ![s] = @ \/ up.result = "error"]
      BY <1>9 DEF Accept, up
    <2>2. handed[s] \in Seq(Seq(Segment)) /\ Append(handed[s], up.objects) \in Seq(Seq(Segment))
      BY <1>3, <1>9, Appended DEF TypeInv, TypeOK
    <2>3. handed' \in [Station -> Seq(Seq(Segment))]
      BY <2>1, <2>2 DEF TypeInv, TypeOK
    <2>4. /\ applicationInput' \in [Station -> ApplicationState]
          /\ \A t \in Station :
                    /\ Len(applicationInput'[t].objects) <= MaximumApplication[t]
                    /\ ~applicationInput'[t].active => applicationInput'[t].objects = <<>>
      BY <1>3, <1>9, <2>1 DEF TypeInv, TypeOK, ApplicationState
    <2> QED
      BY <1>1, <2>1, <2>3, <2>4 DEF TypeInv, TypeOK
  <1>10. \A t \in Station :
           /\ Len(transportInput'[t].fragment) <= MaximumApplication[t]
           /\ ~transportInput'[t].active => transportInput'[t].fragment = <<>>
    BY <1>2, <1>5 DEF TypeInv, TypeOK
  <1>11. CASE ConfirmFails(s)
    <2>1. /\ wire' = [wire EXCEPT ![s] = Tail(@)] /\ call' = [call EXCEPT ![s] = "idle"]
          /\ spoiled' = [spoiled EXCEPT ![s] = TRUE] /\ Fault
          /\ UNCHANGED <<nextTransport, applicationInput, sent, handed, rejected>>
      BY <1>11 DEF ConfirmFails
    <2>2. faults' \in 0..MaxFaults
      BY <2>1, FaultLeft
    <2> QED
      BY <1>1, <1>4, <1>5, <1>6, <1>10, <2>1, <2>2 DEF TypeInv, TypeOK, TransportState
  <1>12. CASE Receive(s)
    <2>1. UNCHANGED faults
      BY <1>12 DEF Receive
    <2>2. CASE push.result = "error"
      <3>1. /\ NoConfirm(s) /\ call' = [call EXCEPT ![s] = "idle"]
            /\ rejected' = [rejected EXCEPT ![s] = TRUE]
            /\ UNCHANGED <<applicationInput, handed>>
        BY <1>12, <2>2 DEF Receive, push
      <3> QED
        BY <1>1, <1>5, <1>6, <1>7, <1>10, <2>1, <3>1 DEF TypeInv, TypeOK, TransportState
    <2>3. CASE push.result = "more"
      <3>1. NoConfirm(s) /\ UNCHANGED <<applicationInput, handed, call, rejected>>
        BY <1>12, <2>3 DEF Receive, push
      <3> QED
        BY <1>1, <1>5, <1>6, <1>7, <1>10, <2>1, <3>1 DEF TypeInv, TypeOK, TransportState
    <2>4. CASE push.result = "complete"
      <3>1. (Confirm(s, f) \/ NoConfirm(s)) /\ Accept(s, f, push.fragment)
        BY <1>12, <2>4 DEF Receive, push, f
      <3>2. /\ wire' \in [Station -> Seq(Segment)]
            /\ nextTransport' \in [Station -> 0..(Modulus - 1)]
            /\ sent' \in [Station -> SentState]
            /\ spoiled' \in [Station -> BOOLEAN]
        BY <1>7, <1>8, <2>4, <3>1 DEF TypeInv, TypeOK
      <3> QED
        BY <1>1, <1>5, <1>6, <1>9, <1>10, <2>1, <2>4, <3>1, <3>2
        DEF TypeInv, TypeOK, TransportState, ApplicationState
    <2> QED
      BY <1>2, <2>2, <2>3, <2>4
  <1> QED
    BY <1>11, <1>12

LEMMA TypeOther ==
    ASSUME TypeInv, NEW s \in Station,
           \/ ReceiveApplication(s) \/ ReceiveExpires(s) \/ ResetOrKeepAlive(s)
           \/ ResetOrKeepAliveReturns(s) \/ Divert(s) \/ Lose(s)
    PROVE  TypeInv'
  <1> USE DEF inputVars, callVars
  <1>1. faults' \in 0..MaxFaults
    <2>1. Fault \/ UNCHANGED faults
      BY DEF ReceiveApplication, ReceiveExpires, ResetOrKeepAlive, ResetOrKeepAliveReturns,
             Divert, Lose
    <2> QED
      BY <2>1, FaultLeft DEF TypeInv, TypeOK
  <1>2. UNCHANGED <<segments, confirmed, waiting, nextTransport, transportInput, applicationInput,
                    open, sent, handed, rejected>>
    BY DEF ReceiveApplication, ReceiveExpires, ResetOrKeepAlive, ResetOrKeepAliveReturns,
           Divert, Lose
  <1>3. CASE Divert(s) \/ Lose(s)
    <2>1. /\ wire[s] # <<>> /\ wire' = [wire EXCEPT ![s] = Tail(@)]
          /\ spoiled' = [spoiled EXCEPT ![s] = TRUE] /\ UNCHANGED call
      BY <1>3 DEF Divert, Lose
    <2>2. Tail(wire[s]) \in Seq(Segment)
      BY <2>1, Arrives
    <2> QED
      BY <1>1, <1>2, <2>1, <2>2 DEF TypeInv, TypeOK
  <1>4. CASE ~(Divert(s) \/ Lose(s))
    <2>1. /\ UNCHANGED <<wire, spoiled>>
          /\ call[s] # "send" /\ \E c \in {"idle", "receive", "other"} : call' = [call EXCEPT ![s] = c]
      BY <1>4 DEF ReceiveApplication, ReceiveExpires, ResetOrKeepAlive, ResetOrKeepAliveReturns
    <2>2. PICK c \in {"idle", "receive", "other"} : call' = [call EXCEPT ![s] = c]
      BY <2>1
    <2>3. /\ call' \in [Station -> {"idle", "send", "receive", "other"}]
          /\ \A t \in Station : call'[t] = "send" <=> call[t] = "send"
      BY <2>1, <2>2 DEF TypeInv, TypeOK
    <2> QED
      BY <1>1, <1>2, <2>1, <2>3 DEF TypeInv, TypeOK
  <1> QED
    BY <1>3, <1>4

LEMMA TypeStep == TypeInv /\ [Next]_vars => TypeInv'
  <1> SUFFICES ASSUME TypeInv, [Next]_vars PROVE TypeInv'
    OBVIOUS
  <1>1. CASE UNCHANGED vars
    BY <1>1 DEF vars, TypeInv, TypeOK
  <1> QED
    BY <1>1, TypeSending, TypeReceiving, TypeOther DEF Next

\* The types, the limit on what either reassembler joins, and that a call that sends has
\* something to send.
THEOREM TypeCorrect == Spec => []TypeOK
  <1>1. TypeInv => TypeOK
    BY DEF TypeInv
  <1> QED
    BY <1>1, TypeInit, TypeStep, PTL DEF Spec

-----------------------------------------------------------------------------
(* What a station has written.                                             *)

\* A segment by itself: a confirmation is a fragment, and a message, of its own.
Sound(x) ==
    /\ x.piece.part \in 1..x.piece.size
    /\ x.FIR <=> x.piece.part = 1
    /\ x.FIN <=> x.piece.part = x.piece.size
    /\ x.header.FIR <=> x.piece.k = 1
    /\ x.header.FIN <=> x.piece.last
    /\ Data(x) => x.header.Sequence = x.piece.q % AppModulus
    /\ ~Data(x) => x.FIR /\ x.FIN /\ x.header.FIR /\ x.header.FIN /\ ~x.header.CON

Numbered(x, n) == x.n = n /\ x.Sequence = (n - 1) % Modulus

\* b is the segment of the same fragment after a.
Continues(a, b) ==
    /\ ~a.FIN /\ ~b.FIR
    /\ b.header = a.header
    /\ b.piece = Part(a.piece, a.piece.part + 1)

\* b is of a later fragment than a.
Precedes(a, b) ==
    /\ a.piece.q < b.piece.q
    /\ b.piece.q = a.piece.q + 1 => b.piece.k \in {1, a.piece.k + 1}

\* b may come after the first n segments of h.
MayFollow(h, n, b) ==
    IF b.FIR
    THEN /\ n # 0 => h[n].FIN
         /\ Data(b) => \A m \in 1..n : Data(h[m]) => Precedes(h[m], b)
    ELSE n # 0 /\ Continues(h[n], b)

Chain(h) ==
    \A n \in 1..Len(h) : Numbered(h[n], n) /\ Sound(h[n]) /\ MayFollow(h, n - 1, h[n])

\* q fragments were begun, and fragment k of a message is the last if k is not 0.
Begun(h, q, k) ==
    \A n \in 1..Len(h) :
        Data(h[n]) => /\ h[n].piece.q <= q
                      /\ h[n].piece.q = q => k \in {0, h[n].piece.k}

\* g is the rest of the fragment; its first segment is the last of h already if it
\* waits for its acknowledgement.
Sending(h, g, waits, q, k) ==
    /\ \A i \in 1..Len(g) :
         /\ Numbered(g[i], IF waits THEN Len(h) + i - 1 ELSE Len(h) + i)
         /\ Sound(g[i]) /\ Data(g[i]) /\ g[i].piece.q = q /\ g[i].piece.k = k
         /\ g[i].FIN <=> i = Len(g)
         /\ i > 1 => Continues(g[i - 1], g[i])
    /\ IF waits THEN h # <<>> /\ g[1] = h[Len(h)]
                ELSE MayFollow(h, Len(h), g[1])

LEMMA Fields ==
    \A x \in Segment :
       /\ x.n \in Nat /\ x.FIR \in BOOLEAN /\ x.FIN \in BOOLEAN
       /\ x.Sequence \in 0..(Modulus - 1)
       /\ x.header.FIR \in BOOLEAN /\ x.header.FIN \in BOOLEAN
       /\ x.header.kind \in {"data", "confirm"}
       /\ x.piece.q \in Nat /\ x.piece.k \in Nat /\ x.piece.part \in Nat
       /\ x.piece.size \in Nat /\ x.piece.last \in BOOLEAN
       /\ x.piece \in Piece
  BY DEF Segment, Header, Piece

LEMMA Parts ==
    ASSUME NEW p \in Piece, NEW i \in Nat
    PROVE  LET x == Part(p, i) IN
           /\ x.part = i /\ x.size = p.size /\ x.k = p.k /\ x.q = p.q /\ x.last = p.last
           /\ Part(x, i + 1) = Part(p, i + 1)
  BY DEF Piece, Part

LEMMA Moduli == Modulus \in Nat \ {0} /\ AppModulus \in Nat \ {0}
  BY StrictSessionAssumption

LEMMA NextPart ==
    ASSUME NEW a \in Segment, NEW b \in Segment, Continues(a, b)
    PROVE  /\ b.piece.part = a.piece.part + 1 /\ b.piece.q = a.piece.q
           /\ b.piece.k = a.piece.k /\ b.piece.size = a.piece.size
           /\ b.piece.last = a.piece.last /\ b.header = a.header
  <1>1. a.piece \in Piece /\ a.piece.part + 1 \in Nat
    BY Fields
  <1> QED
    BY <1>1, Parts DEF Continues

LEMMA ChainGrows ==
    ASSUME NEW h \in Seq(Segment), NEW b \in Segment, Chain(h),
           Numbered(b, Len(h) + 1), Sound(b), MayFollow(h, Len(h), b)
    PROVE  Chain(Append(h, b))
  <1>1. PICK v \in Seq(Segment) : v = Append(h, b)
    BY Appended
  <1>2. /\ Len(h) \in Nat /\ Len(v) = Len(h) + 1 /\ v[Len(h) + 1] = b
        /\ \A i \in 1..Len(h) : v[i] = h[i]
    BY <1>1, Appended
  <1>3. \A n \in 0..Len(h) : \A x : MayFollow(h, n, x) => MayFollow(v, n, x)
    BY <1>2 DEF MayFollow
  <1>4. ASSUME NEW n \in 1..Len(h)
        PROVE  Numbered(v[n], n) /\ Sound(v[n]) /\ MayFollow(v, n - 1, v[n])
    BY <1>2, <1>3 DEF Chain
  <1>5. Numbered(v[Len(h) + 1], Len(h) + 1) /\ Sound(v[Len(h) + 1])
        /\ MayFollow(v, Len(h), v[Len(h) + 1])
    BY <1>2, <1>3
  <1>6. ASSUME NEW n \in 1..Len(v)
        PROVE  Numbered(v[n], n) /\ Sound(v[n]) /\ MayFollow(v, n - 1, v[n])
    <2>1. CASE n = Len(h) + 1
      BY <1>2, <1>5, <2>1
    <2>2. CASE n # Len(h) + 1
      BY <1>2, <1>4, <2>2
    <2> QED
      BY <2>1, <2>2
  <1> QED
    BY <1>1, <1>6 DEF Chain

\* A fragment is cut, and may be sent when the one before it was sent whole.
LEMMA SendingStarts ==
    ASSUME NEW h \in Seq(Segment), NEW g \in Seq(Segment), Chain(h),
           h # <<>> => h[Len(h)].FIN,
           NEW header \in Header, NEW piece \in Piece, NEW size \in Nat \ {0}, Len(g) = size,
           NEW number \in Nat, number = Len(h) % Modulus,
           IsCut(g, header, piece, size, number, Len(h)),
           NEW q \in Nat, NEW k \in Nat, piece.k = k + 1, piece.q = q + 1, piece.size = size,
           header.kind = "data", header.FIR = (piece.k = 1), header.FIN = piece.last,
           header.Sequence = (q + 1) % AppModulus,
           Begun(h, q, k)
    PROVE  Sending(h, g, FALSE, q + 1, k + 1) /\ Begun(h, q + 1, k + 1)
  <1>1. Len(h) \in Nat
    BY Nothing
  <1>2. ASSUME NEW i \in 1..size
        PROVE  /\ g[i].Sequence = (number + i - 1) % Modulus /\ g[i].n = Len(h) + i
               /\ (g[i].FIR <=> i = 1) /\ (g[i].FIN <=> i = size)
               /\ g[i].header = header /\ g[i].piece = Part(piece, i)
    BY DEF IsCut
  <1>4. ASSUME NEW i \in 1..size
        PROVE  /\ g[i].piece.part = i /\ g[i].piece.size = size /\ g[i].piece.k = k + 1
               /\ g[i].piece.q = q + 1 /\ g[i].piece.last = piece.last
    <2>1. PICK c : c = Part(piece, i)
      OBVIOUS
    <2>2. /\ c.part = i /\ c.size = piece.size /\ c.k = piece.k /\ c.q = piece.q
          /\ c.last = piece.last
      <3>1. PICK j \in Nat : j = i
        OBVIOUS
      <3>2. LET x == Part(piece, j) IN
            /\ x.part = j /\ x.size = piece.size /\ x.k = piece.k /\ x.q = piece.q
            /\ x.last = piece.last
        BY Parts
      <3> QED
        BY <2>1, <3>1, <3>2
    <2>3. g[i].piece = c
      BY <1>2, <2>1
    <2> QED
      BY <2>2, <2>3
  <1>5. ASSUME NEW i \in 1..size
        PROVE  Numbered(g[i], Len(h) + i)
    <2>1. PICK length \in Nat, j \in Nat : length = Len(h) /\ j = i - 1
      BY <1>1
    <2>2. ((length % Modulus) + j) % Modulus = (length + j) % Modulus
      BY Moduli, AddCycle, ZenonT(30)
    <2>3. number + i - 1 = (length % Modulus) + j /\ Len(h) + i - 1 = length + j
      BY <2>1
    <2>4. g[i].Sequence = (Len(h) + i - 1) % Modulus
      BY <1>2, <2>2, <2>3
    <2> QED
      BY <1>2, <2>4 DEF Numbered
  <1>6. ASSUME NEW i \in 1..size
        PROVE  Sound(g[i]) /\ Data(g[i])
    <2>0. /\ (g[i].FIR <=> i = 1) /\ (g[i].FIN <=> i = size)
          /\ g[i].piece.part = i /\ g[i].piece.size = size
      BY <1>2, <1>4
    <2>1. /\ g[i].FIR <=> g[i].piece.part = 1
          /\ g[i].FIN <=> g[i].piece.part = g[i].piece.size
          /\ g[i].piece.part \in 1..g[i].piece.size
      BY <2>0
    <2>2. /\ g[i].header.FIR <=> g[i].piece.k = 1
          /\ g[i].header.FIN <=> g[i].piece.last
          /\ g[i].header.kind = "data" /\ g[i].header.Sequence = g[i].piece.q % AppModulus
      BY <1>2, <1>4, ZenonT(30)
    <2> QED
      BY <2>1, <2>2 DEF Sound, Data
  <1>7. ASSUME NEW i \in 1..size, i > 1
        PROVE  Continues(g[i - 1], g[i])
    <2>1. i - 1 \in 1..size /\ i - 1 # size /\ i - 1 + 1 = i /\ i # 1
      BY <1>7
    <2>2. g[i - 1].piece = Part(piece, i - 1) /\ g[i].piece = Part(piece, i)
      BY <1>2, <2>1
    <2>3. g[i].piece = Part(g[i - 1].piece, g[i - 1].piece.part + 1)
      <3>1. Part(Part(piece, i - 1), i - 1 + 1) = Part(piece, i - 1 + 1)
        BY <2>1, Parts
      <3> QED
        BY <1>4, <2>1, <2>2, <3>1
    <2>4. ~g[i - 1].FIN /\ ~g[i].FIR /\ g[i].header = g[i - 1].header
      BY <1>2, <2>1
    <2> QED
      BY <2>3, <2>4 DEF Continues
  <1>8. MayFollow(h, Len(h), g[1])
    <2>1. 1 \in 1..size
      OBVIOUS
    <2>2. g[1].FIR /\ g[1].piece.q = q + 1 /\ g[1].piece.k = k + 1
      BY <1>2, <1>4, <2>1
    <2>3. ASSUME NEW m \in 1..Len(h), Data(h[m])
          PROVE  Precedes(h[m], g[1])
      <3>1. /\ h[m].piece.q <= q /\ (h[m].piece.q = q => k = 0 \/ k = h[m].piece.k)
            /\ h[m].piece.q \in Nat /\ h[m].piece.k \in Nat
        <4>1. h[m] \in Segment
          BY Within
        <4> QED
          BY <2>3, <4>1, Fields DEF Begun
      <3> QED
        BY <2>2, <3>1 DEF Precedes
    <2>4. Len(h) # 0 => h[Len(h)].FIN
      BY Nothing
    <2> QED
      BY <2>2, <2>3, <2>4 DEF MayFollow
  <1>9. Sending(h, g, FALSE, q + 1, k + 1)
    BY <1>2, <1>4, <1>5, <1>6, <1>7, <1>8 DEF Sending
  <1>10. Begun(h, q + 1, k + 1)
    <2>1. ASSUME NEW n \in 1..Len(h), Data(h[n])
          PROVE  h[n].piece.q <= q + 1 /\ h[n].piece.q # q + 1
      <3>1. h[n] \in Segment
        BY Within
      <3>2. h[n].piece.q <= q /\ h[n].piece.q \in Nat
        BY <2>1, <3>1, Fields DEF Begun
      <3> QED
        BY <3>2
    <2> QED
      BY <2>1 DEF Begun
  <1> QED
    BY <1>9, <1>10

\* The first segment is written.
LEMMA SendingWrites ==
    ASSUME NEW h \in Seq(Segment), NEW g \in Seq(Segment), g # <<>>, Chain(h),
           NEW q \in Nat, NEW k \in Nat, Begun(h, q, k), Sending(h, g, FALSE, q, k)
    PROVE  /\ Chain(Append(h, g[1])) /\ Begun(Append(h, g[1]), q, k)
           /\ Sending(Append(h, g[1]), g, TRUE, q, k)
  <1>1. PICK v \in Seq(Segment) : v = Append(h, g[1]) /\ g[1] \in Segment
    BY Removed, Appended
  <1>2. /\ Len(h) \in Nat /\ Len(v) = Len(h) + 1 /\ v[Len(h) + 1] = g[1]
        /\ \A i \in 1..Len(h) : v[i] = h[i]
    BY <1>1, Appended
  <1>3. 1 \in 1..Len(g)
    BY Removed
  <1>4. /\ Numbered(g[1], Len(h) + 1) /\ Sound(g[1]) /\ g[1].piece.q = q /\ g[1].piece.k = k
        /\ MayFollow(h, Len(h), g[1])
    BY <1>3 DEF Sending
  <1>5. Chain(v)
    BY <1>1, <1>4, ChainGrows
  <1>6. Begun(v, q, k)
    BY <1>2, <1>4 DEF Begun
  <1>7. v # <<>> /\ g[1] = v[Len(v)]
    BY <1>2
  <1>8. \A i \in 1..Len(g) : Len(h) + i = Len(v) + i - 1
    BY <1>2
  <1>9. Sending(v, g, TRUE, q, k)
    BY <1>7, <1>8 DEF Sending
  <1> QED
    BY <1>1, <1>5, <1>6, <1>9

\* It has been sent; either there are more, or the fragment is whole.
LEMMA SendingGoesOn ==
    ASSUME NEW h \in Seq(Segment), NEW g \in Seq(Segment), g # <<>>, Chain(h),
           NEW q \in Nat, NEW k \in Nat, Sending(h, g, TRUE, q, k)
    PROVE  /\ Tail(g) # <<>> => Sending(h, Tail(g), FALSE, q, k)
           /\ Tail(g) = <<>> => /\ h[Len(h)].FIN
                                /\ (g[1].Sequence + 1) % Modulus = Len(h) % Modulus
           /\ h # <<>> /\ g[1] = h[Len(h)]
  <1>1. PICK t \in Seq(Segment) : t = Tail(g)
    BY Removed
  <1>2. PICK n \in Nat \ {0} : n = Len(g) /\ Len(t) = n - 1 /\ \A i \in 1..Len(t) : t[i] = g[i + 1]
    BY <1>1, Removed
  <1>3. Len(h) \in Nat \ {0} /\ g[1] = h[Len(h)] /\ h # <<>>
    BY Nothing DEF Sending
  <1>4. \A i \in 1..n :
           /\ Numbered(g[i], Len(h) + i - 1)
           /\ Sound(g[i]) /\ Data(g[i]) /\ g[i].piece.q = q /\ g[i].piece.k = k
           /\ g[i].FIN <=> i = n
           /\ i > 1 => Continues(g[i - 1], g[i])
    BY <1>2 DEF Sending
  <1>5. ASSUME t # <<>>
        PROVE  Sending(h, t, FALSE, q, k)
    <2>1. Len(t) \in Nat \ {0} /\ 2 \in 1..n /\ 1 \in 1..Len(t)
      BY <1>2, <1>5, Nothing
    <2>2. ASSUME NEW i \in 1..Len(t)
          PROVE  /\ Numbered(t[i], Len(h) + i)
                 /\ Sound(t[i]) /\ Data(t[i]) /\ t[i].piece.q = q /\ t[i].piece.k = k
                 /\ t[i].FIN <=> i = Len(t)
                 /\ i > 1 => Continues(t[i - 1], t[i])
      <3>1. i + 1 \in 1..n /\ t[i] = g[i + 1] /\ Len(h) + (i + 1) - 1 = Len(h) + i
            /\ (i + 1 = n <=> i = Len(t))
        BY <1>2, <1>3, <2>1
      <3>2. i > 1 => t[i - 1] = g[i] /\ i + 1 - 1 = i
        BY <1>2, <2>1
      <3>3. PICK j \in 1..n : j = i + 1
        BY <3>1
      <3>4. j > 1 /\ g[j - 1] = g[i] /\ g[j] = g[i + 1]
        BY <2>1, <3>3
      <3>5. Continues(g[i], g[i + 1])
        BY <1>4, <3>4
      <3> QED
        BY <1>4, <3>1, <3>2, <3>5
    <2>3. MayFollow(h, Len(h), t[1])
      <3>1. t[1] = g[2] /\ Continues(g[1], g[2])
        BY <1>2, <1>4, <2>1
      <3> QED
        BY <1>3, <3>1 DEF MayFollow, Continues
    <2> QED
      BY <2>2, <2>3 DEF Sending
  <1>6. ASSUME t = <<>>
        PROVE  h[Len(h)].FIN /\ (g[1].Sequence + 1) % Modulus = Len(h) % Modulus
    <2>1. n = 1
      <3>1. PICK m \in Nat : m = Len(t) /\ (t = <<>> <=> m = 0)
        BY Nothing
      <3>2. m = 0 /\ m = n - 1
        BY <1>2, <1>6, <3>1
      <3> QED
        BY <3>2
    <2>2. g[1].FIN /\ Numbered(g[1], Len(h) + 1 - 1)
      BY <1>4, <2>1
    <2>3. g[1].Sequence = (Len(h) - 1) % Modulus /\ Len(h) - 1 \in Nat
      BY <1>3, <2>2 DEF Numbered
    <2>4. (((Len(h) - 1) % Modulus) + 1) % Modulus = (Len(h) - 1 + 1) % Modulus
      <3>1. PICK m \in Nat : m = Len(h) - 1
        BY <2>3
      <3>2. ((m % Modulus) + 1) % Modulus = (m + 1) % Modulus
        BY Moduli, AddCycle
      <3> QED
        BY <3>1, <3>2
    <2>5. Len(h) - 1 + 1 = Len(h)
      BY <1>3
    <2> QED
      BY <1>3, <2>2, <2>3, <2>4, <2>5
  <1> QED
    BY <1>1, <1>3, <1>5, <1>6

\* A confirmation is written between two fragments.
LEMMA ConfirmationWrites ==
    ASSUME NEW h \in Seq(Segment), NEW x \in Segment, Chain(h),
           h # <<>> => h[Len(h)].FIN,
           NEW q \in Nat, NEW k \in Nat, Begun(h, q, k),
           x.n = Len(h) + 1, x.Sequence = Len(h) % Modulus,
           x.FIR, x.FIN, x.piece.part = 1, x.piece.size = 1, x.piece.k = 1, x.piece.last,
           x.header.FIR, x.header.FIN, ~x.header.CON, x.header.kind = "confirm"
    PROVE  /\ Chain(Append(h, x)) /\ Begun(Append(h, x), q, k)
           /\ Append(h, x)[Len(Append(h, x))].FIN
           /\ (x.Sequence + 1) % Modulus = Len(Append(h, x)) % Modulus
  <1>1. PICK v \in Seq(Segment) : v = Append(h, x)
    BY Appended
  <1>2. /\ Len(h) \in Nat /\ Len(v) = Len(h) + 1 /\ v[Len(h) + 1] = x
        /\ \A i \in 1..Len(h) : v[i] = h[i]
    BY <1>1, Appended
  <1>3. Sound(x) /\ ~Data(x)
    BY DEF Sound, Data
  <1>4. Len(h) + 1 - 1 = Len(h)
    BY <1>2
  <1>5. Numbered(x, Len(h) + 1)
    BY <1>4 DEF Numbered
  <1>6. MayFollow(h, Len(h), x)
    BY <1>2, <1>3, Nothing DEF MayFollow
  <1>7. Chain(v)
    BY <1>1, <1>3, <1>5, <1>6, ChainGrows
  <1>8. Begun(v, q, k)
    BY <1>2, <1>3 DEF Begun
  <1>9. (x.Sequence + 1) % Modulus = Len(v) % Modulus
    <2>1. PICK m \in Nat : m = Len(h)
      BY <1>2
    <2>2. ((m % Modulus) + 1) % Modulus = (m + 1) % Modulus
      BY Moduli, AddCycle, ZenonT(30)
    <2> QED
      BY <1>2, <2>1, <2>2
  <1> QED
    BY <1>1, <1>2, <1>7, <1>8, <1>9

-----------------------------------------------------------------------------
(* What a station has read.                                                *)

In(x, h) == x.n \in 1..Len(h) /\ x = h[x.n]
Drawn(g, h) == \A i \in 1..Len(g) : In(g[i], h)
Before(a, b) == \A i \in 1..Len(a), j \in 1..Len(b) : a[i].n < b[j].n
Increasing(w) == \A i, j \in 1..Len(w) : i < j => w[i].n < w[j].n

\* Every two neighbours were cut off one after the other.
Linked(m) == \A i \in 1..(Len(m) - 1) : Follows(m[i], m[i + 1])

\* A cycle of numbers went by between the two.
Apart(a, b) == b.n > a.n + Modulus \/ b.piece.q > a.piece.q + AppModulus

\* What the transport joins: one fragment, or part of it.
Run(g) ==
    /\ g # <<>> /\ g[1].FIR
    /\ \A i \in 1..Len(g) : (i > 1 => ~g[i].FIR) /\ (i < Len(g) => ~g[i].FIN)
    /\ \/ Wrapped(g)
       \/ /\ Linked(g)
          /\ \A i \in 1..Len(g) : g[i].header = g[1].header /\ g[i].piece.q = g[1].piece.q

\* What the application joins: a message up to the end of one of its fragments.
Joined(m) ==
    /\ m # <<>> /\ m[1].piece.k = 1 /\ m[1].piece.part = 1 /\ m[Len(m)].FIN
    /\ Wrapped(m) \/ Linked(m)

FragmentInv(t) ==
    IF t.active
    THEN /\ Run(t.fragment) /\ ~t.fragment[Len(t.fragment)].FIN
         /\ t.nextSequence = t.fragment[Len(t.fragment)].n % Modulus
    ELSE t.fragment = <<>>

ObjectsInv(a) ==
    IF a.active
    THEN /\ Joined(a.objects) /\ a.kind = "data"
         /\ \A i \in 1..Len(a.objects) : Data(a.objects[i])
         /\ \/ Wrapped(a.objects)
            \/ a.nextSequence = (a.objects[Len(a.objects)].piece.q + 1) % AppModulus
    ELSE a.objects = <<>>

\* A station that has w still to read, and t, a and d of what it has read.
Receiver(h, w, t, a, d) ==
    /\ Drawn(w, h) /\ Drawn(t.fragment, h) /\ Drawn(a.objects, h)
    /\ Increasing(w)
    /\ Before(t.fragment, w) /\ Before(a.objects, w) /\ Before(a.objects, t.fragment)
    /\ FragmentInv(t) /\ ObjectsInv(a)
    /\ \A i \in 1..Len(d) : Whole(d[i]) \/ Wrapped(d[i])

LEMMA Joins ==
    ASSUME NEW a \in Seq(Segment), NEW b \in Seq(Segment), a # <<>>, b # <<>>
    PROVE  /\ Wrapped(a) \/ Wrapped(b) \/ Apart(a[Len(a)], b[1]) => Wrapped(a \o b)
           /\ Linked(a) /\ Linked(b) /\ Follows(a[Len(a)], b[1]) => Linked(a \o b)
  <1>1. PICK c \in Seq(Segment) : c = a \o b
    BY Joining
  <1>2. PICK n \in Nat, m \in Nat :
           /\ n = Len(a) /\ m = Len(b) /\ Len(c) = n + m
           /\ \A i \in 1..n : c[i] = a[i]
           /\ \A i \in 1..m : c[n + i] = b[i]
    <2>1. /\ Len(a) \in Nat /\ Len(b) \in Nat /\ Len(c) = Len(a) + Len(b)
          /\ \A i \in 1..Len(a) : c[i] = a[i]
          /\ \A i \in 1..Len(b) : c[Len(a) + i] = b[i]
      BY <1>1, Joining
    <2> QED
      BY <2>1
  <1>3. n > 0 /\ m > 0
    BY <1>2, Nothing
  <1>4. c[n] = a[n] /\ c[n + 1] = b[1]
    BY <1>2, <1>3
  <1>5. \A i \in 1..(n - 1) : c[i] = a[i] /\ c[i + 1] = a[i + 1] /\ i \in 1..(Len(c) - 1)
    BY <1>2, <1>3
  <1>6. \A i \in 1..(m - 1) : /\ c[n + i] = b[i] /\ c[n + i + 1] = b[i + 1]
                              /\ n + i \in 1..(Len(c) - 1)
    <2> TAKE i \in 1..(m - 1)
    <2>1. PICK j \in 1..m : j = i + 1
      OBVIOUS
    <2>2. c[n + j] = b[j] /\ n + j = n + i + 1
      BY <1>2, <2>1
    <2> QED
      BY <1>2, <1>3, <2>1, <2>2
  <1>7. ASSUME Wrapped(a)
        PROVE  Wrapped(c)
    BY <1>2, <1>5, <1>7 DEF Wrapped
  <1>8. ASSUME Wrapped(b)
        PROVE  Wrapped(c)
    <2>1. PICK i \in 1..(m - 1) : Apart(b[i], b[i + 1])
      BY <1>2, <1>8 DEF Wrapped, Apart
    <2>2. Apart(c[n + i], c[n + i + 1]) /\ n + i \in 1..(Len(c) - 1)
      BY <1>6, <2>1
    <2> QED
      BY <2>2 DEF Wrapped, Apart
  <1>9. ASSUME Apart(a[n], b[1])
        PROVE  Wrapped(c)
    <2>1. Apart(c[n], c[n + 1]) /\ n \in 1..(Len(c) - 1)
      BY <1>2, <1>3, <1>4, <1>9
    <2> QED
      BY <2>1 DEF Wrapped, Apart
  <1>10. ASSUME Linked(a), Linked(b), Follows(a[n], b[1])
         PROVE  Linked(c)
    <2>1. ASSUME NEW i \in 1..(Len(c) - 1)
          PROVE  Follows(c[i], c[i + 1])
      <3>1. CASE i < n
        <4>1. i \in 1..(n - 1)
          BY <1>2, <3>1
        <4> QED
          BY <1>2, <1>5, <1>10, <4>1 DEF Linked
      <3>2. CASE i = n
        BY <1>4, <1>10, <3>2
      <3>3. CASE i > n
        <4>1. PICK j \in 1..(m - 1) : i = n + j
          <5>1. i - n \in 1..(m - 1) /\ i = n + (i - n)
            BY <1>2, <3>3
          <5> QED
            BY <5>1
        <4>2. Follows(b[j], b[j + 1])
          BY <1>2, <1>10 DEF Linked
        <4> QED
          BY <1>6, <4>1, <4>2
      <3> QED
        BY <1>2, <3>1, <3>2, <3>3
    <2> QED
      BY <2>1 DEF Linked
  <1> QED
    BY <1>1, <1>2, <1>7, <1>8, <1>9, <1>10

LEMMA One ==
    ASSUME NEW x \in Segment
    PROVE  /\ <<x>> \in Seq(Segment) /\ <<x>> # <<>> /\ Len(<<x>>) = 1 /\ <<x>>[1] = x
           /\ Append(<<>>, x) = <<x>>
           /\ Linked(<<x>>)
           /\ \A g \in Seq(Segment) : Append(g, x) = g \o <<x>>
  <1>1. /\ <<x>> \in Seq(Segment) /\ <<x>> # <<>> /\ Len(<<x>>) = 1 /\ <<x>>[1] = x
        /\ Append(<<>>, x) = <<x>>
    OBVIOUS
  <1>2. Linked(<<x>>)
    BY DEF Linked
  <1>3. \A g \in Seq(Segment) : Append(g, x) = g \o <<x>>
    OBVIOUS
  <1> QED
    BY <1>1, <1>2, <1>3

\* Of two segments of h the later one has the larger number, and they are
\* neighbours or a cycle apart when their numbers are.
LEMMA Neighbours ==
    ASSUME NEW h \in Seq(Segment), Chain(h), NEW a \in Segment, NEW b \in Segment,
           In(a, h), In(b, h), a.n < b.n, ~b.FIR, b.Sequence = a.n % Modulus
    PROVE  Apart(a, b) \/ Continues(a, b)
  <1>1. PICK i \in Nat, j \in Nat : i = a.n /\ j = b.n /\ i < j /\ j - 1 \in Nat
    BY Fields
  <1>2. b = h[j] /\ a = h[i] /\ i \in 1..Len(h) /\ j \in 1..Len(h)
    BY <1>1 DEF In
  <1>3. Numbered(b, j) /\ MayFollow(h, j - 1, b)
    BY <1>2 DEF Chain
  <1>4. i % Modulus = (j - 1) % Modulus
    BY <1>1, <1>3 DEF Numbered
  <1>5. CASE i = j - 1
    BY <1>2, <1>3, <1>5 DEF MayFollow
  <1>6. CASE i < j - 1
    <2>1. PICK m \in Nat : m = j - 1
      BY <1>1
    <2>2. m >= i + Modulus
      BY <1>4, <1>6, <2>1, Moduli, Cycle
    <2>3. j > i + Modulus
      BY <2>1, <2>2, Moduli
    <2> QED
      BY <1>1, <2>3 DEF Apart
  <1> QED
    BY <1>1, <1>5, <1>6

LEMMA Later ==
    ASSUME NEW h \in Seq(Segment), Chain(h), NEW a \in Segment, NEW b \in Segment,
           In(a, h), In(b, h), a.n < b.n, b.FIR, Data(a), Data(b),
           b.header.Sequence = (a.piece.q + 1) % AppModulus, ~b.header.FIR, a.FIN
    PROVE  Apart(a, b) \/ Follows(a, b)
  <1>1. PICK i \in Nat, j \in Nat : i = a.n /\ j = b.n /\ i < j /\ i \in 1..(j - 1)
    BY Fields DEF In
  <1>2. b = h[j] /\ a = h[i] /\ i \in 1..Len(h) /\ j \in 1..Len(h)
    BY <1>1 DEF In
  <1>3. Sound(a) /\ Sound(b) /\ MayFollow(h, j - 1, b)
    BY <1>2 DEF Chain
  <1>4. Precedes(a, b)
    BY <1>1, <1>2, <1>3 DEF MayFollow
  <1>5. PICK x \in Nat, y \in Nat : x = a.piece.q + 1 /\ y = b.piece.q
    BY Fields
  <1>6. y % AppModulus = x % AppModulus /\ x <= y
    BY <1>3, <1>4, <1>5, Fields DEF Sound, Precedes
  <1>7. CASE x = y
    <2>1. b.piece.k = a.piece.k + 1 /\ b.piece.part = 1 /\ a.piece.part = a.piece.size
      BY <1>3, <1>4, <1>5, <1>7 DEF Sound, Precedes
    <2> QED
      BY <1>5, <1>7, <2>1 DEF Follows
  <1>8. CASE x < y
    <2>1. y >= x + AppModulus
      BY <1>6, <1>8, Moduli, Cycle
    <2>2. PICK l \in Nat, M \in Nat \ {0} : l = a.piece.q /\ M = AppModulus
      BY Moduli, Fields
    <2>3. y >= (l + 1) + M
      BY <1>5, <2>1, <2>2
    <2>4. y > l + M
      BY <2>3
    <2> QED
      BY <1>5, <2>2, <2>4 DEF Apart
  <1> QED
    BY <1>6, <1>7, <1>8

LEMMA DrawnGrows ==
    ASSUME NEW h, NEW a \in Seq(Segment), NEW b \in Seq(Segment), Drawn(a, h), Drawn(b, h)
    PROVE  Drawn(a \o b, h)
  <1>1. PICK c \in Seq(Segment) : c = a \o b
    BY Joining
  <1>2. /\ Len(a) \in Nat /\ Len(b) \in Nat /\ Len(c) = Len(a) + Len(b)
        /\ \A i \in 1..Len(a) : c[i] = a[i]
        /\ \A i \in 1..Len(b) : c[Len(a) + i] = b[i]
    BY <1>1, Joining
  <1>3. ASSUME NEW i \in 1..Len(c)
        PROVE  In(c[i], h)
    <2>1. CASE i <= Len(a)
      BY <1>2, <2>1 DEF Drawn
    <2>2. CASE i > Len(a)
      <3>1. i - Len(a) \in 1..Len(b) /\ i = Len(a) + (i - Len(a))
        BY <1>2, <2>2
      <3>2. c[i] = b[i - Len(a)]
        BY <1>2, <3>1
      <3> QED
        BY <3>1, <3>2 DEF Drawn
    <2> QED
      BY <1>2, <2>1, <2>2
  <1> QED
    BY <1>1, <1>3 DEF Drawn

LEMMA BeforeGrows ==
    ASSUME NEW a \in Seq(Segment), NEW b \in Seq(Segment), NEW w \in Seq(Segment)
    PROVE  /\ Before(a, w) /\ Before(b, w) => Before(a \o b, w)
           /\ Before(w, a) /\ Before(w, b) => Before(w, a \o b)
           /\ w # <<>> /\ Before(a, w) => Before(a, Tail(w)) /\ \A i \in 1..Len(a) : a[i].n < w[1].n
  <1>1. PICK c \in Seq(Segment) : c = a \o b
    BY Joining
  <1>2. /\ Len(a) \in Nat /\ Len(b) \in Nat /\ Len(c) = Len(a) + Len(b)
        /\ \A i \in 1..Len(a) : c[i] = a[i]
        /\ \A i \in 1..Len(b) : c[Len(a) + i] = b[i]
    BY <1>1, Joining
  <1>3. ASSUME NEW i \in 1..Len(c)
        PROVE  (\E j \in 1..Len(a) : c[i] = a[j]) \/ (\E j \in 1..Len(b) : c[i] = b[j])
    <2>1. CASE i <= Len(a)
      BY <1>2, <2>1
    <2>2. CASE i > Len(a)
      <3>1. i - Len(a) \in 1..Len(b) /\ i = Len(a) + (i - Len(a))
        BY <1>2, <2>2
      <3> QED
        BY <1>2, <3>1
    <2>3. i <= Len(a) \/ i > Len(a)
      BY <1>2
    <2> QED
      BY <2>1, <2>2, <2>3
  <1>4. Before(a, w) /\ Before(b, w) => Before(c, w)
    BY <1>3 DEF Before
  <1>5. Before(w, a) /\ Before(w, b) => Before(w, c)
    BY <1>3 DEF Before
  <1>6. ASSUME w # <<>>, Before(a, w)
        PROVE  Before(a, Tail(w)) /\ \A i \in 1..Len(a) : a[i].n < w[1].n
    <2>1. PICK t \in Seq(Segment), m \in Nat \ {0} :
              t = Tail(w) /\ m = Len(w) /\ Len(t) = m - 1 /\ \A j \in 1..Len(t) : t[j] = w[j + 1]
      BY <1>6, Removed
    <2>2. 1 \in 1..m /\ \A j \in 1..Len(t) : j + 1 \in 1..m
      BY <2>1
    <2> QED
      BY <1>6, <2>1, <2>2 DEF Before
  <1> QED
    BY <1>1, <1>4, <1>5, <1>6

\* The rest of what travels, when the first of it is read.
LEMMA RestOf ==
    ASSUME NEW h, NEW w \in Seq(Segment), w # <<>>, Drawn(w, h), Increasing(w)
    PROVE  /\ Tail(w) \in Seq(Segment) /\ w[1] \in Segment /\ In(w[1], h)
           /\ Drawn(Tail(w), h) /\ Increasing(Tail(w)) /\ Before(<<w[1]>>, Tail(w))
  <1>1. PICK t \in Seq(Segment) : t = Tail(w)
    BY Removed
  <1>2. PICK m \in Nat \ {0} :
            /\ m = Len(w) /\ Len(t) = m - 1 /\ \A j \in 1..Len(t) : t[j] = w[j + 1]
            /\ w[1] \in Segment
    BY <1>1, Removed
  <1>3. 1 \in 1..m /\ \A j \in 1..Len(t) : j + 1 \in 1..m /\ 1 < j + 1
    BY <1>2
  <1>4. In(w[1], h) /\ Drawn(t, h)
    BY <1>2, <1>3 DEF Drawn
  <1>5. Increasing(t)
    <2>1. ASSUME NEW i \in 1..Len(t), NEW j \in 1..Len(t), i < j
          PROVE  t[i].n < t[j].n
      <3>1. i + 1 \in 1..m /\ j + 1 \in 1..m /\ i + 1 < j + 1
        BY <1>3, <2>1
      <3> QED
        BY <1>2, <3>1 DEF Increasing
    <2> QED
      BY <2>1 DEF Increasing
  <1>6. ASSUME NEW j \in 1..Len(t)
        PROVE  w[1].n < t[j].n
    BY <1>2, <1>3 DEF Increasing
  <1>7. Len(<<w[1]>>) = 1 /\ <<w[1]>>[1] = w[1]
    BY <1>2, One
  <1>8. Before(<<w[1]>>, t)
    BY <1>6, <1>7 DEF Before
  <1> QED
    BY <1>1, <1>2, <1>4, <1>5, <1>8

LEMMA RunStarts ==
    ASSUME NEW x \in Segment, x.FIR
    PROVE  Run(<<x>>)
  <1>1. PICK g \in Seq(Segment) : g = <<x>> /\ g # <<>> /\ Len(g) = 1 /\ g[1] = x /\ Linked(g)
    BY One
  <1>2. Run(g)
    BY <1>1 DEF Run
  <1> QED
    BY <1>1, <1>2

LEMMA RunGrows ==
    ASSUME NEW h \in Seq(Segment), Chain(h), NEW g \in Seq(Segment), NEW x \in Segment,
           Run(g), Drawn(g, h), In(x, h), ~x.FIR, ~g[Len(g)].FIN, g[Len(g)].n < x.n,
           x.Sequence = g[Len(g)].n % Modulus
    PROVE  Run(Append(g, x))
  <1>1. PICK v \in Seq(Segment) : v = Append(g, x) /\ v = g \o <<x>>
    BY Appended, One
  <1>2. /\ Len(g) \in Nat /\ Len(v) = Len(g) + 1 /\ v[Len(g) + 1] = x
        /\ \A i \in 1..Len(g) : v[i] = g[i] /\ g[i] \in Segment
    BY <1>1, Appended
  <1>3. Len(g) > 0 /\ Len(g) \in 1..Len(g) /\ 1 \in 1..Len(g)
    BY <1>2, Nothing DEF Run
  <1>4. g[Len(g)] \in Segment /\ In(g[Len(g)], h)
    BY <1>2, <1>3 DEF Drawn
  <1>5. Apart(g[Len(g)], x) \/ Continues(g[Len(g)], x)
    BY <1>4, Neighbours
  <1>6. PICK o \in Seq(Segment) : o = <<x>> /\ o # <<>> /\ o[1] = x /\ Linked(o)
    BY One
  <1>7. /\ Wrapped(g) \/ Apart(g[Len(g)], x) => Wrapped(v)
        /\ Linked(g) /\ Follows(g[Len(g)], x) => Linked(v)
    <2>1. g # <<>>
      BY DEF Run
    <2> QED
      BY <1>1, <1>6, <2>1, Joins
  <1>8. ASSUME ~Wrapped(v)
        PROVE  /\ Linked(v)
               /\ \A i \in 1..Len(v) : v[i].header = v[1].header /\ v[i].piece.q = v[1].piece.q
    <2>1. Continues(g[Len(g)], x)
      BY <1>5, <1>7, <1>8
    <2>2. /\ x.piece.part = g[Len(g)].piece.part + 1 /\ x.piece.q = g[Len(g)].piece.q
          /\ x.header = g[Len(g)].header
      BY <1>4, <2>1, NextPart
    <2>3. Follows(g[Len(g)], x)
      BY <2>2 DEF Follows
    <2>4. Linked(g) /\ \A i \in 1..Len(g) : g[i].header = g[1].header /\ g[i].piece.q = g[1].piece.q
      BY <1>7, <1>8 DEF Run
    <2>5. x.header = g[1].header /\ x.piece.q = g[1].piece.q
      BY <1>3, <2>2, <2>4
    <2>6. Linked(v)
      BY <1>7, <2>3, <2>4
    <2>7. v[1] = g[1]
      BY <1>2, <1>3
    <2>8. ASSUME NEW i \in 1..Len(v)
          PROVE  v[i].header = v[1].header /\ v[i].piece.q = v[1].piece.q
      <3>1. CASE i \in 1..Len(g)
        BY <1>2, <2>4, <2>7, <3>1
      <3>2. CASE i = Len(g) + 1
        BY <1>2, <2>5, <2>7, <3>2
      <3> QED
        BY <1>2, <3>1, <3>2
    <2> QED
      BY <2>6, <2>8
  <1>9. ASSUME NEW i \in 1..Len(v)
        PROVE  (i > 1 => ~v[i].FIR) /\ (i < Len(v) => ~v[i].FIN)
    <2>1. CASE i \in 1..Len(g)
      <3>1. v[i] = g[i] /\ (i > 1 => ~g[i].FIR) /\ (i < Len(g) => ~g[i].FIN)
        BY <1>2, <2>1 DEF Run
      <3>2. i < Len(g) \/ i = Len(g)
        BY <1>2, <2>1
      <3> QED
        BY <3>1, <3>2
    <2>2. CASE i = Len(g) + 1
      BY <1>2, <2>2
    <2> QED
      BY <1>2, <2>1, <2>2
  <1>10. v # <<>> /\ v[1].FIR
    BY <1>2, <1>3 DEF Run
  <1> QED
    BY <1>1, <1>8, <1>9, <1>10 DEF Run

\* A fragment whose last segment has been read, and a the message it may continue.
Arrived(h, g, w, a) ==
    /\ Run(g) /\ g[Len(g)].FIN
    /\ Drawn(g, h) /\ Before(g, w) /\ Before(a.objects, g)

\* The transport reads the first of w.
LEMMA FragmentReads ==
    ASSUME TypeInv, NEW s \in Station, NEW h \in Seq(Segment), Chain(h),
           NEW w \in Seq(Segment), w # <<>>, NEW a, a.objects \in Seq(Segment), NEW d,
           Receiver(h, w, transportInput[s], a, d)
    PROVE  LET push == TransportPush(s, w[1])
           IN /\ Receiver(h, Tail(w), push.state, a, d)
              /\ push.result = "complete" =>
                    push.fragment \in Seq(Segment) /\ Arrived(h, push.fragment, Tail(w), a)
  <1> DEFINE push == TransportPush(s, w[1])
             t == transportInput[s]
             old == IF w[1].FIR THEN <<>> ELSE t.fragment
  <1>1. PICK x \in Segment, v \in Seq(Segment) :
            /\ x = w[1] /\ v = Tail(w) /\ In(x, h) /\ Drawn(v, h) /\ Increasing(v)
            /\ Before(<<x>>, v)
    BY RestOf DEF Receiver
  <1>2. t.fragment \in Seq(Segment) /\ t \in TransportState
    BY DEF TypeInv, TypeOK, TransportState
  <1>3. /\ old \in Seq(Segment) /\ push.state \in TransportState
        /\ push.result \in {"error", "more", "complete"}
        /\ push.result # "error" => x.FIR \/ (t.active /\ x.Sequence = t.nextSequence)
        /\ push.result = "complete" => x.FIN
        /\ push.result = "more" => ~x.FIN
        /\ push.result # "more" => push.state = NoTransport
        /\ push.result = "more" =>
              /\ push.state.active /\ push.state.fragment = Append(old, x)
              /\ push.state.nextSequence = (x.Sequence + 1) % Modulus
        /\ push.result = "complete" => push.fragment = Append(old, x)
    BY <1>1, TransportPushed
  <1>4. /\ Before(t.fragment, v) /\ Before(a.objects, v)
        /\ \A i \in 1..Len(t.fragment) : t.fragment[i].n < x.n
        /\ \A i \in 1..Len(a.objects) : a.objects[i].n < x.n
    BY <1>1, <1>2, BeforeGrows DEF Receiver
  <1>5. PICK one \in Seq(Segment) :
            one = <<x>> /\ one # <<>> /\ Len(one) = 1 /\ one[1] = x /\ Append(<<>>, x) = one
    BY One
  <1>6. Drawn(one, h) /\ Before(a.objects, one) /\ Before(one, v)
    BY <1>1, <1>4, <1>5 DEF Drawn, Before
  <1>7. PICK g \in Seq(Segment) : g = Append(old, x) /\ Len(g) = Len(old) + 1 /\ g[Len(g)] = x
    <2>1. PICK o \in Seq(Segment) : o = old
      BY <1>3
    <2>2. /\ Append(o, x) \in Seq(Segment) /\ Len(Append(o, x)) = Len(o) + 1
          /\ Append(o, x)[Len(o) + 1] = x
      BY Appended
    <2> QED
      BY <2>1, <2>2
  <1> HIDE DEF push
  <1>8. ASSUME push.result # "error"
        PROVE  Run(g) /\ Drawn(g, h) /\ Before(g, v) /\ Before(a.objects, g)
    <2>1. CASE x.FIR
      <3>1. g = one
        BY <1>1, <1>5, <1>7, <2>1
      <3> QED
        BY <1>5, <1>6, <2>1, <3>1, RunStarts
    <2>2. CASE ~x.FIR
      <3>1. old = t.fragment /\ t.active /\ x.Sequence = t.nextSequence
        BY <1>1, <1>3, <1>8, <2>2
      <3>2. /\ Run(t.fragment) /\ ~t.fragment[Len(t.fragment)].FIN
            /\ t.nextSequence = t.fragment[Len(t.fragment)].n % Modulus
            /\ Drawn(t.fragment, h) /\ Before(a.objects, t.fragment)
        BY <3>1 DEF Receiver, FragmentInv
      <3>3. t.fragment[Len(t.fragment)].n < x.n
        <4>1. Len(t.fragment) \in 1..Len(t.fragment)
          BY <1>2, <3>2, Nothing DEF Run
        <4> QED
          BY <1>4, <4>1
      <3>4. Run(g)
        BY <1>1, <1>2, <1>7, <2>2, <3>1, <3>2, <3>3, RunGrows
      <3>5. g = t.fragment \o one
        BY <1>2, <1>5, <1>7, <3>1, One
      <3>6. Drawn(g, h)
        BY <1>2, <1>6, <3>2, <3>5, DrawnGrows
      <3>7. Before(g, v) /\ Before(a.objects, g)
        BY <1>2, <1>4, <1>6, <3>2, <3>5, BeforeGrows
      <3> QED
        BY <3>4, <3>6, <3>7
    <2> QED
      BY <2>1, <2>2
  <1>9. push.result # "more" => Receiver(h, v, push.state, a, d)
    <2>1. NoTransport.fragment = <<>> /\ ~NoTransport.active
      BY DEF NoTransport
    <2>2. FragmentInv(NoTransport) /\ Drawn(NoTransport.fragment, h)
          /\ Before(NoTransport.fragment, v) /\ Before(a.objects, NoTransport.fragment)
      BY <2>1 DEF FragmentInv, Drawn, Before
    <2> QED
      BY <1>1, <1>3, <1>4, <2>2 DEF Receiver
  <1>10. push.result = "more" => Receiver(h, v, push.state, a, d)
    <2> SUFFICES ASSUME push.result = "more"
                 PROVE  Receiver(h, v, push.state, a, d)
      OBVIOUS
    <2>1. /\ Run(g) /\ Drawn(g, h) /\ Before(g, v) /\ Before(a.objects, g) /\ ~g[Len(g)].FIN
          /\ push.state.fragment = g /\ push.state.active
      BY <1>3, <1>7, <1>8
    <2>2. push.state.nextSequence = g[Len(g)].n % Modulus
      <3>1. PICK n \in Nat, m \in Nat : n = x.n /\ m = n - 1 /\ n \in 1..Len(h) /\ x = h[n]
        BY <1>1, Fields DEF In
      <3>2. x.Sequence = m % Modulus
        BY <3>1 DEF Chain, Numbered
      <3>3. ((m % Modulus) + 1) % Modulus = (m + 1) % Modulus
        BY Moduli, AddCycle
      <3>4. push.state.nextSequence = (x.Sequence + 1) % Modulus /\ m + 1 = n
        BY <1>3, <3>1
      <3> QED
        BY <1>7, <3>1, <3>2, <3>3, <3>4
    <2>3. FragmentInv(push.state)
      BY <2>1, <2>2 DEF FragmentInv
    <2> QED
      BY <1>1, <1>4, <2>1, <2>3 DEF Receiver
  <1>11. push.result = "complete" => Arrived(h, push.fragment, v, a) /\ push.fragment = g
    BY <1>3, <1>7, <1>8 DEF Arrived
  <1> QED
    BY <1>1, <1>9, <1>10, <1>11 DEF push

\* A fragment by itself: its header, its ends, and its kind.
LEMMA FragmentRead ==
    ASSUME NEW h \in Seq(Segment), Chain(h), NEW g \in Seq(Segment), Run(g), Drawn(g, h),
           g[Len(g)].FIN
    PROVE  /\ g[1] \in Segment /\ g[Len(g)] \in Segment /\ In(g[1], h) /\ In(g[Len(g)], h)
           /\ Sound(g[1]) /\ Sound(g[Len(g)]) /\ g[1].FIR /\ g # <<>> /\ Len(g) \in Nat \ {0}
           /\ Data(g[1]) => \A i \in 1..Len(g) : Data(g[i])
           /\ ~Data(g[1]) => g[1].header.FIR /\ g[1].header.FIN
  <1>1. Len(g) \in Nat \ {0} /\ g # <<>> /\ g[1].FIR /\ 1 \in 1..Len(g) /\ Len(g) \in 1..Len(g)
    BY Nothing DEF Run
  <1>2. \A i \in 1..Len(g) : g[i] \in Segment /\ In(g[i], h)
    BY Within DEF Drawn
  <1>3. ASSUME NEW i \in 1..Len(g)
        PROVE  Sound(g[i])
    BY <1>2 DEF In, Chain
  <1>4. ASSUME Data(g[1]), NEW i \in 1..Len(g)
        PROVE  Data(g[i])
    <2>1. CASE i = 1
      BY <1>4, <2>1
    <2>2. CASE i > 1
      <3>1. ~g[i].FIR
        BY <2>2 DEF Run
      <3> QED
        BY <1>3, <3>1 DEF Sound
    <2> QED
      BY <2>1, <2>2
  <1>5. ~Data(g[1]) => g[1].header.FIR /\ g[1].header.FIN
    BY <1>1, <1>3 DEF Sound
  <1> QED
    BY <1>1, <1>2, <1>3, <1>4, <1>5

\* What the application has joined, and the fragment that continues it.
LEMMA MessageGrows ==
    ASSUME NEW h \in Seq(Segment), Chain(h), NEW o \in Seq(Segment), NEW g \in Seq(Segment),
           Joined(o), Drawn(o, h), \A i \in 1..Len(o) : Data(o[i]),
           Run(g), Drawn(g, h), g[Len(g)].FIN, Before(o, g),
           Data(g[1]), ~g[1].header.FIR,
           Wrapped(o) \/ g[1].header.Sequence = (o[Len(o)].piece.q + 1) % AppModulus
    PROVE  Joined(o \o g)
  <1>1. PICK v \in Seq(Segment) : v = o \o g
    BY Joining
  <1>2. /\ Len(o) \in Nat /\ Len(g) \in Nat /\ Len(v) = Len(o) + Len(g)
        /\ \A i \in 1..Len(o) : v[i] = o[i]
        /\ \A i \in 1..Len(g) : v[Len(o) + i] = g[i]
    BY <1>1, Joining
  <1>3. /\ g[1] \in Segment /\ In(g[1], h) /\ Sound(g[1]) /\ g[1].FIR /\ g # <<>>
        /\ Len(g) \in Nat \ {0}
    BY FragmentRead
  <1>4. Len(o) \in Nat \ {0} /\ o # <<>> /\ 1 \in 1..Len(o) /\ Len(o) \in 1..Len(o)
    BY Nothing DEF Joined
  <1>5. 1 \in 1..Len(g) /\ Len(g) \in 1..Len(g)
    BY <1>3
  <1>6. /\ v # <<>> /\ v[1].piece.k = 1 /\ v[1].piece.part = 1 /\ v[Len(v)].FIN
    BY <1>2, <1>4, <1>5 DEF Joined
  <1>7. PICK a \in Segment : a = o[Len(o)] /\ In(a, h) /\ Data(a) /\ a.FIN /\ a.n < g[1].n
    <2>1. o[Len(o)] \in Segment
      BY <1>4, Within
    <2>2. In(o[Len(o)], h) /\ Data(o[Len(o)]) /\ o[Len(o)].FIN /\ o[Len(o)].n < g[1].n
      BY <1>4, <1>5 DEF Drawn, Before, Joined
    <2> QED
      BY <2>1, <2>2
  <1>8. ASSUME ~Wrapped(v)
        PROVE  Linked(v)
    <2>1. ~Wrapped(o) /\ ~Wrapped(g) /\ ~Apart(a, g[1])
      BY <1>1, <1>3, <1>4, <1>7, <1>8, Joins
    <2>2. Linked(o) /\ Linked(g)
      BY <2>1 DEF Joined, Run
    <2>3. Follows(a, g[1])
      BY <1>3, <1>7, <2>1, Later
    <2> QED
      BY <1>1, <1>3, <1>4, <1>7, <2>2, <2>3, Joins
  <1> QED
    BY <1>1, <1>6, <1>8 DEF Joined

\* A message that ends is one the peer sent.
LEMMA MessageEnds ==
    ASSUME NEW m \in Seq(Segment), Joined(m), m[Len(m)].piece.last,
           m[Len(m)].piece.part = m[Len(m)].piece.size
    PROVE  Whole(m) \/ Wrapped(m)
  BY DEF Joined, Whole, Linked

\* The first fragment of a message.
LEMMA MessageStarts ==
    ASSUME NEW h \in Seq(Segment), Chain(h), NEW g \in Seq(Segment), Run(g), Drawn(g, h),
           g[Len(g)].FIN, g[1].header.FIR
    PROVE  Joined(g)
  <1>1. Sound(g[1]) /\ g[1].FIR /\ g # <<>>
    BY FragmentRead
  <1>2. g[1].piece.k = 1 /\ g[1].piece.part = 1
    BY <1>1 DEF Sound
  <1> QED
    BY <1>1, <1>2 DEF Joined, Run

LEMMA Handing ==
    ASSUME NEW d \in Seq(Seq(Segment)), NEW m \in Seq(Segment), Whole(m) \/ Wrapped(m),
           \A i \in 1..Len(d) : Whole(d[i]) \/ Wrapped(d[i])
    PROVE  \A i \in 1..Len(Append(d, m)) : Whole(Append(d, m)[i]) \/ Wrapped(Append(d, m)[i])
  <1>1. PICK v :
           /\ v = Append(d, m)
           /\ Len(d) \in Nat /\ Len(v) = Len(d) + 1 /\ v[Len(d) + 1] = m
           /\ \A i \in 1..Len(d) : v[i] = d[i]
    <2>1. PICK S : S = Seq(Segment)
      OBVIOUS
    <2>2. d \in Seq(S) /\ m \in S
      BY <2>1
    <2>3. /\ Len(d) \in Nat /\ Len(Append(d, m)) = Len(d) + 1 /\ Append(d, m)[Len(d) + 1] = m
          /\ \A i \in 1..Len(d) : Append(d, m)[i] = d[i]
      BY <2>2, Appended
    <2> QED
      BY <2>3
  <1>2. ASSUME NEW i \in 1..Len(v)
        PROVE  Whole(v[i]) \/ Wrapped(v[i])
    <2>1. CASE i \in 1..Len(d)
      BY <1>1, <2>1
    <2>2. CASE i = Len(d) + 1
      BY <1>1, <2>2
    <2> QED
      BY <1>1, <2>1, <2>2
  <1> QED
    BY <1>1, <1>2

\* The application is given the fragment g.
LEMMA MessageReads ==
    ASSUME TypeInv, NEW s \in Station, NEW h \in Seq(Segment), Chain(h),
           NEW w \in Seq(Segment), NEW g \in Seq(Segment), NEW d \in Seq(Seq(Segment)),
           Receiver(h, w, NoTransport, applicationInput[s], d),
           Arrived(h, g, w, applicationInput[s])
    PROVE  LET push == ApplicationPush(s, g[1].header, g)
           IN Receiver(h, w, NoTransport, push.state,
                       IF push.result = "complete" THEN Append(d, push.objects) ELSE d)
  <1> DEFINE f == g[1].header
             push == ApplicationPush(s, f, g)
             a == applicationInput[s]
             old == IF f.FIR THEN <<>> ELSE a.objects
             e == IF push.result = "complete" THEN Append(d, push.objects) ELSE d
  <1>1. /\ g[1] \in Segment /\ g[Len(g)] \in Segment /\ In(g[1], h) /\ In(g[Len(g)], h)
        /\ Sound(g[1]) /\ Sound(g[Len(g)]) /\ g[1].FIR /\ g # <<>> /\ Len(g) \in Nat \ {0}
        /\ Data(g[1]) => \A i \in 1..Len(g) : Data(g[i])
        /\ ~Data(g[1]) => g[1].header.FIR /\ g[1].header.FIN
        /\ Run(g) /\ Drawn(g, h) /\ g[Len(g)].FIN /\ Before(g, w) /\ Before(a.objects, g)
    BY FragmentRead DEF Arrived
  <1>2. f \in Header
    BY <1>1 DEF Segment
  <1>3. a.objects \in Seq(Segment)
    BY DEF TypeInv, TypeOK
  <1>4. /\ old \in Seq(Segment)
        /\ push.result \in {"error", "more", "complete"}
        /\ push.result # "error" => IF f.FIR THEN ~a.active
                                    ELSE a.active /\ f.Sequence = a.nextSequence /\ f.kind = a.kind
        /\ push.result = "complete" => f.FIN /\ push.objects = old \o g
        /\ push.result # "more" => push.state = NoApplication
        /\ push.result = "more" =>
              /\ ~f.FIN /\ push.state.active /\ push.state.objects = old \o g
              /\ push.state.kind = f.kind
              /\ push.state.nextSequence = (f.Sequence + 1) % AppModulus
    <2>1. PICK header \in Header : header = f
      BY <1>2
    <2>2. PICK p : p = ApplicationPush(s, header, g)
      OBVIOUS
    <2> DEFINE was == IF header.FIR THEN <<>> ELSE a.objects
               fits == /\ IF header.FIR THEN ~a.active
                          ELSE a.active /\ header.Sequence = a.nextSequence /\ header.kind = a.kind
                       /\ Len(was) + Len(g) <= MaximumApplication[s]
    <2>3. /\ was \in Seq(Segment)
          /\ p.result = IF ~fits THEN "error" ELSE IF header.FIN THEN "complete" ELSE "more"
          /\ p.result # "more" => p.state = NoApplication
          /\ p.result = "more" =>
                /\ p.state.active /\ p.state.objects = was \o g
                /\ p.state.kind = header.kind
                /\ p.state.nextSequence = (header.Sequence + 1) % AppModulus
          /\ p.result = "complete" => p.objects = was \o g
      <3>1. g # <<>>
        BY <1>1
      <3>2. LET push1 == ApplicationPush(s, header, g)
                a1 == applicationInput[s]
                old1 == IF header.FIR THEN <<>> ELSE a1.objects
                fits1 == /\ IF header.FIR THEN ~a1.active
                            ELSE a1.active /\ header.Sequence = a1.nextSequence /\ header.kind = a1.kind
                         /\ Len(old1) + Len(g) <= MaximumApplication[s]
           IN /\ old1 \in Seq(Segment)
              /\ push1.result = IF ~fits1 THEN "error" ELSE IF header.FIN THEN "complete" ELSE "more"
              /\ push1.result # "more" => push1.state = NoApplication
              /\ push1.result = "more" =>
                    /\ push1.state.active /\ push1.state.objects = old1 \o g
                    /\ push1.state.kind = header.kind
                    /\ push1.state.nextSequence = (header.Sequence + 1) % AppModulus
              /\ push1.result = "complete" => push1.objects = old1 \o g
        BY <3>1, ApplicationPushed
      <3> QED
        BY <2>2, <3>2
    <2>4. p = push /\ was = old
      BY <2>1, <2>2
    <2>5. p.result # "error" => fits
      BY <2>3
    <2> HIDE DEF fits, was
    <2>6. /\ p.result \in {"error", "more", "complete"}
          /\ p.result = "complete" => header.FIN
          /\ p.result = "more" => ~header.FIN
      BY <2>3
    <2>7. fits => IF header.FIR THEN ~a.active
                  ELSE a.active /\ header.Sequence = a.nextSequence /\ header.kind = a.kind
      BY DEF fits
    <2> QED
      BY <2>1, <2>3, <2>4, <2>5, <2>6, <2>7
  <1> HIDE DEF push
  <1>5. PICK m \in Seq(Segment) : m = old \o g
    BY <1>4, Joining
  <1>6. ASSUME push.result # "error"
        PROVE  /\ Joined(m) /\ Drawn(m, h) /\ Before(m, w) /\ m[Len(m)] = g[Len(g)]
               /\ Data(g[1]) => \A i \in 1..Len(m) : Data(m[i])
    <2>1. CASE f.FIR
      <3>1. m = g
        BY <1>5, <2>1
      <3> QED
        BY <1>1, <2>1, <3>1, MessageStarts
    <2>2. CASE ~f.FIR
      <3>1. a.active /\ f.Sequence = a.nextSequence /\ f.kind = a.kind /\ old = a.objects
        BY <1>4, <1>6, <2>2
      <3>2. PICK o \in Seq(Segment) : o = a.objects
        BY <1>3
      <3>3. /\ Joined(o) /\ a.kind = "data" /\ \A i \in 1..Len(o) : Data(o[i])
            /\ Wrapped(o) \/ a.nextSequence = (o[Len(o)].piece.q + 1) % AppModulus
            /\ Drawn(o, h) /\ Before(o, w) /\ Before(o, g)
        BY <1>1, <3>1, <3>2 DEF Receiver, ObjectsInv
      <3>4. Data(g[1])
        BY <3>1, <3>3 DEF Data
      <3>5. m = o \o g
        BY <1>5, <3>1, <3>2
      <3>6. Joined(m)
        BY <1>1, <2>2, <3>1, <3>3, <3>4, <3>5, MessageGrows
      <3>7. Drawn(m, h) /\ Before(m, w)
        BY <1>1, <3>3, <3>5, DrawnGrows, BeforeGrows
      <3>8. /\ Len(o) \in Nat /\ Len(m) = Len(o) + Len(g)
            /\ \A i \in 1..Len(o) : m[i] = o[i]
            /\ \A i \in 1..Len(g) : m[Len(o) + i] = g[i]
        BY <3>5, Joining
      <3>9. m[Len(m)] = g[Len(g)]
        BY <1>1, <3>8
      <3>10. ASSUME NEW i \in 1..Len(m)
             PROVE  Data(m[i])
        <4>1. CASE i <= Len(o)
          BY <3>3, <3>8, <4>1
        <4>2. CASE i > Len(o)
          <5>1. i - Len(o) \in 1..Len(g) /\ i = Len(o) + (i - Len(o))
            BY <1>1, <3>8, <4>2
          <5>2. m[i] = g[i - Len(o)]
            BY <3>8, <5>1
          <5> QED
            BY <1>1, <3>4, <5>1, <5>2
        <4>3. i <= Len(o) \/ i > Len(o)
          BY <3>8
        <4> QED
          BY <4>1, <4>2, <4>3
      <3> QED
        BY <3>6, <3>7, <3>9, <3>10
    <2> QED
      BY <2>1, <2>2
  <1>7. \A i \in 1..Len(e) : Whole(e[i]) \/ Wrapped(e[i])
    <2>1. \A i \in 1..Len(d) : Whole(d[i]) \/ Wrapped(d[i])
      BY DEF Receiver
    <2>2. CASE push.result # "complete"
      BY <2>1, <2>2
    <2>3. CASE push.result = "complete"
      <3>1. Joined(m) /\ m[Len(m)] = g[Len(g)] /\ f.FIN /\ e = Append(d, m)
        BY <1>4, <1>5, <1>6, <2>3
      <3>2. Wrapped(m) \/ (g[Len(g)].piece.last /\ g[Len(g)].piece.part = g[Len(g)].piece.size)
        <4>1. g[Len(g)].piece.part = g[Len(g)].piece.size
          BY <1>1 DEF Sound
        <4>2. CASE Wrapped(g)
          <5>1. CASE f.FIR
            BY <1>5, <4>2, <5>1
          <5>2. CASE ~f.FIR
            <6>1. a.active
              BY <1>4, <2>3, <5>2
            <6>2. a.objects # <<>> /\ m = a.objects \o g
              BY <1>5, <5>2, <6>1 DEF Receiver, ObjectsInv, Joined
            <6> QED
              BY <1>1, <1>3, <4>2, <6>2, Joins
          <5> QED
            BY <5>1, <5>2
        <4>3. CASE ~Wrapped(g)
          <5>1. g[Len(g)].header = f
            BY <1>1, <4>3 DEF Run
          <5> QED
            BY <1>1, <3>1, <4>1, <5>1 DEF Sound
        <4> QED
          BY <4>2, <4>3
      <3>3. Whole(m) \/ Wrapped(m)
        BY <3>1, <3>2, MessageEnds
      <3> QED
        BY <2>1, <3>1, <3>3, Handing
    <2> QED
      BY <2>2, <2>3
  <1>8. push.result # "more" => Receiver(h, w, NoTransport, push.state, e)
    <2>1. NoApplication.objects = <<>> /\ ~NoApplication.active
      BY DEF NoApplication
    <2>2. NoTransport.fragment = <<>>
      BY DEF NoTransport
    <2>3. ObjectsInv(NoApplication) /\ Drawn(NoApplication.objects, h)
          /\ Before(NoApplication.objects, w) /\ Before(NoApplication.objects, NoTransport.fragment)
      BY <2>1, <2>2 DEF ObjectsInv, Drawn, Before
    <2> QED
      BY <1>4, <1>7, <2>3 DEF Receiver
  <1>9. push.result = "more" => Receiver(h, w, NoTransport, push.state, e)
    <2> SUFFICES ASSUME push.result = "more"
                 PROVE  Receiver(h, w, NoTransport, push.state, e)
      OBVIOUS
    <2>1. /\ Joined(m) /\ Drawn(m, h) /\ Before(m, w) /\ m[Len(m)] = g[Len(g)]
          /\ ~f.FIN /\ push.state.active /\ push.state.objects = m /\ push.state.kind = f.kind
          /\ push.state.nextSequence = (f.Sequence + 1) % AppModulus
      BY <1>4, <1>5, <1>6
    <2>2. Data(g[1]) /\ \A i \in 1..Len(m) : Data(m[i])
      BY <1>1, <1>6, <2>1
    <2>3. Wrapped(m) \/ (f.Sequence + 1) % AppModulus = (g[Len(g)].piece.q + 1) % AppModulus
      <3>1. CASE Wrapped(g)
        <4>1. CASE f.FIR
          BY <1>5, <3>1, <4>1
        <4>2. CASE ~f.FIR
          <5>1. a.active
            BY <1>4, <4>2
          <5>2. a.objects # <<>> /\ m = a.objects \o g
            BY <1>5, <4>2, <5>1 DEF Receiver, ObjectsInv, Joined
          <5> QED
            BY <1>1, <1>3, <3>1, <5>2, Joins
        <4> QED
          BY <4>1, <4>2
      <3>2. CASE ~Wrapped(g)
        <4>1. g[Len(g)].piece.q = g[1].piece.q
          BY <1>1, <3>2 DEF Run
        <4>2. PICK q \in Nat : q = g[1].piece.q
          BY <1>1, Fields
        <4>3. f.Sequence = q % AppModulus
          BY <1>1, <2>2, <4>2 DEF Sound
        <4>4. ((q % AppModulus) + 1) % AppModulus = (q + 1) % AppModulus
          BY Moduli, AddCycle
        <4> QED
          BY <4>1, <4>2, <4>3, <4>4
      <3> QED
        BY <3>1, <3>2
    <2>4. ObjectsInv(push.state)
      BY <2>1, <2>2, <2>3 DEF ObjectsInv, Data
    <2>5. NoTransport.fragment = <<>>
      BY DEF NoTransport
    <2>6. Before(m, NoTransport.fragment)
      BY <2>5 DEF Before
    <2> QED
      BY <1>7, <2>1, <2>4, <2>6 DEF Receiver
  <1> QED
    BY <1>8, <1>9 DEF push

-----------------------------------------------------------------------------
(* What is joined is one message.                                          *)

\* A station that has written h.
Sender(h, c, g, waits, next, k, q, n) ==
    /\ Chain(h) /\ Len(h) = n /\ Begun(h, q, k)
    /\ c # "send" => next = Len(h) % Modulus /\ (h # <<>> => h[Len(h)].FIN)
    /\ c = "send" => Sending(h, g, waits, q, k)

\* The peer of s has written h, and s has read of it what it has.
Stream(s, h) ==
    /\ Sender(h, call[Peer(s)], segments[Peer(s)], waiting[Peer(s)], nextTransport[Peer(s)],
              open[Peer(s)].k, sent[Peer(s)].fragments, sent[Peer(s)].segments)
    /\ Receiver(h, wire[s], transportInput[s], applicationInput[s], handed[s])

StreamInv ==
    \A s \in Station : ~sent[Peer(s)].abandoned => \E h \in Seq(Segment) : Stream(s, h)

\* One more is written.
LEMMA ReceiverWaits ==
    ASSUME NEW h \in Seq(Segment), NEW x \in Segment, x.n = Len(h) + 1,
           NEW w \in Seq(Segment), NEW t, t.fragment \in Seq(Segment),
           NEW a, a.objects \in Seq(Segment), NEW d, Receiver(h, w, t, a, d)
    PROVE  Receiver(Append(h, x), Append(w, x), t, a, d)
  <1>1. PICK j \in Seq(Segment) :
           /\ j = Append(h, x) /\ Len(h) \in Nat /\ Len(j) = Len(h) + 1 /\ j[Len(h) + 1] = x
           /\ \A i \in 1..Len(h) : j[i] = h[i]
    BY Growing
  <1>2. \A y : In(y, h) => In(y, j) /\ y.n < x.n
    BY <1>1 DEF In
  <1>3. \A g : Drawn(g, h) => Drawn(g, j)
    BY <1>2 DEF Drawn
  <1>4. PICK one \in Seq(Segment) : /\ one = <<x>> /\ Len(one) = 1 /\ one[1] = x
                                    /\ Append(w, x) = w \o one
    BY One
  <1>5. Drawn(one, j)
    BY <1>1, <1>4 DEF Drawn, In
  <1>6. \A g : Drawn(g, h) => Before(g, one)
    BY <1>2, <1>4 DEF Before, Drawn
  <1>7. PICK v \in Seq(Segment) :
           /\ v = Append(w, x) /\ Len(w) \in Nat /\ Len(v) = Len(w) + 1 /\ v[Len(w) + 1] = x
           /\ \A i \in 1..Len(w) : v[i] = w[i]
    BY Growing
  <1>8. Drawn(v, j)
    BY <1>3, <1>4, <1>5, <1>7, DrawnGrows DEF Receiver
  <1>9. Increasing(v)
    <2>1. ASSUME NEW i \in 1..Len(v), NEW k \in 1..Len(v), i < k
          PROVE  v[i].n < v[k].n
      <3>1. i \in 1..Len(w) /\ v[i] = w[i]
        BY <1>7, <2>1
      <3>2. CASE k \in 1..Len(w)
        BY <1>7, <2>1, <3>1, <3>2 DEF Receiver, Increasing
      <3>3. CASE k = Len(w) + 1
        BY <1>2, <1>7, <3>1, <3>3 DEF Receiver, Drawn
      <3> QED
        BY <1>7, <3>2, <3>3
    <2> QED
      BY <2>1 DEF Increasing
  <1>10. Before(t.fragment, v) /\ Before(a.objects, v)
    <2>1. Before(t.fragment, one) /\ Before(a.objects, one)
      BY <1>6 DEF Receiver
    <2>2. Before(t.fragment, w \o one) /\ Before(a.objects, w \o one)
      <3>1. Before(t.fragment, w) /\ Before(a.objects, w)
        BY DEF Receiver
      <3>2. \A g \in Seq(Segment) : Before(g, w) /\ Before(g, one) => Before(g, w \o one)
        BY <1>4, BeforeGrows
      <3> QED
        BY <2>1, <3>1, <3>2
    <2> QED
      BY <1>4, <1>7, <2>2
  <1> QED
    BY <1>1, <1>3, <1>7, <1>8, <1>9, <1>10 DEF Receiver

\* The first of what travels is lost.
LEMMA ReceiverMisses ==
    ASSUME NEW h, NEW w \in Seq(Segment), w # <<>>, NEW t, t.fragment \in Seq(Segment),
           NEW a, a.objects \in Seq(Segment), NEW d, Receiver(h, w, t, a, d)
    PROVE  Receiver(h, Tail(w), t, a, d)
  <1>1. Drawn(Tail(w), h) /\ Increasing(Tail(w))
    BY RestOf DEF Receiver
  <1>2. Before(t.fragment, Tail(w)) /\ Before(a.objects, Tail(w))
    BY BeforeGrows DEF Receiver
  <1> QED
    BY <1>1, <1>2 DEF Receiver

\* What the types say of the two ends of a stream.
LEMMA StreamTypes ==
    ASSUME TypeInv, NEW s \in Station
    PROVE  /\ Peer(s) \in Station /\ Peer(s) # s /\ Peer(Peer(s)) = s
           /\ wire[s] \in Seq(Segment) /\ segments[Peer(s)] \in Seq(Segment)
           /\ transportInput[s].fragment \in Seq(Segment)
           /\ applicationInput[s].objects \in Seq(Segment)
           /\ handed[s] \in Seq(Seq(Segment))
           /\ nextTransport[Peer(s)] \in 0..(Modulus - 1)
           /\ open[Peer(s)].k \in Nat /\ open[Peer(s)].msg \in Nat
           /\ sent[Peer(s)].fragments \in Nat /\ sent[Peer(s)].segments \in Nat
           /\ call[Peer(s)] = "send" <=> segments[Peer(s)] # <<>>
           /\ waiting[Peer(s)] \in BOOLEAN
           /\ waiting[Peer(s)] => call[Peer(s)] = "send" /\ confirmed[Peer(s)]
  <1>1. Peer(s) \in Station /\ Peer(s) # s /\ Peer(Peer(s)) = s
    BY Stations
  <1>2. /\ transportInput[s].fragment \in Seq(Segment)
        /\ applicationInput[s].objects \in Seq(Segment)
    BY DEF TypeInv, TypeOK
  <1>3. open[Peer(s)] \in OpenState /\ sent[Peer(s)] \in SentState
    BY <1>1 DEF TypeInv
  <1>4. /\ open[Peer(s)].k \in Nat /\ open[Peer(s)].msg \in Nat
        /\ sent[Peer(s)].fragments \in Nat /\ sent[Peer(s)].segments \in Nat
    BY <1>3, OpenFields, SentFields
  <1> QED
    BY <1>1, <1>2, <1>4 DEF TypeInv, TypeOK

\* The peer begins a fragment.
LEMMA StreamSends ==
    ASSUME TypeInv, NEW s \in Station, NEW h \in Seq(Segment), Stream(s, h),
           SendApplication(Peer(s))
    PROVE  Stream(s, h)'
  <1>1. PICK p \in Station : p = Peer(s) /\ p # s
    BY StreamTypes
  <1>2. /\ Chain(h) /\ Len(h) = sent[p].segments /\ Begun(h, sent[p].fragments, open[p].k)
        /\ call[p] = "idle" /\ nextTransport[p] = Len(h) % Modulus /\ (h # <<>> => h[Len(h)].FIN)
    BY <1>1 DEF Stream, Sender, SendApplication
  <1>3. PICK size \in 1..MaxSize[p], fin \in BOOLEAN, mode \in Modes[p] :
         LET m == IF open[p].k = 0 THEN open[p].msg + 1 ELSE open[p].msg
             k == open[p].k + 1
             q == sent[p].fragments + 1
             length == size + (IF k = 1 THEN 0 ELSE open[p].pieces)
             header == [FIR |-> k = 1, FIN |-> fin, CON |-> mode.con, kind |-> "data",
                        Sequence |-> q % AppModulus]
             piece == [msg |-> m, k |-> k, q |-> q, size |-> size, part |-> 0, last |-> fin]
         IN /\ Encodes(p, size)
            /\ segments' = [segments EXCEPT ![p] = SegmentStrict(header, piece, size,
                                nextTransport[p], sent[p].segments)]
            /\ confirmed' = [confirmed EXCEPT ![p] = mode.acked]
            /\ open' = [open EXCEPT ![p] = [msg |-> m, k |-> k, pieces |-> length]]
            /\ sent' = [sent EXCEPT ![p].fragments = q,
                                      ![p].longest = IF length > @ THEN length ELSE @]
    <2>1. SendApplication(p)
      BY <1>1
    <2> QED
      BY <2>1 DEF SendApplication
  <1> DEFINE m == IF open[p].k = 0 THEN open[p].msg + 1 ELSE open[p].msg
             k == open[p].k + 1
             q == sent[p].fragments + 1
             header == [FIR |-> k = 1, FIN |-> fin, CON |-> mode.con, kind |-> "data",
                        Sequence |-> q % AppModulus]
             piece == [msg |-> m, k |-> k, q |-> q, size |-> size, part |-> 0, last |-> fin]
             g == SegmentStrict(header, piece, size, nextTransport[p], sent[p].segments)
  <1>4. /\ open[p].k \in Nat /\ open[p].msg \in Nat /\ sent[p].fragments \in Nat
        /\ sent[p].segments \in Nat /\ nextTransport[p] \in Nat /\ size \in Nat \ {0}
        /\ mode.con \in BOOLEAN /\ ~waiting[p]
    <2>1. open[p].k \in Nat /\ open[p].msg \in Nat /\ sent[p].fragments \in Nat
          /\ sent[p].segments \in Nat /\ nextTransport[p] \in 0..(Modulus - 1) /\ ~waiting[p]
      BY <1>1, <1>2, StreamTypes
    <2>2. mode.con \in BOOLEAN /\ MaxSize[p] \in Nat
      BY Stations
    <2> QED
      BY <2>1, <2>2, Moduli
  <1>5. header \in Header /\ piece \in Piece
    <2>1. q % AppModulus \in 0..(AppModulus - 1)
      <3>1. q \in Nat
        BY <1>4
      <3> QED
        BY <3>1, Moduli, Least
    <2>2. header \in Header
      BY <1>4, <2>1 DEF Header
    <2>3. piece \in Piece
      BY <1>4 DEF Piece
    <2> QED
      BY <2>2, <2>3
  <1>6. /\ piece.k = open[p].k + 1 /\ piece.q = sent[p].fragments + 1 /\ piece.size = size
        /\ header.kind = "data" /\ header.FIR = (piece.k = 1) /\ header.FIN = piece.last
        /\ header.Sequence = (sent[p].fragments + 1) % AppModulus
    OBVIOUS
  <1>7. segments'[p] = g /\ open'[p].k = k /\ sent'[p].fragments = q
        /\ sent'[p].segments = sent[p].segments
    <2>1. segments'[p] = g
      BY <1>3 DEF TypeInv, TypeOK
    <2>2. open'[p].k = k
      BY <1>3 DEF TypeInv
    <2>3. sent[p] \in SentState /\ sent \in [Station -> SentState]
      BY DEF TypeInv
    <2>4. PICK l : sent' = [sent EXCEPT ![p].fragments = q, ![p].longest = l]
      BY <1>3
    <2>5. sent'[p] = [sent[p] EXCEPT !.fragments = q, !.longest = l]
      BY <2>3, <2>4
    <2>6. sent'[p].fragments = q /\ sent'[p].segments = sent[p].segments
      BY <2>3, <2>5 DEF SentState
    <2> QED
      BY <2>1, <2>2, <2>6
  <1> HIDE DEF header, piece
  <1>8. g \in Seq(Segment) /\ Len(g) = size
        /\ IsCut(g, header, piece, size, nextTransport[p], sent[p].segments)
    BY <1>4, <1>5, Cut
  <1>9. Sending(h, g, FALSE, q, k) /\ Begun(h, q, k)
    <2> HIDE DEF g
    <2>1. PICK number \in Nat, i \in Nat, j \in Nat :
             number = nextTransport[p] /\ i = sent[p].fragments /\ j = open[p].k
      BY <1>4
    <2>2. /\ number = Len(h) % Modulus /\ Begun(h, i, j) /\ Chain(h)
          /\ (h # <<>> => h[Len(h)].FIN)
          /\ IsCut(g, header, piece, size, number, Len(h))
      BY <1>2, <1>8, <2>1
    <2>3. /\ piece.k = j + 1 /\ piece.q = i + 1 /\ piece.size = size
          /\ header.kind = "data" /\ header.FIR = (piece.k = 1) /\ header.FIN = piece.last
          /\ header.Sequence = (i + 1) % AppModulus
      BY <1>6, <2>1
    <2>4. Sending(h, g, FALSE, i + 1, j + 1) /\ Begun(h, i + 1, j + 1)
      BY <1>4, <1>5, <1>8, <2>2, <2>3, SendingStarts
    <2> QED
      BY <2>1, <2>4
  <1>10. call'[p] = "send" /\ waiting'[p] = FALSE /\ UNCHANGED <<wire[s], transportInput[s],
              applicationInput[s], handed[s], nextTransport[p]>>
    BY <1>1, <1>4 DEF SendApplication, inputVars, TypeInv, TypeOK
  <1> HIDE DEF g, k, q
  <1>11. Sender(h, call'[p], segments'[p], waiting'[p], nextTransport'[p], open'[p].k,
                sent'[p].fragments, sent'[p].segments)
    BY <1>2, <1>7, <1>9, <1>10 DEF Sender
  <1>12. Receiver(h, wire'[s], transportInput'[s], applicationInput'[s], handed'[s])
    BY <1>10 DEF Stream
  <1> QED
    BY <1>1, <1>11, <1>12 DEF Stream

\* What it means for the loop of sendApplicationLocked that a segment has been sent.
LEMMA SentOne ==
    ASSUME TypeInv, NEW p \in Station, call[p] = "send", SegmentSent(p)
    PROVE  /\ segments'[p] = Tail(segments[p]) /\ waiting'[p] = FALSE
           /\ IF Tail(segments[p]) # <<>>
              THEN call'[p] = "send" /\ nextTransport'[p] = nextTransport[p] /\ open'[p] = open[p]
              ELSE /\ call'[p] = "idle"
                   /\ nextTransport'[p] = (segments[p][1].Sequence + 1) % Modulus
                   /\ open'[p].k = IF segments[p][1].header.FIN THEN 0 ELSE open[p].k
                   /\ open'[p].pieces = open[p].pieces
  <1>1. PICK g \in Seq(Segment) : g = segments[p] /\ g # <<>>
    BY DEF TypeInv, TypeOK
  <1>2. /\ segments \in [Station -> Seq(Segment)] /\ waiting \in [Station -> BOOLEAN]
        /\ nextTransport \in [Station -> 0..(Modulus - 1)]
        /\ DOMAIN call = Station
    BY DEF TypeInv, TypeOK
  <1>3. open \in [Station -> OpenState]
    BY DEF TypeInv
  <1>4. segments'[p] = Tail(segments[p]) /\ waiting'[p] = FALSE
    BY <1>2 DEF SegmentSent
  <1>5. (Len(g) > 1 <=> Tail(g) # <<>>) /\ Head(g) = g[1]
    BY <1>1, MoreLeft, Removed
  <1>6. CASE Tail(g) # <<>>
    <2>1. UNCHANGED <<call, nextTransport, open>>
      BY <1>1, <1>5, <1>6 DEF SegmentSent
    <2> QED
      BY <1>1, <1>4, <1>6, <2>1
  <1>7. CASE Tail(g) = <<>>
    <2>1. PICK last : last = Head(segments[p])
      OBVIOUS
    <2>2. /\ call' = [call EXCEPT ![p] = "idle"]
          /\ nextTransport' = [nextTransport EXCEPT ![p] = (last.Sequence + 1) % Modulus]
          /\ open' = [open EXCEPT ![p].k = IF last.header.FIN THEN 0 ELSE @]
      BY <1>1, <1>5, <1>7, <2>1 DEF SegmentSent
    <2>3. last = segments[p][1]
      BY <1>1, <1>5, <2>1
    <2>4. call'[p] = "idle" /\ nextTransport'[p] = (last.Sequence + 1) % Modulus
      BY <1>2, <2>2
    <2>5. PICK k : k = IF last.header.FIN THEN 0 ELSE open[p].k
      OBVIOUS
    <2>6. open'[p] = [open[p] EXCEPT !.k = k] /\ open[p] \in OpenState
      BY <1>3, <2>2, <2>5
    <2>7. open'[p].k = k /\ open'[p].pieces = open[p].pieces
      BY <2>6 DEF OpenState
    <2> QED
      BY <1>1, <1>4, <1>7, <2>3, <2>4, <2>5, <2>7
  <1> QED
    BY <1>1, <1>6, <1>7

LEMMA SenderGoesOn ==
    ASSUME TypeInv, NEW p \in Station, call[p] = "send", SegmentSent(p),
           NEW h \in Seq(Segment), Chain(h), NEW q \in Nat, NEW n, Len(h) = n,
           Begun(h, q, open[p].k), Sending(h, segments[p], TRUE, q, open[p].k)
    PROVE  Sender(h, call'[p], segments'[p], waiting'[p], nextTransport'[p], open'[p].k, q, n)
  <1>1. PICK g \in Seq(Segment), k \in Nat : g = segments[p] /\ g # <<>> /\ k = open[p].k
    <2>1. open[p].k \in Nat
      BY OpenFields DEF TypeInv
    <2> QED
      BY <2>1 DEF TypeInv, TypeOK
  <1>2. /\ Tail(g) # <<>> => Sending(h, Tail(g), FALSE, q, k)
        /\ Tail(g) = <<>> => /\ h[Len(h)].FIN
                             /\ (g[1].Sequence + 1) % Modulus = Len(h) % Modulus
    BY <1>1, SendingGoesOn
  <1>3. /\ segments'[p] = Tail(g) /\ waiting'[p] = FALSE
        /\ IF Tail(g) # <<>>
           THEN call'[p] = "send" /\ nextTransport'[p] = nextTransport[p] /\ open'[p] = open[p]
           ELSE /\ call'[p] = "idle"
                /\ nextTransport'[p] = (g[1].Sequence + 1) % Modulus
                /\ open'[p].k = IF g[1].header.FIN THEN 0 ELSE open[p].k
                /\ open'[p].pieces = open[p].pieces
    BY <1>1, SentOne
  <1>4. Begun(h, q, 0)
    BY <1>1 DEF Begun
  <1>5. CASE Tail(g) # <<>>
    <2>1. Sending(h, Tail(g), FALSE, q, k) /\ Begun(h, q, k)
      BY <1>1, <1>2, <1>5
    <2> QED
      BY <1>1, <1>3, <1>5, <2>1 DEF Sender
  <1>6. CASE Tail(g) = <<>>
    <2>1. Begun(h, q, open'[p].k)
      BY <1>3, <1>4, <1>6
    <2> QED
      BY <1>2, <1>3, <1>6, <2>1 DEF Sender
  <1> QED
    BY <1>5, <1>6

\* The peer writes a segment.
LEMMA StreamWrites ==
    ASSUME TypeInv, NEW s \in Station, NEW h \in Seq(Segment), Stream(s, h),
           SendUnconfirmed(Peer(s)) \/ SendConfirmed(Peer(s)),
           NEW x \in Segment, x = segments[Peer(s)][1]
    PROVE  /\ Stream(s, Append(h, x))'
           /\ x.n = Len(h) + 1 /\ wire'[s] = Append(wire[s], x)
           /\ MayFollow(h, Len(h), x) /\ Chain(Append(h, x))
  <1>1. PICK p \in Station : p = Peer(s) /\ p # s /\ Peer(p) = s
    BY StreamTypes
  <1>2. PICK g \in Seq(Segment), k \in Nat, q \in Nat :
            /\ g = segments[p] /\ k = open[p].k /\ q = sent[p].fragments /\ g # <<>>
            /\ g[1] = x /\ call[p] = "send" /\ Head(segments[p]) = x /\ sent[p].segments \in Nat
    <2>1. /\ segments[p] \in Seq(Segment) /\ open[p].k \in Nat /\ sent[p].fragments \in Nat
          /\ sent[p].segments \in Nat /\ (call[p] = "send" <=> segments[p] # <<>>)
      BY <1>1, StreamTypes
    <2>2. call[p] = "send"
      BY <1>1 DEF SendUnconfirmed, SendConfirmed
    <2>3. segments[p] # <<>> => Head(segments[p]) = segments[p][1]
      BY <2>1, Removed
    <2> QED
      BY <1>1, <2>1, <2>2, <2>3
  <1>3. waiting[p] = FALSE
    <2>1. waiting[p] \in BOOLEAN /\ (waiting[p] => confirmed[p])
      BY <1>1, StreamTypes
    <2>2. ~waiting[p]
      BY <1>1, <2>1 DEF SendUnconfirmed, SendConfirmed
    <2> QED
      BY <2>1, <2>2
  <1>4. Chain(h) /\ Len(h) = sent[p].segments /\ Begun(h, q, k) /\ Sending(h, g, FALSE, q, k)
    BY <1>1, <1>2, <1>3 DEF Stream, Sender
  <1>5. PICK v \in Seq(Segment) :
           /\ v = Append(h, x) /\ Len(h) \in Nat /\ Len(v) = Len(h) + 1 /\ v[Len(h) + 1] = x
           /\ \A i \in 1..Len(h) : v[i] = h[i]
    <2>1. PICK y \in Segment : y = x
      OBVIOUS
    <2>2. \E v \in Seq(Segment) :
             /\ v = Append(h, y) /\ Len(h) \in Nat /\ Len(v) = Len(h) + 1 /\ v[Len(h) + 1] = y
             /\ \A i \in 1..Len(h) : v[i] = h[i]
      BY Growing
    <2> QED
      BY <2>1, <2>2
  <1>6. Chain(v) /\ Begun(v, q, k) /\ Sending(v, g, TRUE, q, k)
    BY <1>2, <1>4, <1>5, SendingWrites
  <1>7. Numbered(x, Len(h) + 1) /\ MayFollow(h, Len(h), x)
    <2>1. 1 \in 1..Len(g)
      BY <1>2, Removed
    <2> QED
      BY <1>2, <1>5, <2>1, <1>4 DEF Sending
  <1>8. wire'[s] = Append(wire[s], x) /\ sent'[p].segments = Len(v) /\ sent'[p].fragments = q
    <2>1. /\ wire' = [wire EXCEPT ![s] = Append(wire[s], x)]
          /\ sent' = [sent EXCEPT ![p].segments = @ + 1]
      BY <1>1, <1>2 DEF SendUnconfirmed, SendConfirmed, WriteSegment
    <2>2. sent \in [Station -> SentState] /\ sent[p] \in SentState
      BY DEF TypeInv
    <2>3. sent'[p] = [sent[p] EXCEPT !.segments = @ + 1]
      BY <2>1, <2>2
    <2>4. sent'[p].segments = sent[p].segments + 1 /\ sent'[p].fragments = sent[p].fragments
      BY <2>2, <2>3 DEF SentState
    <2>5. wire'[s] = Append(wire[s], x)
      BY <2>1 DEF TypeInv, TypeOK
    <2> QED
      BY <1>2, <1>4, <1>5, <2>4, <2>5
  <1>9. Sender(v, call'[p], segments'[p], waiting'[p], nextTransport'[p], open'[p].k,
               sent'[p].fragments, sent'[p].segments)
    <2>1. CASE SendUnconfirmed(p)
      <3>1. SegmentSent(p)
        BY <2>1 DEF SendUnconfirmed
      <3> QED
        BY <1>2, <1>6, <1>8, <3>1, SenderGoesOn
    <2>2. CASE SendConfirmed(p)
      <3>1. waiting'[p] = TRUE /\ UNCHANGED <<call, segments, nextTransport, open>>
        BY <2>2 DEF SendConfirmed, TypeInv, TypeOK
      <3> QED
        BY <1>2, <1>6, <1>8, <3>1 DEF Sender
    <2> QED
      BY <1>1, <2>1, <2>2
  <1>10. Receiver(v, wire'[s], transportInput'[s], applicationInput'[s], handed'[s])
    <2>1. UNCHANGED <<transportInput, applicationInput, handed>>
      BY DEF SendUnconfirmed, SendConfirmed, inputVars
    <2>2. /\ wire[s] \in Seq(Segment) /\ transportInput[s].fragment \in Seq(Segment)
          /\ applicationInput[s].objects \in Seq(Segment)
      BY StreamTypes
    <2>3. Receiver(h, wire[s], transportInput[s], applicationInput[s], handed[s])
      BY DEF Stream
    <2>4. x.n = Len(h) + 1
      BY <1>7 DEF Numbered
    <2>5. Receiver(v, Append(wire[s], x), transportInput[s], applicationInput[s], handed[s])
      BY <1>5, <2>2, <2>3, <2>4, ReceiverWaits
    <2> QED
      BY <1>8, <2>1, <2>5
  <1>11. Stream(s, v)'
    BY <1>1, <1>9, <1>10 DEF Stream
  <1> QED
    BY <1>5, <1>6, <1>7, <1>8, <1>11 DEF Numbered

\* The acknowledgement of the peer's segment arrives.
LEMMA StreamAcknowledged ==
    ASSUME TypeInv, NEW s \in Station, NEW h \in Seq(Segment), Stream(s, h),
           Acknowledged(Peer(s))
    PROVE  Stream(s, h)'
  <1>1. PICK p \in Station : p = Peer(s)
    BY StreamTypes
  <1>2. waiting[p] = TRUE /\ call[p] = "send" /\ SegmentSent(p)
        /\ UNCHANGED <<wire, transportInput, applicationInput, handed, sent>>
    BY <1>1, StreamTypes DEF Acknowledged, inputVars
  <1>3. /\ Chain(h) /\ Len(h) = sent[p].segments /\ Begun(h, sent[p].fragments, open[p].k)
        /\ Sending(h, segments[p], TRUE, sent[p].fragments, open[p].k)
        /\ sent[p].fragments \in Nat
    BY <1>1, <1>2, StreamTypes DEF Stream, Sender
  <1>4. Sender(h, call'[p], segments'[p], waiting'[p], nextTransport'[p], open'[p].k,
               sent'[p].fragments, sent'[p].segments)
    BY <1>2, <1>3, SenderGoesOn
  <1> QED
    BY <1>1, <1>2, <1>4 DEF Stream

\* A segment is read by another call, or refused by the link.
LEMMA StreamLoses ==
    ASSUME TypeInv, NEW s \in Station, NEW h \in Seq(Segment), Stream(s, h),
           Divert(s) \/ Lose(s)
    PROVE  Stream(s, h)'
  <1>1. Peer(s) # s /\ Peer(s) \in Station
    BY StreamTypes
  <1>2. /\ wire' = [wire EXCEPT ![s] = Tail(wire[s])] /\ wire[s] # <<>>
        /\ UNCHANGED <<call, segments, waiting, nextTransport, open, sent, transportInput,
                       applicationInput, handed>>
    BY DEF Divert, Lose, callVars, inputVars
  <1>3. wire'[s] = Tail(wire[s])
    BY <1>2 DEF TypeInv, TypeOK
  <1>4. Receiver(h, Tail(wire[s]), transportInput[s], applicationInput[s], handed[s])
    BY <1>2, StreamTypes, ReceiverMisses DEF Stream
  <1> QED
    BY <1>2, <1>3, <1>4 DEF Stream

\* What Receive and ConfirmFails do to the station that reads.
LEMMA ReadsOne ==
    ASSUME TypeInv, NEW s \in Station, Receive(s) \/ ConfirmFails(s)
    PROVE  LET push == TransportPush(s, wire[s][1])
               up == ApplicationPush(s, push.fragment[1].header, push.fragment)
           IN /\ wire[s] # <<>> /\ call[s] = "receive" /\ call'[s] \in {"idle", "receive"}
              /\ wire'[s] = Tail(wire[s]) /\ transportInput'[s] = push.state
              /\ UNCHANGED <<segments, waiting, open>>
              /\ IF Receive(s) /\ push.result = "complete"
                 THEN /\ applicationInput'[s] = up.state
                      /\ handed'[s] = IF up.result = "complete" THEN Append(handed[s], up.objects)
                                                                ELSE handed[s]
                 ELSE applicationInput'[s] = applicationInput[s] /\ handed'[s] = handed[s]
  <1>1. call[s] = "receive" /\ wire[s] # <<>>
    BY DEF Receive, ConfirmFails
  <1> DEFINE push == TransportPush(s, Head(wire[s]))
             f == Decode(push.fragment)
             up == ApplicationPush(s, f, push.fragment)
  <1>2. /\ Head(wire[s]) = wire[s][1]
        /\ push.result = "complete" => f = push.fragment[1].header
    BY <1>1, Arrives
  <1>3. transportInput' = [transportInput EXCEPT ![s] = push.state]
        /\ UNCHANGED <<segments, waiting, open>>
    BY DEF Receive, ConfirmFails
  <1>4. ASSUME Receive(s)
        PROVE  \/ push.result = "error" /\ NoConfirm(s) /\ call' = [call EXCEPT ![s] = "idle"]
                  /\ UNCHANGED <<applicationInput, handed>>
               \/ push.result = "more" /\ NoConfirm(s) /\ UNCHANGED <<applicationInput, handed, call>>
               \/ /\ push.result = "complete" /\ (Confirm(s, f) \/ NoConfirm(s))
                  /\ Accept(s, f, push.fragment)
    BY <1>4 DEF Receive
  <1>5. ASSUME ConfirmFails(s)
        PROVE  /\ wire' = [wire EXCEPT ![s] = Tail(wire[s])] /\ call' = [call EXCEPT ![s] = "idle"]
               /\ UNCHANGED <<applicationInput, handed>>
    BY <1>5 DEF ConfirmFails
  <1>6. ASSUME Receive(s), push.result = "complete"
        PROVE  /\ applicationInput' = [applicationInput EXCEPT ![s] = up.state]
               /\ call' = [call EXCEPT ![s] = IF up.result = "more" THEN call[s] ELSE "idle"]
               /\ handed' = [handed EXCEPT ![s] = IF up.result = "complete"
                                                  THEN Append(handed[s], up.objects) ELSE handed[s]]
    <2>1. Accept(s, f, push.fragment)
      BY <1>4, <1>6
    <2> QED
      BY <2>1 DEF Accept
  <1>7. ASSUME Confirm(s, f) \/ NoConfirm(s)
        PROVE  wire'[s] = Tail(wire[s])
    <2>1. CASE NoConfirm(s)
      BY <2>1 DEF NoConfirm, TypeInv, TypeOK
    <2>2. CASE Confirm(s, f)
      <3>1. wire' = [wire EXCEPT ![s] = Tail(@), ![Peer(s)] = Append(@, Confirmation(s, f))]
        BY <2>2 DEF Confirm
      <3> QED
        BY <3>1, Stations DEF TypeInv, TypeOK
    <2> QED
      BY <1>7, <2>1, <2>2
  <1> HIDE DEF push, f, up
  <1>8. wire'[s] = Tail(wire[s])
    <2>1. CASE Receive(s)
      BY <1>4, <1>7, <2>1
    <2>2. CASE ConfirmFails(s)
      BY <1>5, <2>2 DEF TypeInv, TypeOK
    <2> QED
      BY <2>1, <2>2
  <1>9. call'[s] \in {"idle", "receive"}
    <2>1. DOMAIN call = Station
      BY DEF TypeInv, TypeOK
    <2> QED
      BY <1>1, <1>4, <1>5, <1>6, <2>1
  <1>10. transportInput'[s] = push.state
    BY <1>3 DEF TypeInv, TypeOK
  <1>11. IF Receive(s) /\ push.result = "complete"
         THEN /\ applicationInput'[s] = up.state
              /\ handed'[s] = IF up.result = "complete" THEN Append(handed[s], up.objects)
                                                        ELSE handed[s]
         ELSE applicationInput'[s] = applicationInput[s] /\ handed'[s] = handed[s]
    <2>1. DOMAIN applicationInput = Station /\ DOMAIN handed = Station
      BY DEF TypeInv, TypeOK
    <2>2. CASE Receive(s) /\ push.result = "complete"
      BY <1>6, <2>1, <2>2
    <2>3. CASE ~(Receive(s) /\ push.result = "complete")
      BY <1>4, <1>5, <2>3
    <2> QED
      BY <2>2, <2>3
  <1>12. push = TransportPush(s, wire[s][1])
    BY <1>2 DEF push
  <1>13. push.result = "complete" =>
            up = ApplicationPush(s, push.fragment[1].header, push.fragment)
    BY <1>2 DEF up
  <1> QED
    BY <1>1, <1>3, <1>8, <1>9, <1>10, <1>11, <1>12, <1>13

\* What they do to the other station, which reads what this one confirms.
LEMMA ConfirmsOne ==
    ASSUME TypeInv, NEW s \in Station, Receive(s) \/ ConfirmFails(s), NEW p, p = Peer(s)
    PROVE  LET push == TransportPush(s, wire[s][1])
               f == push.fragment[1].header
               x == Confirmation(s, f)
           IN /\ UNCHANGED <<call[p], transportInput[p], applicationInput[p], handed[p],
                             nextTransport[p], sent[p], segments, waiting, open>>
              /\ \/ UNCHANGED <<wire[p], nextTransport[s], sent[s]>>
                 \/ /\ f \in Header /\ wire'[p] = Append(wire[p], x)
                    /\ nextTransport'[s] = (nextTransport[s] + 1) % Modulus
                    /\ sent'[s] = [sent[s] EXCEPT !.segments = @ + 1]
                    /\ spoiled'[p] = (spoiled[p] \/ open[s].k # 0)
  <1>1. call[s] = "receive" /\ wire[s] # <<>>
    BY DEF Receive, ConfirmFails
  <1>0. p \in Station /\ p # s
    BY Stations
  <1> DEFINE push == TransportPush(s, Head(wire[s]))
             f == Decode(push.fragment)
             up == ApplicationPush(s, f, push.fragment)
  <1>2. /\ Head(wire[s]) = wire[s][1]
        /\ push.result = "complete" => f = push.fragment[1].header /\ f \in Header
    BY <1>1, Arrives
  <1>3. transportInput' = [transportInput EXCEPT ![s] = push.state]
        /\ UNCHANGED <<segments, waiting, open>>
    BY DEF Receive, ConfirmFails
  <1>4. ASSUME Receive(s)
        PROVE  /\ NoConfirm(s) \/ (push.result = "complete" /\ Confirm(s, f))
               /\ UNCHANGED <<call[p], applicationInput[p], handed[p]>>
    <2>1. \/ push.result = "error" /\ NoConfirm(s) /\ call' = [call EXCEPT ![s] = "idle"]
             /\ UNCHANGED <<applicationInput, handed>>
          \/ push.result = "more" /\ NoConfirm(s) /\ UNCHANGED <<applicationInput, handed, call>>
          \/ /\ push.result = "complete" /\ (Confirm(s, f) \/ NoConfirm(s))
             /\ Accept(s, f, push.fragment)
      BY <1>4 DEF Receive
    <2>2. ASSUME Accept(s, f, push.fragment)
          PROVE  UNCHANGED <<call[p], applicationInput[p], handed[p]>>
      <3>1. PICK u, v, w :
                /\ applicationInput' = [applicationInput EXCEPT ![s] = u]
                /\ call' = [call EXCEPT ![s] = v] /\ handed' = [handed EXCEPT ![s] = w]
        BY <2>2 DEF Accept
      <3> QED
        BY <1>0, <3>1 DEF TypeInv, TypeOK
    <2>3. DOMAIN call = Station
      BY DEF TypeInv, TypeOK
    <2> HIDE DEF push, f
    <2> QED
      BY <1>0, <2>1, <2>2, <2>3
  <1>5. ASSUME ConfirmFails(s)
        PROVE  UNCHANGED <<call[p], applicationInput[p], handed[p], wire[p], nextTransport, sent>>
    <2>1. /\ wire' = [wire EXCEPT ![s] = Tail(@)] /\ call' = [call EXCEPT ![s] = "idle"]
          /\ UNCHANGED <<applicationInput, handed, nextTransport, sent>>
      BY <1>5 DEF ConfirmFails
    <2> QED
      BY <1>0, <2>1 DEF TypeInv, TypeOK
  <1>6. ASSUME NoConfirm(s)
        PROVE  UNCHANGED <<wire[p], nextTransport, sent>>
    BY <1>0, <1>6 DEF NoConfirm, TypeInv, TypeOK
  <1>7. ASSUME Confirm(s, f)
        PROVE  /\ wire'[p] = Append(wire[p], Confirmation(s, f))
               /\ nextTransport'[s] = (nextTransport[s] + 1) % Modulus
               /\ sent'[s] = [sent[s] EXCEPT !.segments = @ + 1]
               /\ spoiled'[p] = (spoiled[p] \/ open[s].k # 0)
               /\ UNCHANGED <<nextTransport[p], sent[p]>>
    <2>1. /\ wire' = [wire EXCEPT ![s] = Tail(@), ![p] = Append(@, Confirmation(s, f))]
          /\ nextTransport' = [nextTransport EXCEPT ![s] = (@ + 1) % Modulus]
          /\ sent' = [sent EXCEPT ![s].segments = @ + 1]
          /\ spoiled' = [spoiled EXCEPT ![p] = @ \/ open[s].k # 0]
      BY <1>7 DEF Confirm
    <2> HIDE DEF f
    <2>2. wire'[p] = Append(wire[p], Confirmation(s, f))
      BY <1>0, <2>1 DEF TypeInv, TypeOK
    <2>3. nextTransport'[s] = (nextTransport[s] + 1) % Modulus /\ UNCHANGED nextTransport[p]
      BY <1>0, <2>1 DEF TypeInv, TypeOK
    <2>4. sent'[s] = [sent[s] EXCEPT !.segments = @ + 1] /\ UNCHANGED sent[p]
      BY <1>0, <2>1 DEF TypeInv
    <2>5. spoiled'[p] = (spoiled[p] \/ open[s].k # 0)
      BY <1>0, <2>1 DEF TypeInv
    <2> QED
      BY <2>2, <2>3, <2>4, <2>5
  <1>8. UNCHANGED transportInput[p]
    BY <1>0, <1>3 DEF TypeInv, TypeOK
  <1>9. push = TransportPush(s, wire[s][1])
    BY <1>2
  <1> HIDE DEF push, f
  <1>10. UNCHANGED <<call[p], applicationInput[p], handed[p], nextTransport[p], sent[p]>>
    BY <1>4, <1>5, <1>6, <1>7
  <1>11. \/ UNCHANGED <<wire[p], nextTransport[s], sent[s]>>
         \/ /\ f \in Header /\ f = push.fragment[1].header
            /\ wire'[p] = Append(wire[p], Confirmation(s, f))
            /\ nextTransport'[s] = (nextTransport[s] + 1) % Modulus
            /\ sent'[s] = [sent[s] EXCEPT !.segments = @ + 1]
            /\ spoiled'[p] = (spoiled[p] \/ open[s].k # 0)
    BY <1>2, <1>4, <1>5, <1>6, <1>7
  <1> QED
    BY <1>3, <1>8, <1>9, <1>10, <1>11

\* ReceiveApplication reads a segment.
LEMMA StreamReads ==
    ASSUME TypeInv, NEW s \in Station, NEW h \in Seq(Segment), Stream(s, h),
           Receive(s) \/ ConfirmFails(s)
    PROVE  Stream(s, h)'
  <1>1. PICK p \in Station : p = Peer(s)
    BY StreamTypes
  <1>2. PICK x \in Segment, w \in Seq(Segment), v \in Seq(Segment) :
            x = w[1] /\ w = wire[s] /\ w # <<>> /\ v = Tail(w)
    <2>1. wire[s] \in Seq(Segment) /\ wire[s] # <<>>
      BY StreamTypes, ReadsOne
    <2>2. wire[s][1] \in Segment /\ Tail(wire[s]) \in Seq(Segment)
      BY <2>1, Removed
    <2> QED
      BY <2>1, <2>2
  <1> DEFINE push == TransportPush(s, x)
             up == ApplicationPush(s, push.fragment[1].header, push.fragment)
             a == applicationInput[s]
             d == handed[s]
  <1>3. /\ wire'[s] = v /\ transportInput'[s] = push.state
        /\ UNCHANGED <<segments, waiting, open>>
        /\ IF Receive(s) /\ push.result = "complete"
           THEN /\ applicationInput'[s] = up.state
                /\ handed'[s] = IF up.result = "complete" THEN Append(handed[s], up.objects)
                                                          ELSE handed[s]
           ELSE applicationInput'[s] = a /\ handed'[s] = d
    BY <1>2, ReadsOne
  <1>4. UNCHANGED <<call[p], nextTransport[p], sent[p]>>
    BY <1>1, ConfirmsOne
  <1>5. Chain(h) /\ Receiver(h, w, transportInput[s], a, d)
    BY <1>2 DEF Stream, Sender
  <1>6. a.objects \in Seq(Segment) /\ d \in Seq(Seq(Segment))
    BY StreamTypes
  <1>7. /\ Receiver(h, v, push.state, a, d)
        /\ push.result = "complete" =>
              push.fragment \in Seq(Segment) /\ Arrived(h, push.fragment, v, a)
    BY <1>2, <1>5, <1>6, FragmentReads
  <1>8. push.result = "complete" => push.state = NoTransport
    <2>1. push.result # "more" => push.state = NoTransport
      BY TransportPushed
    <2> QED
      BY <2>1
  <1>9. push.result = "complete" =>
           Receiver(h, v, NoTransport, up.state,
                    IF up.result = "complete" THEN Append(d, up.objects) ELSE d)
    <2> SUFFICES ASSUME push.result = "complete"
                 PROVE  Receiver(h, v, NoTransport, up.state,
                                 IF up.result = "complete" THEN Append(d, up.objects) ELSE d)
      OBVIOUS
    <2>1. PICK g \in Seq(Segment) : g = push.fragment
      BY <1>7
    <2>2. Receiver(h, v, NoTransport, a, d) /\ Arrived(h, g, v, a)
      BY <1>7, <1>8, <2>1
    <2> QED
      BY <1>2, <1>5, <1>6, <2>1, <2>2, MessageReads
  <1> HIDE DEF push, up, a, d
  <1>10. Receiver(h, wire'[s], transportInput'[s], applicationInput'[s], handed'[s])
    <2>1. CASE Receive(s) /\ push.result = "complete"
      BY <1>3, <1>8, <1>9, <2>1 DEF d
    <2>2. CASE ~(Receive(s) /\ push.result = "complete")
      BY <1>3, <1>7, <2>2
    <2> QED
      BY <2>1, <2>2
  <1> QED
    BY <1>1, <1>3, <1>4, <1>10 DEF Stream

\* The peer reads a segment, and confirms what it read or does not.
LEMMA StreamConfirms ==
    ASSUME TypeInv, NEW s \in Station, NEW h \in Seq(Segment), Stream(s, h),
           NEW p \in Station, p = Peer(s), Receive(p) \/ ConfirmFails(p)
    PROVE  \/ Stream(s, h)' /\ UNCHANGED <<wire[s], sent[p]>>
           \/ \E x \in Segment :
                /\ Stream(s, Append(h, x))' /\ wire'[s] = Append(wire[s], x)
                /\ x.n = Len(h) + 1 /\ ~Data(x) /\ x.piece.part = 1 /\ x.FIR /\ x.FIN
                /\ x.header.FIR /\ x.header.FIN
                /\ spoiled'[s] = (spoiled[s] \/ open[p].k # 0)
                /\ sent'[p] = [sent[p] EXCEPT !.segments = @ + 1]
  <1>1. s = Peer(p)
    BY Stations
  <1>2. call[p] = "receive" /\ call'[p] \in {"idle", "receive"} /\ wire[p] # <<>>
    BY ReadsOne
  <1> DEFINE f == TransportPush(p, wire[p][1]).fragment[1].header
             c == Confirmation(p, f)
  <1>3. /\ UNCHANGED <<transportInput[s], applicationInput[s], handed[s], segments, waiting, open>>
        /\ \/ UNCHANGED <<wire[s], nextTransport[p], sent[p]>>
           \/ /\ f \in Header /\ wire'[s] = Append(wire[s], c)
              /\ nextTransport'[p] = (nextTransport[p] + 1) % Modulus
              /\ sent'[p] = [sent[p] EXCEPT !.segments = @ + 1]
              /\ spoiled'[s] = (spoiled[s] \/ open[p].k # 0)
    BY <1>1, ConfirmsOne, ZenonT(30)
  <1>4. PICK q \in Nat, k \in Nat :
            /\ q = sent[p].fragments /\ k = open[p].k
            /\ Chain(h) /\ Len(h) = sent[p].segments /\ Begun(h, q, k)
            /\ nextTransport[p] = Len(h) % Modulus /\ (h # <<>> => h[Len(h)].FIN)
            /\ Receiver(h, wire[s], transportInput[s], applicationInput[s], handed[s])
    BY <1>2, StreamTypes DEF Stream, Sender
  <1> HIDE DEF f
  <1>5. CASE UNCHANGED <<wire[s], nextTransport[p], sent[p]>>
    <2>1. Sender(h, call'[p], segments'[p], waiting'[p], nextTransport'[p], open'[p].k,
                 sent'[p].fragments, sent'[p].segments)
      BY <1>2, <1>3, <1>4, <1>5 DEF Sender
    <2>2. Receiver(h, wire'[s], transportInput'[s], applicationInput'[s], handed'[s])
      BY <1>3, <1>4, <1>5
    <2> QED
      BY <1>5, <2>1, <2>2 DEF Stream
  <1>6. CASE ~UNCHANGED <<wire[s], nextTransport[p], sent[p]>>
    <2>1. /\ f \in Header /\ wire'[s] = Append(wire[s], c)
          /\ nextTransport'[p] = (nextTransport[p] + 1) % Modulus
          /\ sent'[p] = [sent[p] EXCEPT !.segments = @ + 1]
          /\ spoiled'[s] = (spoiled[s] \/ open[p].k # 0)
      BY <1>3, <1>6
    <2>2. PICK x \in Segment :
              /\ x = c
              /\ x.Sequence = nextTransport[p] /\ x.n = sent[p].segments + 1
              /\ x.FIR /\ x.FIN /\ x.piece.part = 1 /\ x.piece.size = 1 /\ x.piece.k = 1
              /\ x.piece.last
              /\ x.header.FIR /\ x.header.FIN /\ ~x.header.CON /\ x.header.kind = "confirm"
      BY <2>1, Confirms
    <2> HIDE DEF c
    <2>3. PICK v \in Seq(Segment) : v = Append(h, x) /\ Len(v) = Len(h) + 1 /\ v # <<>>
      <3>1. \E v \in Seq(Segment) :
               /\ v = Append(h, x) /\ Len(h) \in Nat /\ Len(v) = Len(h) + 1 /\ v[Len(h) + 1] = x
               /\ \A i \in 1..Len(h) : v[i] = h[i]
        BY Growing
      <3>2. PICK v \in Seq(Segment) : v = Append(h, x) /\ Len(v) = Len(h) + 1 /\ Len(h) \in Nat
        BY <3>1
      <3> QED
        BY <3>2, Nothing
    <2>4. x.n = Len(h) + 1 /\ x.Sequence = Len(h) % Modulus
      BY <1>4, <2>2
    <2>5. /\ Chain(v) /\ Begun(v, q, k) /\ v[Len(v)].FIN
          /\ (x.Sequence + 1) % Modulus = Len(v) % Modulus
      BY <1>4, <2>2, <2>3, <2>4, ConfirmationWrites
    <2>6. sent'[p].segments = Len(v) /\ sent'[p].fragments = q
      <3>1. sent[p] \in SentState
        BY DEF TypeInv
      <3> QED
        BY <1>4, <2>1, <2>3, <3>1 DEF SentState
    <2>7. nextTransport'[p] = Len(v) % Modulus
      BY <2>1, <2>2, <2>5
    <2>8. Sender(v, call'[p], segments'[p], waiting'[p], nextTransport'[p], open'[p].k,
                 sent'[p].fragments, sent'[p].segments)
      BY <1>2, <1>3, <1>4, <2>5, <2>6, <2>7 DEF Sender
    <2>9. Receiver(v, wire'[s], transportInput'[s], applicationInput'[s], handed'[s])
      <3>1. /\ wire[s] \in Seq(Segment) /\ transportInput[s].fragment \in Seq(Segment)
            /\ applicationInput[s].objects \in Seq(Segment)
        BY StreamTypes
      <3>2. Receiver(v, Append(wire[s], x), transportInput[s], applicationInput[s], handed[s])
        BY <1>4, <2>3, <2>4, <3>1, ReceiverWaits
      <3> QED
        BY <1>3, <2>1, <2>2, <3>2
    <2>10. Stream(s, v)'
      BY <2>8, <2>9 DEF Stream
    <2> QED
      BY <2>1, <2>2, <2>3, <2>4, <2>10 DEF Data
  <1> QED
    BY <1>5, <1>6

\* Every other step of either station leaves the stream as it is.
Elsewhere(s, p) ==
    \/ SendApplication(s) \/ SendUnconfirmed(s) \/ SendConfirmed(s) \/ Acknowledged(s)
    \/ SendFails(s) \/ Divert(p) \/ Lose(p)
    \/ \E a \in Station : \/ ReceiveApplication(a) \/ ReceiveExpires(a)
                          \/ ResetOrKeepAlive(a) \/ ResetOrKeepAliveReturns(a)

LEMMA StreamStays ==
    ASSUME TypeInv, NEW s \in Station, NEW p \in Station, p = Peer(s), p # s, Elsewhere(s, p)
    PROVE  /\ UNCHANGED <<wire[s], transportInput[s], applicationInput[s], handed[s],
                          segments[p], waiting[p], nextTransport[p], open[p], sent[p]>>
           /\ call'[p] = call[p] \/ (call[p] # "send" /\ call'[p] # "send")
  <1> USE DEF inputVars, callVars
  <1>1. DOMAIN call = Station /\ DOMAIN wire = Station /\ DOMAIN segments = Station
        /\ DOMAIN waiting = Station /\ DOMAIN nextTransport = Station
        /\ DOMAIN open = Station /\ DOMAIN sent = Station
    BY DEF TypeInv, TypeOK
  <1>2. s = Peer(p)
    BY Stations
  <1>3. CASE SendApplication(s)
    <2>1. PICK size \in 1..MaxSize[s], fin \in BOOLEAN, mode \in Modes[s] :
         LET m == IF open[s].k = 0 THEN open[s].msg + 1 ELSE open[s].msg
             k == open[s].k + 1
             q == sent[s].fragments + 1
             length == size + (IF k = 1 THEN 0 ELSE open[s].pieces)
             header == [FIR |-> k = 1, FIN |-> fin, CON |-> mode.con, kind |-> "data",
                        Sequence |-> q % AppModulus]
             piece == [msg |-> m, k |-> k, q |-> q, size |-> size, part |-> 0, last |-> fin]
         IN /\ segments' = [segments EXCEPT ![s] = SegmentStrict(header, piece, size,
                                nextTransport[s], sent[s].segments)]
            /\ open' = [open EXCEPT ![s] = [msg |-> m, k |-> k, pieces |-> length]]
            /\ sent' = [sent EXCEPT ![s].fragments = q,
                                      ![s].longest = IF length > @ THEN length ELSE @]
      BY <1>3, ZenonT(30) DEF SendApplication
    <2>2. UNCHANGED <<segments[p], open[p], sent[p]>>
      BY <1>1, <2>1
    <2>3. /\ call' = [call EXCEPT ![s] = "send"]
          /\ UNCHANGED <<wire, waiting, nextTransport, inputVars, handed>>
      BY <1>3 DEF SendApplication
    <2> QED
      BY <1>1, <2>1, <2>2, <2>3
  <1>4. ASSUME SegmentSent(s)
        PROVE  UNCHANGED <<segments[p], waiting[p], nextTransport[p], open[p], call[p]>>
    <2>1. PICK n, k : /\ segments' = [segments EXCEPT ![s] = Tail(@)]
                      /\ waiting' = [waiting EXCEPT ![s] = FALSE]
                      /\ \/ UNCHANGED <<call, nextTransport, open>>
                         \/ /\ call' = [call EXCEPT ![s] = "idle"]
                            /\ nextTransport' = [nextTransport EXCEPT ![s] = n]
                            /\ open' = [open EXCEPT ![s].k = k]
      BY <1>4 DEF SegmentSent
    <2> QED
      BY <1>1, <2>1
  <1>5. ASSUME WriteSegment(s)
        PROVE  UNCHANGED <<wire[s], sent[p]>>
    BY <1>1, <1>5 DEF WriteSegment
  <1>6. CASE SendUnconfirmed(s)
    BY <1>4, <1>5, <1>6 DEF SendUnconfirmed
  <1>7. CASE SendConfirmed(s)
    BY <1>1, <1>5, <1>7 DEF SendConfirmed
  <1>8. CASE Acknowledged(s)
    BY <1>4, <1>8 DEF Acknowledged
  <1>9. CASE SendFails(s)
    BY <1>1, <1>9 DEF SendFails
  <1>10. CASE Divert(p)
    BY <1>1, <1>10 DEF Divert
  <1>11. CASE Lose(p)
    BY <1>1, <1>11 DEF Lose
  <1>12. ASSUME NEW a \in Station, ReceiveApplication(a) \/ ReceiveExpires(a)
                                   \/ ResetOrKeepAlive(a) \/ ResetOrKeepAliveReturns(a)
         PROVE  /\ UNCHANGED <<wire, transportInput, applicationInput, handed,
                               segments, waiting, nextTransport, open, sent>>
                /\ call'[p] = call[p] \/ (call[p] # "send" /\ call'[p] # "send")
    BY <1>1, <1>12 DEF ReceiveApplication, ReceiveExpires, ResetOrKeepAlive, ResetOrKeepAliveReturns
  <1> QED
    BY <1>3, <1>6, <1>7, <1>8, <1>9, <1>10, <1>11, <1>12 DEF Elsewhere

LEMMA StreamKept ==
    ASSUME TypeInv, NEW s \in Station, NEW p \in Station, p = Peer(s), p # s,
           NEW h \in Seq(Segment), Stream(s, h), Elsewhere(s, p)
    PROVE  Stream(s, h)'
  <1>1. /\ UNCHANGED <<wire[s], transportInput[s], applicationInput[s], handed[s],
                       segments[p], waiting[p], nextTransport[p], open[p], sent[p]>>
        /\ call'[p] = call[p] \/ (call[p] # "send" /\ call'[p] # "send")
    BY StreamStays
  <1>2. Sender(h, call'[p], segments'[p], waiting'[p], nextTransport'[p], open'[p].k,
               sent'[p].fragments, sent'[p].segments)
    BY <1>1 DEF Stream, Sender
  <1>3. Receiver(h, wire'[s], transportInput'[s], applicationInput'[s], handed'[s])
    BY <1>1 DEF Stream
  <1> QED
    BY <1>2, <1>3 DEF Stream

\* What may happen to the stream to s in a step.
LEMMA StreamCases ==
    ASSUME NEW s \in Station, NEW p \in Station, p = Peer(s), Next
    PROVE  \/ SendApplication(p) \/ SendUnconfirmed(p) \/ SendConfirmed(p)
           \/ Acknowledged(p) \/ SendFails(p) \/ Receive(p) \/ ConfirmFails(p)
           \/ Receive(s) \/ ConfirmFails(s) \/ Divert(s) \/ Lose(s)
           \/ Elsewhere(s, p)
  <1>1. PICK a \in Station :
        \/ SendApplication(a) \/ SendUnconfirmed(a) \/ SendConfirmed(a)
        \/ Acknowledged(a) \/ SendFails(a)
        \/ ReceiveApplication(a) \/ Receive(a) \/ ConfirmFails(a) \/ ReceiveExpires(a)
        \/ ResetOrKeepAlive(a) \/ ResetOrKeepAliveReturns(a) \/ Divert(a) \/ Lose(a)
    BY DEF Next
  <1>2. a = s \/ a = p
    BY Stations
  <1> QED
    BY <1>1, <1>2 DEF Elsewhere

LEMMA Abandons ==
    ASSUME TypeInv, NEW p \in Station, SendFails(p)
    PROVE  sent'[p].abandoned
  <1>1. sent[p] \in SentState /\ sent' = [sent EXCEPT ![p] = [sent[p] EXCEPT !.abandoned = TRUE]]
    BY DEF SendFails, TypeInv
  <1> QED
    BY <1>1 DEF TypeInv, SentState

LEMMA GivenUp ==
    ASSUME TypeInv, Next, NEW p \in Station, sent[p].abandoned
    PROVE  sent'[p].abandoned
  <1>1. PICK s \in Station : s = Peer(p) /\ p = Peer(s) /\ p # s
    BY Stations
  <1>2. sent[p] \in SentState /\ DOMAIN sent = Station
    BY DEF TypeInv
  <1>3. CASE SendApplication(p)
    <2>1. PICK size \in 1..MaxSize[p], fin \in BOOLEAN, mode \in Modes[p] :
            LET k == open[p].k + 1
                q == sent[p].fragments + 1
                length == size + (IF k = 1 THEN 0 ELSE open[p].pieces)
            IN sent' = [sent EXCEPT ![p].fragments = q,
                                    ![p].longest = IF length > @ THEN length ELSE @]
      BY <1>3 DEF SendApplication
    <2>2. PICK q, l : sent'[p] = [sent[p] EXCEPT !.fragments = q, !.longest = l]
      BY <1>2, <2>1
    <2> QED
      BY <1>2, <2>2 DEF SentState
  <1>4. CASE SendUnconfirmed(p) \/ SendConfirmed(p)
    <2>1. sent'[p] = [sent[p] EXCEPT !.segments = @ + 1]
      BY <1>2, <1>4 DEF SendUnconfirmed, SendConfirmed, WriteSegment
    <2> QED
      BY <1>2, <2>1 DEF SentState
  <1>5. CASE Acknowledged(p) \/ Divert(s) \/ Lose(s)
    BY <1>5 DEF Acknowledged, Divert, Lose
  <1>6. CASE SendFails(p)
    BY <1>6, Abandons
  <1>7. CASE Receive(p) \/ ConfirmFails(p)
    <2>1. PICK m : sent'[p] = sent[p] \/ sent'[p] = [sent[p] EXCEPT !.segments = m]
      BY <1>1, <1>7, ConfirmsOne
    <2> QED
      BY <1>2, <2>1 DEF SentState
  <1>8. CASE Receive(s) \/ ConfirmFails(s)
    BY <1>1, <1>8, ConfirmsOne
  <1>9. CASE Elsewhere(s, p)
    BY <1>1, <1>9, StreamStays
  <1> QED
    BY <1>1, <1>3, <1>4, <1>5, <1>6, <1>7, <1>8, <1>9, StreamCases

LEMMA StreamEmpty ==
    ASSUME Init, NEW s \in Station
    PROVE  Stream(s, <<>>)
  <1>1. Peer(s) \in Station
    BY Stations
  <1>2. /\ call[Peer(s)] = "idle" /\ nextTransport[Peer(s)] = 0 /\ sent[Peer(s)].segments = 0
        /\ wire[s] = <<>> /\ handed[s] = <<>>
        /\ transportInput[s].fragment = <<>> /\ ~transportInput[s].active
        /\ applicationInput[s].objects = <<>> /\ ~applicationInput[s].active
    BY <1>1 DEF Init, NoTransport, NoApplication
  <1>3. PICK e \in Seq(Segment) : e = <<>> /\ Len(e) = 0
    <2>1. <<>> \in Seq(Segment) /\ Len(<<>>) = 0
      OBVIOUS
    <2> QED
      BY <2>1
  <1>4. Chain(e) /\ (\A q, k : Begun(e, q, k)) /\ Drawn(e, e) /\ Increasing(e) /\ Before(e, e)
    BY <1>3 DEF Chain, Begun, Drawn, Increasing, Before
  <1>5. 0 % Modulus = 0
    BY Moduli
  <1>6. \A i \in 1..Len(handed[s]) : Whole(handed[s][i]) \/ Wrapped(handed[s][i])
    BY <1>2
  <1>7. FragmentInv(transportInput[s]) /\ ObjectsInv(applicationInput[s])
    BY <1>2 DEF FragmentInv, ObjectsInv
  <1>8. Stream(s, e)
    BY <1>2, <1>3, <1>4, <1>5, <1>6, <1>7 DEF Stream, Sender, Receiver
  <1> QED
    BY <1>3, <1>8

LEMMA StreamBegins == Init => StreamInv
  <1>1. <<>> \in Seq(Segment)
    OBVIOUS
  <1> QED
    BY <1>1, StreamEmpty DEF StreamInv

LEMMA StreamStep ==
    ASSUME TypeInv, StreamInv, [Next]_vars
    PROVE  StreamInv'
  <1> SUFFICES ASSUME NEW s \in Station, ~sent'[Peer(s)].abandoned
               PROVE  \E h \in Seq(Segment) : Stream(s, h)'
    BY DEF StreamInv
  <1>1. PICK p \in Station : p = Peer(s) /\ p # s
    BY Stations
  <1>2. CASE UNCHANGED vars
    <2>1. PICK h \in Seq(Segment) : Stream(s, h)
      BY <1>2 DEF StreamInv, vars
    <2>2. UNCHANGED <<call, segments, waiting, nextTransport, open, sent, wire, transportInput,
                      applicationInput, handed>>
      BY <1>2 DEF vars
    <2>3. Stream(s, h)'
      BY <2>1, <2>2 DEF Stream
    <2> QED
      BY <2>3
  <1>3. CASE Next
    <2>1. ~sent[p].abandoned
      BY <1>1, <1>3, GivenUp
    <2>2. PICK h \in Seq(Segment) : Stream(s, h)
      BY <1>1, <2>1 DEF StreamInv
    <2>3. CASE SendApplication(p)
      BY <1>1, <2>2, <2>3, StreamSends
    <2>4. CASE SendUnconfirmed(p) \/ SendConfirmed(p)
      <3>1. PICK x \in Segment : x = segments[p][1]
        <4>1. segments[p] \in Seq(Segment) /\ segments[p] # <<>>
          BY <2>4 DEF SendUnconfirmed, SendConfirmed, TypeInv, TypeOK
        <4> QED
          BY <4>1, Removed
      <3>2. Stream(s, Append(h, x))'
        BY <1>1, <2>2, <2>4, <3>1, StreamWrites
      <3>3. Append(h, x) \in Seq(Segment)
        BY Appended
      <3> QED
        BY <3>2, <3>3
    <2>5. CASE Acknowledged(p)
      BY <1>1, <2>2, <2>5, StreamAcknowledged
    <2>6. CASE SendFails(p)
      BY <1>1, <2>6, Abandons
    <2>7. CASE Receive(p) \/ ConfirmFails(p)
      <3>1. Stream(s, h)' \/ \E x \in Segment : Stream(s, Append(h, x))'
        BY <1>1, <2>2, <2>7, StreamConfirms
      <3>2. \A x \in Segment : Append(h, x) \in Seq(Segment)
        BY Appended
      <3> QED
        BY <3>1, <3>2
    <2>8. CASE Receive(s) \/ ConfirmFails(s)
      BY <2>2, <2>8, StreamReads
    <2>9. CASE Divert(s) \/ Lose(s)
      BY <2>2, <2>9, StreamLoses
    <2>10. CASE Elsewhere(s, p)
      BY <1>1, <2>2, <2>10, StreamKept
    <2> QED
      BY <1>1, <1>3, <2>3, <2>4, <2>5, <2>6, <2>7, <2>8, <2>9, <2>10, StreamCases
  <1> QED
    BY <1>2, <1>3

-----------------------------------------------------------------------------
(* Only broken input is refused.  As long as nothing of a stream was lost or *)
(* disturbed, pos[n] is the number of pieces of its message that the peer    *)
(* had written with h[n].                                                    *)

\* The first segment of a message.
Opens(x) == x.FIR /\ x.header.FIR

\* b opens a message when the one before it has ended, and else continues it.
Fits(h, n, b) ==
    IF b.FIR
    THEN /\ b.header.FIR <=> (n = 0 \/ h[n].header.FIN)
         /\ ~b.header.FIR => Data(b) /\ Data(h[n]) /\ b.piece.q = h[n].piece.q + 1
    ELSE n # 0

Steady(h, pos, most) ==
    /\ Len(pos) = Len(h)
    /\ \A n \in 1..Len(h) : /\ Fits(h, n - 1, h[n])
                            /\ pos[n] = IF Opens(h[n]) THEN 1 ELSE pos[n - 1] + 1
                            /\ pos[n] <= most

\* The sender: o is its open message, q its fragments, g what it has yet to send.
Ahead(h, pos, most, c, g, waits, o, q) ==
    IF c = "send"
    THEN /\ o.k # 0 /\ o.pieces <= most
         /\ ~waits => Fits(h, Len(h), g[1])
         /\ o.pieces = Len(g) + (IF waits THEN pos[Len(h)] - 1
                                 ELSE IF Opens(g[1]) THEN 0 ELSE pos[Len(h)])
    ELSE /\ o.k = 0 <=> (Len(h) = 0 \/ h[Len(h)].header.FIN)
         /\ o.k # 0 => /\ Data(h[Len(h)]) /\ h[Len(h)].piece.q = q
                       /\ pos[Len(h)] = o.pieces

\* g goes up to h[r], and continues the message in a, or opens one.
Ready(h, pos, r, g, a) ==
    /\ g[1].header = h[r].header
    /\ a.active <=> ~h[r].header.FIR
    /\ a.active => a.nextSequence = h[r].header.Sequence
    /\ Len(a.objects) + Len(g) = pos[r]

\* The reader has read the first r segments of h.
Position(h, pos, r, t, a) ==
    IF t.active
    THEN /\ r # 0 /\ ~h[r].FIN
         /\ t.fragment[Len(t.fragment)] = h[r] /\ Ready(h, pos, r, t.fragment, a)
    ELSE /\ r # 0 => h[r].FIN
         /\ a.active <=> (r # 0 /\ ~h[r].header.FIN)
         /\ a.active => /\ a.nextSequence = (h[r].piece.q + 1) % AppModulus
                        /\ Len(a.objects) = pos[r]

Behind(h, pos, w, t, a) ==
    \E r \in 0..Len(h) :
       /\ Len(h) = r + Len(w) /\ \A i \in 1..Len(w) : w[i] = h[r + i]
       /\ Position(h, pos, r, t, a)

Unbroken(s, h, pos) ==
    /\ Steady(h, pos, MaximumApplication[s])
    /\ Ahead(h, pos, MaximumApplication[s], call[Peer(s)], segments[Peer(s)], waiting[Peer(s)],
             open[Peer(s)], sent[Peer(s)].fragments)
    /\ Behind(h, pos, wire[s], transportInput[s], applicationInput[s])
    /\ ~rejected[s]

\* Nothing of what s reads was lost, disturbed, given up or too long.
Undisturbed(s) == ~spoiled[s] /\ ~sent[Peer(s)].abandoned /\ ~Oversized(s)

UnbrokenStream(s) ==
    \E h \in Seq(Segment), pos \in Seq(Nat) : Stream(s, h) /\ Unbroken(s, h, pos)

UnbrokenInv == \A s \in Station : Undisturbed(s) => UnbrokenStream(s)

\* The transport takes the next segment.
LEMMA ReadFits ==
    ASSUME TypeInv, NEW s \in Station, NEW h \in Seq(Segment), Chain(h), NEW pos \in Seq(Nat),
           Steady(h, pos, MaximumApplication[s]),
           NEW w \in Seq(Segment), w # <<>>, NEW a, a.objects \in Seq(Segment), NEW d,
           Receiver(h, w, transportInput[s], a, d),
           Behind(h, pos, w, transportInput[s], a)
    PROVE  LET push == TransportPush(s, w[1])
           IN /\ push.result # "error"
              /\ push.result = "more" => Behind(h, pos, Tail(w), push.state, a)
              /\ push.result = "complete" =>
                    \E r \in 1..Len(h) :
                       /\ Len(h) = r + Len(Tail(w)) /\ \A i \in 1..Len(Tail(w)) : Tail(w)[i] = h[r + i]
                       /\ h[r].FIN /\ Ready(h, pos, r, push.fragment, a)
  <1> DEFINE push == TransportPush(s, w[1])
             t == transportInput[s]
             old == IF w[1].FIR THEN <<>> ELSE t.fragment
  <1>1. PICK r \in 0..Len(h) : /\ Len(h) = r + Len(w) /\ \A i \in 1..Len(w) : w[i] = h[r + i]
                               /\ Position(h, pos, r, t, a)
    BY DEF Behind
  <1>2. PICK v \in Seq(Segment), x \in Segment :
           /\ v = Tail(w) /\ x = w[1] /\ Len(w) \in Nat \ {0} /\ Len(v) = Len(w) - 1
           /\ \A i \in 1..Len(v) : v[i] = w[i + 1]
    <2>1. /\ Tail(w) \in Seq(Segment) /\ w[1] \in Segment /\ Len(w) \in Nat \ {0}
          /\ Len(Tail(w)) = Len(w) - 1 /\ \A i \in 1..Len(Tail(w)) : Tail(w)[i] = w[i + 1]
      BY Removed
    <2> QED
      BY <2>1
  <1>3. PICK n \in 1..Len(h) : n = r + 1 /\ n - 1 = r /\ Len(h) = n + Len(v)
    <2>1. PICK l \in Nat, m \in Nat \ {0} : l = Len(h) /\ m = Len(w) /\ l = r + m /\ Len(v) = m - 1
      BY <1>1, <1>2, Within
    <2>2. PICK o \in Nat : o = r
      BY <2>1
    <2>3. o + 1 \in 1..l /\ l = o + 1 + (m - 1) /\ o + 1 - 1 = o
      BY <2>1, <2>2
    <2> QED
      BY <2>1, <2>2, <2>3
  <1>4. x = h[n] /\ \A i \in 1..Len(v) : v[i] = h[n + i]
    <2>1. x = h[n]
      BY <1>1, <1>2, <1>3
    <2>2. ASSUME NEW i \in 1..Len(v)
          PROVE  v[i] = h[n + i]
      <3>1. PICK j \in 1..Len(w) : j = i + 1
        BY <1>2
      <3>2. v[i] = w[j] /\ w[j] = h[r + j]
        BY <1>1, <1>2, <3>1
      <3>3. r + j = n + i
        BY <1>3, <3>1
      <3> QED
        BY <3>2, <3>3
    <2> QED
      BY <2>1, <2>2
  <1>5. /\ Sound(x) /\ Numbered(x, n) /\ MayFollow(h, r, x) /\ Fits(h, r, x)
        /\ pos[n] = (IF Opens(x) THEN 1 ELSE pos[r] + 1) /\ pos[n] <= MaximumApplication[s]
        /\ pos[n] \in Nat
    <2>1. Sound(h[n]) /\ Numbered(h[n], n) /\ MayFollow(h, n - 1, h[n])
      BY DEF Chain
    <2>2. /\ Fits(h, n - 1, h[n]) /\ pos[n] = IF Opens(h[n]) THEN 1 ELSE pos[n - 1] + 1
          /\ pos[n] <= MaximumApplication[s] /\ n \in 1..Len(pos)
      BY DEF Steady
    <2> QED
      BY <1>3, <1>4, <2>1, <2>2, Within
  <1>6. /\ t \in TransportState /\ t.fragment \in Seq(Segment)
        /\ FragmentInv(t) /\ ObjectsInv(a) /\ Drawn(t.fragment, h)
        /\ MaximumApplication[s] \in Nat \ {0}
    BY Stations DEF TypeInv, TypeOK, TransportState, Receiver
  <1> DEFINE g == Append(old, x)
  <1>7. /\ old \in Seq(Segment)
        /\ x.FIR \/ (t.active /\ x.Sequence = t.nextSequence)
        /\ Ready(h, pos, n, g, a)
    <2>1. CASE x.FIR
      <3>1. r # 0 => h[r].FIN
        BY <1>5, <2>1 DEF MayFollow
      <3>2. ~t.active /\ old = <<>> /\ <<>> \in Seq(Segment)
        BY <1>1, <1>2, <2>1, <3>1 DEF Position
      <3>3. /\ x.header.FIR <=> (r = 0 \/ h[r].header.FIN)
            /\ ~x.header.FIR => Data(x) /\ x.piece.q = h[r].piece.q + 1
        BY <1>5, <2>1 DEF Fits
      <3>4. a.active <=> ~x.header.FIR
        BY <1>1, <3>2, <3>3 DEF Position
      <3>5. a.active => a.nextSequence = x.header.Sequence
        BY <1>1, <1>5, <3>2, <3>3, <3>4 DEF Position, Sound
      <3>6. Len(a.objects) + 1 = pos[n]
        <4>1. CASE a.active
          <5>1. Len(a.objects) = pos[r] /\ ~Opens(x)
            BY <1>1, <3>2, <3>4, <4>1 DEF Position, Opens
          <5> QED
            BY <1>5, <5>1
        <4>2. CASE ~a.active
          <5>1. Len(a.objects) = 0 /\ Opens(x)
            BY <1>6, <2>1, <3>4, <4>2, Nothing DEF ObjectsInv, Opens
          <5> QED
            BY <1>5, <5>1
        <4> QED
          BY <4>1, <4>2
      <3>7. PICK one : one = g /\ Len(one) = 1 /\ one[1] = x
        BY <3>2, One
      <3>8. Ready(h, pos, n, one, a)
        BY <1>4, <3>4, <3>5, <3>6, <3>7 DEF Ready
      <3> QED
        BY <2>1, <3>2, <3>7, <3>8
    <2>2. CASE ~x.FIR
      <3>1. r # 0 /\ Continues(h[r], x)
        BY <1>5, <2>2 DEF MayFollow
      <3>2. /\ t.active /\ t.fragment[Len(t.fragment)] = h[r] /\ Ready(h, pos, r, t.fragment, a)
            /\ x.header = h[r].header
        BY <1>1, <3>1 DEF Position, Continues
      <3>3. t.nextSequence = h[r].n % Modulus /\ Len(t.fragment) \in Nat \ {0} /\ old = t.fragment
        BY <1>2, <1>6, <2>2, <3>2, Nothing DEF FragmentInv, Run
      <3>4. x.Sequence = t.nextSequence
        <4>1. r \in 1..Len(h)
          BY <3>1
        <4>2. h[r].n = r
          BY <4>1 DEF Chain, Numbered
        <4> QED
          BY <1>3, <1>5, <3>3, <4>2 DEF Numbered
      <3>5. PICK c \in Seq(Segment) :
                /\ c = Append(t.fragment, x) /\ Len(c) = Len(t.fragment) + 1
                /\ c[1] = t.fragment[1]
        <4>1. PICK o \in Seq(Segment) : o = t.fragment
          BY <1>6
        <4>2. PICK c \in Seq(Segment) :
                /\ c = Append(o, x) /\ Len(o) \in Nat /\ Len(c) = Len(o) + 1 /\ c[Len(o) + 1] = x
                /\ \A i \in 1..Len(o) : c[i] = o[i]
          BY Growing
        <4>3. 1 \in 1..Len(o)
          BY <3>3, <4>1
        <4> QED
          BY <4>1, <4>2, <4>3
      <3>6. Len(a.objects) + Len(c) = pos[n]
        <4>1. Len(a.objects) + Len(t.fragment) = pos[r] /\ ~Opens(x)
          BY <2>2, <3>2 DEF Ready, Opens
        <4>2. Len(a.objects) \in Nat /\ pos[n] = pos[r] + 1
          BY <1>5, <4>1, Nothing
        <4>3. PICK l \in Nat, m \in Nat : l = Len(a.objects) /\ m = Len(t.fragment)
          BY <3>3, <4>2
        <4>4. l + m = pos[r] /\ Len(c) = m + 1
          BY <3>5, <4>1, <4>3
        <4>5. PICK i \in Nat : i = pos[r] /\ pos[n] = i + 1
          BY <4>2, <4>4
        <4>6. l + (m + 1) = i + 1
          BY <4>4, <4>5
        <4> QED
          BY <4>3, <4>4, <4>5, <4>6
      <3>7. Ready(h, pos, n, c, a)
        BY <1>4, <3>2, <3>5, <3>6 DEF Ready
      <3> QED
        BY <1>6, <3>2, <3>3, <3>4, <3>5, <3>7
    <2> QED
      BY <2>1, <2>2
  <1>8. PICK o \in Seq(Segment), c \in Seq(Segment) :
           o = old /\ c = g /\ Len(o) \in Nat /\ Len(c) = Len(o) + 1 /\ c[Len(c)] = x
    <2>1. PICK o \in Seq(Segment) : o = old
      BY <1>7
    <2>2. PICK c \in Seq(Segment) :
            /\ c = Append(o, x) /\ Len(o) \in Nat /\ Len(c) = Len(o) + 1 /\ c[Len(o) + 1] = x
            /\ \A i \in 1..Len(o) : c[i] = o[i]
      BY Growing
    <2> QED
      BY <2>1, <2>2
  <1>9. Ready(h, pos, n, c, a)
    <2> HIDE DEF old, g
    <2> QED
      BY <1>7, <1>8
  <1>10. Len(o) + 1 <= MaximumApplication[s]
    <2>1. PICK l \in Nat, m \in Nat : l = Len(a.objects) /\ m = Len(c) /\ m = Len(o) + 1
      BY <1>8, Nothing
    <2>2. l + m = pos[n]
      BY <1>9, <2>1 DEF Ready
    <2>3. PICK i \in Nat, most \in Nat : i = pos[n] /\ most = MaximumApplication[s] /\ i <= most
      BY <1>5, <1>6
    <2>4. m <= most
      BY <2>2, <2>3
    <2> QED
      BY <2>1, <2>3, <2>4
  <1>11. /\ push.result = (IF x.FIN THEN "complete" ELSE "more")
         /\ push.result = "more" =>
               /\ push.state.active /\ push.state.fragment = c
         /\ push.result = "complete" => push.fragment = c
    <2>1. LET fits == /\ x.FIR \/ (t.active /\ x.Sequence = t.nextSequence)
                      /\ Len(old) + 1 <= MaximumApplication[s]
          IN /\ push.result = IF ~fits THEN "error" ELSE IF x.FIN THEN "complete" ELSE "more"
             /\ push.result = "more" =>
                   push.state.active /\ push.state.fragment = Append(old, x)
             /\ push.result = "complete" => push.fragment = Append(old, x)
      BY <1>2, TransportPushed
    <2>2. Len(old) + 1 <= MaximumApplication[s] /\ Append(old, x) = c
      BY <1>8, <1>10
    <2> HIDE DEF push, old
    <2> QED
      BY <1>7, <2>1, <2>2
  <1> HIDE DEF push, old, g
  <1>12. ASSUME push.result = "more"
         PROVE  Behind(h, pos, v, push.state, a)
    <2>1. Position(h, pos, n, push.state, a)
      BY <1>4, <1>8, <1>11, <1>9, <1>12 DEF Position
    <2>2. n \in 0..Len(h)
      OBVIOUS
    <2> QED
      BY <1>3, <1>4, <2>1, <2>2 DEF Behind
  <1>13. ASSUME push.result = "complete"
         PROVE  h[n].FIN /\ Ready(h, pos, n, push.fragment, a)
    BY <1>4, <1>11, <1>9, <1>13
  <1> QED
    BY <1>2, <1>3, <1>4, <1>11, <1>12, <1>13 DEF push

\* The application takes the fragment that has been joined.
LEMMA MessageFits ==
    ASSUME TypeInv, NEW s \in Station, NEW h \in Seq(Segment), Chain(h), NEW pos \in Seq(Nat),
           Steady(h, pos, MaximumApplication[s]), ObjectsInv(applicationInput[s]),
           NEW r \in 1..Len(h), h[r].FIN, NEW g \in Seq(Segment), g # <<>>,
           Ready(h, pos, r, g, applicationInput[s])
    PROVE  LET push == ApplicationPush(s, g[1].header, g)
           IN push.result # "error" /\ Position(h, pos, r, NoTransport, push.state)
  <1>1. PICK x \in Segment : x = h[r] /\ Sound(x)
    <2>1. h[r] \in Segment
      BY Within
    <2> QED
      BY <2>1 DEF Chain
  <1>2. PICK f \in Header : f = g[1].header /\ f = x.header /\ f.FIR \in BOOLEAN /\ f.FIN \in BOOLEAN
    <2>1. x.header \in Header /\ x.header.FIR \in BOOLEAN /\ x.header.FIN \in BOOLEAN
      BY DEF Segment, Header
    <2> QED
      BY <1>1, <2>1 DEF Ready
  <1> DEFINE push == ApplicationPush(s, f, g)
             a == applicationInput[s]
             old == IF f.FIR THEN <<>> ELSE a.objects
  <1>3. a.objects \in Seq(Segment)
    BY DEF TypeInv, TypeOK
  <1>4. PICK l \in Nat, m \in Nat, i \in Nat, most \in Nat :
           /\ l = Len(a.objects) /\ m = Len(g) /\ i = pos[r] /\ most = MaximumApplication[s]
           /\ l + m = i /\ i <= most
    <2>1. Len(pos) = Len(h) /\ pos[r] <= MaximumApplication[s]
      BY DEF Steady
    <2>2. pos[r] \in Nat
      BY <2>1, Within
    <2>3. Len(a.objects) \in Nat /\ Len(g) \in Nat /\ MaximumApplication[s] \in Nat
      BY <1>3, Nothing, Stations
    <2>4. Len(a.objects) + Len(g) = pos[r]
      BY DEF Ready
    <2> QED
      BY <2>1, <2>2, <2>3, <2>4
  <1>5. a.active <=> ~f.FIR
    BY <1>1, <1>2 DEF Ready
  <1>6. a.active => a.nextSequence = f.Sequence /\ a.kind = "data" /\ f.kind = "data"
    BY <1>1, <1>2, <1>5, Fields DEF Ready, ObjectsInv, Sound, Data
  <1>7. Len(old) + Len(g) = i /\ old \in Seq(Segment) /\ Len(old \o g) = i
    <2>1. CASE f.FIR
      <3>1. a.objects = <<>>
        BY <1>5, <2>1 DEF ObjectsInv
      <3>2. old = a.objects
        BY <2>1, <3>1
      <3> QED
        BY <1>3, <1>4, <3>2, Joining
    <2>2. CASE ~f.FIR
      <3>1. old = a.objects
        BY <2>2
      <3> QED
        BY <1>3, <1>4, <3>1, Joining
    <2> QED
      BY <2>1, <2>2
  <1>8. /\ push.result = (IF f.FIN THEN "complete" ELSE "more")
        /\ push.result # "more" => push.state = NoApplication
        /\ push.result = "more" =>
              /\ push.state.active /\ push.state.objects = old \o g
              /\ push.state.nextSequence = (f.Sequence + 1) % AppModulus
    <2>1. LET fits == /\ IF f.FIR THEN ~a.active
                          ELSE a.active /\ f.Sequence = a.nextSequence /\ f.kind = a.kind
                      /\ Len(old) + Len(g) <= MaximumApplication[s]
          IN /\ push.result = IF ~fits THEN "error" ELSE IF f.FIN THEN "complete" ELSE "more"
             /\ push.result # "more" => push.state = NoApplication
             /\ push.result = "more" =>
                   /\ push.state.active /\ push.state.objects = old \o g
                   /\ push.state.nextSequence = (f.Sequence + 1) % AppModulus
      BY ApplicationPushed
    <2>2. Len(old) + Len(g) <= MaximumApplication[s]
      BY <1>4, <1>7
    <2>3. IF f.FIR THEN ~a.active
          ELSE a.active /\ f.Sequence = a.nextSequence /\ f.kind = a.kind
      BY <1>5, <1>6
    <2> HIDE DEF push, old, a
    <2> QED
      BY <2>1, <2>2, <2>3
  <1> HIDE DEF push, old
  <1>9. ~NoTransport.active /\ ~NoApplication.active
    BY DEF NoTransport, NoApplication
  <1>10. CASE f.FIN
    <2>1. push.result = "complete" /\ push.state = NoApplication
      BY <1>8, <1>10
    <2> QED
      BY <1>1, <1>2, <1>9, <1>10, <2>1 DEF Position, push
  <1>11. CASE ~f.FIN
    <2>1. /\ push.result = "more" /\ push.state.active /\ push.state.objects = old \o g
          /\ push.state.nextSequence = (f.Sequence + 1) % AppModulus
      BY <1>8, <1>11
    <2>2. Len(push.state.objects) = pos[r]
      BY <1>4, <1>7, <2>1
    <2>3. PICK q \in Nat : q = x.piece.q /\ f.Sequence = q % AppModulus
      <3>1. Data(x)
        BY <1>1, <1>2, <1>11 DEF Sound
      <3> QED
        BY <1>1, <1>2, <3>1, Fields DEF Sound
    <2>4. ((q % AppModulus) + 1) % AppModulus = (q + 1) % AppModulus
      BY Moduli, AddCycle
    <2>5. push.state.nextSequence = (h[r].piece.q + 1) % AppModulus
      BY <1>1, <2>1, <2>3, <2>4
    <2>6. Position(h, pos, r, NoTransport, push.state)
      BY <1>1, <1>2, <1>9, <1>11, <2>1, <2>2, <2>5 DEF Position
    <2> QED
      BY <1>2, <2>1, <2>6 DEF push
  <1> QED
    BY <1>10, <1>11

LEMMA Counted ==
    ASSUME NEW s \in Seq(Nat), NEW x \in Nat
    PROVE  \E v \in Seq(Nat) :
             /\ v = Append(s, x) /\ Len(s) \in Nat /\ Len(v) = Len(s) + 1 /\ v[Len(s) + 1] = x
             /\ \A i \in 1..Len(s) : v[i] = s[i]
  <1>1. /\ Append(s, x) \in Seq(Nat) /\ Len(s) \in Nat /\ Len(Append(s, x)) = Len(s) + 1
        /\ Append(s, x)[Len(s) + 1] = x
        /\ \A i \in 1..Len(s) : Append(s, x)[i] = s[i]
    OBVIOUS
  <1> QED
    BY <1>1

\* The peer writes one more segment.
LEMMA SteadyGrows ==
    ASSUME NEW h \in Seq(Segment), NEW x \in Segment, NEW pos \in Seq(Nat), NEW most \in Nat,
           Steady(h, pos, most), Fits(h, Len(h), x),
           NEW i \in Nat, i = IF Opens(x) THEN 1 ELSE pos[Len(h)] + 1, i <= most
    PROVE  /\ Steady(Append(h, x), Append(pos, i), most)
           /\ Append(pos, i) \in Seq(Nat) /\ Append(pos, i)[Len(h) + 1] = i
  <1>1. PICK v \in Seq(Segment) :
           /\ v = Append(h, x) /\ Len(h) \in Nat /\ Len(v) = Len(h) + 1 /\ v[Len(h) + 1] = x
           /\ \A n \in 1..Len(h) : v[n] = h[n]
    BY Growing
  <1>2. PICK p \in Seq(Nat) :
           /\ p = Append(pos, i) /\ Len(pos) \in Nat /\ Len(p) = Len(pos) + 1 /\ p[Len(pos) + 1] = i
           /\ \A n \in 1..Len(pos) : p[n] = pos[n]
    BY Counted
  <1>3. Len(pos) = Len(h)
    BY DEF Steady
  <1>4. \A n \in 0..Len(h) : \A b : Fits(h, n, b) => Fits(v, n, b)
    <2> SUFFICES ASSUME NEW n \in 0..Len(h), NEW b, Fits(h, n, b)
                 PROVE  Fits(v, n, b)
      OBVIOUS
    <2>1. n = 0 \/ v[n] = h[n]
      BY <1>1
    <2>2. CASE n = 0
      <3>1. b.FIR /\ b.header.FIR
        BY <2>2 DEF Fits
      <3> QED
        BY <2>2, <3>1 DEF Fits
    <2>3. CASE v[n] = h[n]
      BY <2>3 DEF Fits
    <2> QED
      BY <2>1, <2>2, <2>3
  <1>5. ASSUME NEW n \in 1..Len(h)
        PROVE  /\ Fits(v, n - 1, v[n])
               /\ p[n] = IF Opens(v[n]) THEN 1 ELSE p[n - 1] + 1
               /\ p[n] <= most
    <2>1. /\ Fits(h, n - 1, h[n]) /\ pos[n] = (IF Opens(h[n]) THEN 1 ELSE pos[n - 1] + 1)
          /\ pos[n] <= most
      BY DEF Steady
    <2>2. v[n] = h[n] /\ p[n] = pos[n] /\ n - 1 \in 0..Len(h)
      BY <1>1, <1>2, <1>3
    <2>3. n = 1 \/ p[n - 1] = pos[n - 1]
      <3>1. n = 1 \/ n - 1 \in 1..Len(pos)
        BY <1>1, <1>3
      <3> QED
        BY <1>2, <3>1
    <2>4. n = 1 => Opens(h[n])
      <3>1. ASSUME n = 1
            PROVE  Opens(h[n])
        BY <2>1, <3>1 DEF Fits, Opens
      <3> QED
        BY <3>1
    <2> QED
      BY <1>4, <2>1, <2>2, <2>3, <2>4
  <1>6. /\ Fits(v, Len(h), x) /\ p[Len(h) + 1] = i
        /\ i = IF Opens(x) THEN 1 ELSE p[Len(h)] + 1
    <2>1. Fits(v, Len(h), x) /\ p[Len(h) + 1] = i
      BY <1>1, <1>2, <1>3, <1>4
    <2>2. Opens(x) \/ p[Len(h)] = pos[Len(h)]
      <3>1. CASE Len(h) = 0
        BY <3>1 DEF Fits, Opens
      <3>2. CASE Len(h) # 0
        <4>1. Len(h) \in 1..Len(pos)
          BY <1>1, <1>3, <3>2
        <4> QED
          BY <1>2, <4>1
      <3> QED
        BY <3>1, <3>2
    <2> QED
      BY <2>1, <2>2
  <1>7. Steady(v, p, most)
    <2>1. ASSUME NEW n \in 1..Len(v)
          PROVE  /\ Fits(v, n - 1, v[n])
                 /\ p[n] = IF Opens(v[n]) THEN 1 ELSE p[n - 1] + 1
                 /\ p[n] <= most
      <3>1. CASE n \in 1..Len(h)
        BY <1>5, <3>1
      <3>2. CASE n = Len(h) + 1
        <4>1. n - 1 = Len(h) /\ v[n] = x
          BY <1>1, <3>2
        <4> QED
          BY <1>6, <3>2, <4>1
      <3> QED
        BY <1>1, <3>1, <3>2, SMTT(20)
    <2> QED
      BY <1>1, <1>2, <1>3, <2>1 DEF Steady
  <1> QED
    BY <1>1, <1>2, <1>3, <1>7

\* What is written is still to be read.
LEMMA BehindWaits ==
    ASSUME NEW h \in Seq(Segment), NEW x \in Segment, NEW pos \in Seq(Nat), NEW i \in Nat,
           Len(pos) = Len(h), NEW w \in Seq(Segment), NEW t, NEW a, Behind(h, pos, w, t, a)
    PROVE  Behind(Append(h, x), Append(pos, i), Append(w, x), t, a)
  <1>1. PICK v \in Seq(Segment) :
           /\ v = Append(h, x) /\ Len(h) \in Nat /\ Len(v) = Len(h) + 1 /\ v[Len(h) + 1] = x
           /\ \A n \in 1..Len(h) : v[n] = h[n]
    BY Growing
  <1>2. PICK p \in Seq(Nat) :
           /\ p = Append(pos, i) /\ Len(pos) \in Nat /\ Len(p) = Len(pos) + 1 /\ p[Len(pos) + 1] = i
           /\ \A n \in 1..Len(pos) : p[n] = pos[n]
    BY Counted
  <1>3. PICK u \in Seq(Segment) :
           /\ u = Append(w, x) /\ Len(w) \in Nat /\ Len(u) = Len(w) + 1 /\ u[Len(w) + 1] = x
           /\ \A n \in 1..Len(w) : u[n] = w[n]
    BY Growing
  <1>4. PICK r \in 0..Len(h) : /\ Len(h) = r + Len(w) /\ \A n \in 1..Len(w) : w[n] = h[r + n]
                               /\ Position(h, pos, r, t, a)
    BY DEF Behind
  <1>5. r \in 0..Len(v) /\ Len(v) = r + Len(u)
    BY <1>1, <1>3, <1>4
  <1>6. ASSUME NEW n \in 1..Len(u)
        PROVE  u[n] = v[r + n]
    <2>1. CASE n \in 1..Len(w)
      <3>1. r + n \in 1..Len(h)
        BY <1>1, <1>3, <1>4, <2>1
      <3> QED
        BY <1>1, <1>3, <1>4, <2>1, <3>1
    <2>2. CASE n = Len(w) + 1
      <3>1. r + n = Len(h) + 1
        BY <1>1, <1>3, <1>4, <2>2
      <3> QED
        BY <1>1, <1>3, <2>2, <3>1
    <2> QED
      BY <1>3, <2>1, <2>2
  <1>7. Position(v, p, r, t, a)
    <2>1. r = 0 \/ (v[r] = h[r] /\ p[r] = pos[r])
      BY <1>1, <1>2
    <2>2. CASE r = 0
      BY <1>4, <2>2 DEF Position
    <2>3. CASE v[r] = h[r] /\ p[r] = pos[r]
      BY <1>4, <2>3 DEF Position, Ready
    <2> QED
      BY <2>1, <2>2, <2>3
  <1> QED
    BY <1>1, <1>2, <1>3, <1>5, <1>6, <1>7 DEF Behind

\* A fragment is cut: m is the number of its pieces, o the message it begins or
\* goes on with, and n what that message then has.
LEMMA AheadStarts ==
    ASSUME NEW h \in Seq(Segment), NEW pos, NEW most \in Nat, NEW c, c # "send", NEW f,
           NEW o, o.k \in Nat, o.pieces \in Nat, NEW q \in Nat,
           Ahead(h, pos, most, c, f, FALSE, o, q),
           NEW g \in Seq(Segment), NEW m \in Nat \ {0}, Len(g) = m,
           g[1].FIR, Data(g[1]), g[1].piece.q = q + 1, g[1].header.FIR <=> o.k = 0,
           NEW v, v.k = o.k + 1, v.pieces = (IF o.k = 0 THEN m ELSE m + o.pieces),
           v.pieces <= most
    PROVE  Ahead(h, pos, most, "send", g, FALSE, v, q + 1)
  <1>1. /\ o.k = 0 <=> (Len(h) = 0 \/ h[Len(h)].header.FIN)
        /\ o.k # 0 => /\ Data(h[Len(h)]) /\ h[Len(h)].piece.q = q
                      /\ pos[Len(h)] = o.pieces
    BY DEF Ahead
  <1>2. Fits(h, Len(h), g[1])
    BY <1>1 DEF Fits
  <1>3. v.pieces = Len(g) + (IF Opens(g[1]) THEN 0 ELSE pos[Len(h)])
    BY <1>1 DEF Opens
  <1>4. v.k # 0
    OBVIOUS
  <1> QED
    BY <1>2, <1>3, <1>4 DEF Ahead

\* Its first segment is written.
LEMMA AheadWrites ==
    ASSUME NEW h \in Seq(Segment), NEW pos \in Seq(Nat), NEW most \in Nat, Len(pos) = Len(h),
           NEW g \in Seq(Segment), g # <<>>, NEW o, o.pieces \in Nat, NEW q,
           Ahead(h, pos, most, "send", g, FALSE, o, q),
           NEW x \in Segment, x = g[1]
    PROVE  /\ Fits(h, Len(h), x)
           /\ \E i \in Nat :
                /\ i = (IF Opens(x) THEN 1 ELSE pos[Len(h)] + 1) /\ i <= most
                /\ Ahead(Append(h, x), Append(pos, i), most, "send", g, TRUE, o, q)
  <1>1. /\ o.k # 0 /\ o.pieces <= most /\ Fits(h, Len(h), x)
        /\ o.pieces = Len(g) + (IF Opens(x) THEN 0 ELSE pos[Len(h)])
    BY DEF Ahead
  <1>2. PICK l \in Nat, m \in Nat \ {0} : l = Len(h) /\ m = Len(g)
    BY Removed, Nothing
  <1>3. Opens(x) \/ l # 0
    BY <1>1, <1>2 DEF Fits, Opens
  <1>4. PICK b \in Nat : b = (IF Opens(x) THEN 0 ELSE pos[l]) /\ o.pieces = m + b
    <2>1. CASE Opens(x)
      BY <1>1, <1>2, <2>1
    <2>2. CASE ~Opens(x)
      <3>1. l \in 1..Len(pos)
        BY <1>2, <1>3, <2>2
      <3>2. pos[l] \in Nat
        BY <3>1, Within
      <3> QED
        BY <1>1, <1>2, <2>2, <3>2
    <2> QED
      BY <2>1, <2>2
  <1>5. PICK i \in Nat : i = b + 1 /\ i <= most /\ i = (IF Opens(x) THEN 1 ELSE pos[l] + 1)
    <2>1. PICK n \in Nat : n = o.pieces /\ n = m + b /\ n <= most
      BY <1>1, <1>4
    <2>2. b + 1 <= most
      BY <2>1
    <2> QED
      BY <1>4, <2>2
  <1>6. PICK p \in Seq(Nat) :
           /\ p = Append(pos, i) /\ Len(pos) \in Nat /\ Len(p) = Len(pos) + 1 /\ p[Len(pos) + 1] = i
           /\ \A n \in 1..Len(pos) : p[n] = pos[n]
    BY Counted
  <1>7. PICK v \in Seq(Segment) :
           /\ v = Append(h, x) /\ Len(h) \in Nat /\ Len(v) = Len(h) + 1 /\ v[Len(h) + 1] = x
           /\ \A n \in 1..Len(h) : v[n] = h[n]
    <2>1. PICK y \in Segment : y = x
      OBVIOUS
    <2>2. \E v \in Seq(Segment) :
             /\ v = Append(h, y) /\ Len(h) \in Nat /\ Len(v) = Len(h) + 1 /\ v[Len(h) + 1] = y
             /\ \A n \in 1..Len(h) : v[n] = h[n]
      BY Growing
    <2> QED
      BY <2>1, <2>2
  <1>8. o.pieces = Len(g) + (p[Len(v)] - 1)
    <2>1. p[Len(v)] = i /\ i - 1 = b
      BY <1>5, <1>6, <1>7
    <2> QED
      BY <1>2, <1>4, <2>1
  <1>9. Ahead(v, p, most, "send", g, TRUE, o, q)
    BY <1>1, <1>8 DEF Ahead
  <1> QED
    BY <1>1, <1>2, <1>5, <1>6, <1>7, <1>9

\* It has been sent.
LEMMA AheadGoesOn ==
    ASSUME NEW h \in Seq(Segment), NEW pos \in Seq(Nat), NEW most, Len(pos) = Len(h),
           NEW g \in Seq(Segment), g # <<>>, NEW q \in Nat, NEW k \in Nat,
           Sending(h, g, TRUE, q, k), NEW o, o.k = k, o.pieces \in Nat,
           Ahead(h, pos, most, "send", g, TRUE, o, q)
    PROVE  /\ Tail(g) # <<>> => Ahead(h, pos, most, "send", Tail(g), FALSE, o, q)
           /\ Tail(g) = <<>> =>
                 \A v : /\ v.k = (IF g[1].header.FIN THEN 0 ELSE k) /\ v.pieces = o.pieces
                        => Ahead(h, pos, most, "idle", Tail(g), FALSE, v, q)
  <1>0. PICK t \in Seq(Segment) : /\ t = Tail(g) /\ Len(g) \in Nat \ {0} /\ Len(t) = Len(g) - 1
                                 /\ \A i \in 1..Len(t) : t[i] = g[i + 1]
    BY Removed
  <1>1. PICK n \in Nat \ {0}, m \in Nat :
           /\ n = Len(g) /\ m = Len(t) /\ m = n - 1 /\ (t = <<>> <=> m = 0)
           /\ \A i \in 1..m : t[i] = g[i + 1]
    <2>1. Len(t) \in Nat /\ (t = <<>> <=> Len(t) = 0)
      BY Nothing
    <2> QED
      BY <1>0, <2>1
  <1>2. PICK l \in Nat \ {0} : l = Len(h) /\ g[1] = h[l]
    BY Nothing DEF Sending
  <1>3. PICK b \in Nat : b = pos[l] /\ o.pieces = n + (b - 1) /\ k # 0 /\ o.pieces <= most
    <2>1. pos[l] \in Nat
      BY <1>2, Within
    <2> QED
      BY <1>1, <1>2, <2>1 DEF Ahead
  <1>4. /\ Data(g[1]) /\ g[1].piece.q = q
        /\ \A i \in 1..n : i > 1 => Continues(g[i - 1], g[i])
    <2>1. 1 \in 1..n
      OBVIOUS
    <2> QED
      BY <1>1, <2>1 DEF Sending
  <1>5. ASSUME t # <<>>
        PROVE  Ahead(h, pos, most, "send", t, FALSE, o, q)
    <2>1. m # 0 /\ 2 \in 1..n /\ 1 \in 1..m
      BY <1>1, <1>5
    <2>2. t[1] = g[2] /\ Continues(g[1], g[2])
      <3>1. t[1] = g[1 + 1] /\ 1 + 1 = 2
        BY <1>1, <2>1
      <3>2. PICK j \in 1..n : j = 2
        BY <2>1
      <3>3. j > 1 /\ j - 1 = 1
        BY <3>2
      <3>4. Continues(g[j - 1], g[j])
        BY <1>4, <3>3
      <3> QED
        BY <3>1, <3>2, <3>3, <3>4
    <2>3. ~t[1].FIR
      BY <2>2 DEF Continues
    <2>4. o.pieces = m + b
      BY <1>1, <1>3, SMTT(20)
    <2> QED
      BY <1>1, <1>2, <1>3, <2>3, <2>4 DEF Ahead, Fits, Opens
  <1>6. ASSUME t = <<>>, NEW v, v.k = (IF g[1].header.FIN THEN 0 ELSE k), v.pieces = o.pieces
        PROVE  Ahead(h, pos, most, "idle", t, FALSE, v, q)
    <2>1. b = o.pieces
      <3>1. m = 0 /\ n = 1
        BY <1>1, <1>6
      <3>2. PICK c \in Nat : c = o.pieces /\ c = 1 + (b - 1)
        BY <1>3, <3>1
      <3>3. c = b
        BY <3>2
      <3> QED
        BY <3>2, <3>3
    <2>2. v.k = 0 <=> h[l].header.FIN
      BY <1>2, <1>3, <1>6
    <2> QED
      BY <1>2, <1>3, <1>4, <1>6, <2>1, <2>2 DEF Ahead
  <1> QED
    BY <1>0, <1>5, <1>6

\* A confirmation is written between two messages.
LEMMA AheadConfirms ==
    ASSUME NEW h \in Seq(Segment), NEW pos \in Seq(Nat), NEW most, NEW x \in Segment,
           NEW c, c # "send", NEW g, NEW o, o.k = 0, NEW q, Ahead(h, pos, most, c, g, FALSE, o, q),
           x.FIR, x.header.FIR, x.header.FIN
    PROVE  /\ Fits(h, Len(h), x) /\ Opens(x)
           /\ \A b : b # "send" => Ahead(Append(h, x), Append(pos, 1), most, b, g, FALSE, o, q)
  <1>1. PICK v \in Seq(Segment) :
           /\ v = Append(h, x) /\ Len(h) \in Nat /\ Len(v) = Len(h) + 1 /\ v[Len(h) + 1] = x
           /\ \A n \in 1..Len(h) : v[n] = h[n]
    BY Growing
  <1>2. Len(h) = 0 \/ h[Len(h)].header.FIN
    BY DEF Ahead
  <1>3. Fits(h, Len(h), x) /\ Opens(x)
    BY <1>2 DEF Fits, Opens
  <1>4. ASSUME NEW b, b # "send"
        PROVE  Ahead(v, Append(pos, 1), most, b, g, FALSE, o, q)
    BY <1>1, <1>4 DEF Ahead
  <1> QED
    BY <1>1, <1>3, <1>4

\* What SendApplication does to the station that sends.
\* g is written after the first n segments, which end with g[1] if it waits.
InLine(g, waits, n) ==
    \A i \in 1..Len(g) : g[i].n = IF waits THEN n + i - 1 ELSE n + i

LEMMA SendsOne ==
    ASSUME TypeInv, NEW p \in Station, SendApplication(p)
    PROVE  \E g \in Seq(Segment), m \in Nat \ {0} :
              /\ call[p] = "idle" /\ call'[p] = "send" /\ ~waiting'[p]
              /\ segments'[p] = g /\ Len(g) = m
              /\ InLine(g, FALSE, sent[p].segments) /\ sent'[p].segments = sent[p].segments
              /\ g[1].FIR /\ Data(g[1]) /\ g[1].piece.q = sent[p].fragments + 1
              /\ (g[1].header.FIR <=> open[p].k = 0)
              /\ open'[p].k = open[p].k + 1
              /\ open'[p].pieces = IF open[p].k = 0 THEN m ELSE m + open[p].pieces
              /\ sent'[p].fragments = sent[p].fragments + 1
              /\ sent'[p].longest \in Nat
              /\ sent'[p].longest >= sent[p].longest /\ sent'[p].longest >= open'[p].pieces
              /\ UNCHANGED <<wire, transportInput, applicationInput, spoiled, rejected>>
  <1>1. /\ open \in [Station -> OpenState] /\ sent \in [Station -> SentState]
        /\ DOMAIN segments = Station /\ DOMAIN call = Station /\ DOMAIN waiting = Station
    BY DEF TypeInv, TypeOK
  <1>2. /\ open[p].k \in Nat /\ open[p].msg \in Nat /\ open[p].pieces \in Nat
        /\ sent[p].fragments \in Nat /\ sent[p].segments \in Nat /\ sent[p].longest \in Nat
        /\ nextTransport[p] \in Nat
    <2>1. open[p] \in OpenState /\ sent[p] \in SentState
      BY <1>1
    <2>2. nextTransport[p] \in 0..(Modulus - 1)
      BY DEF TypeInv, TypeOK
    <2> QED
      BY <2>1, <2>2, OpenFields, SentFields, Moduli
  <1>3. PICK size \in 1..MaxSize[p], fin \in BOOLEAN, mode \in Modes[p] :
         LET m == IF open[p].k = 0 THEN open[p].msg + 1 ELSE open[p].msg
             k == open[p].k + 1
             q == sent[p].fragments + 1
             length == size + (IF k = 1 THEN 0 ELSE open[p].pieces)
             header == [FIR |-> k = 1, FIN |-> fin, CON |-> mode.con, kind |-> "data",
                        Sequence |-> q % AppModulus]
             piece == [msg |-> m, k |-> k, q |-> q, size |-> size, part |-> 0, last |-> fin]
         IN /\ segments' = [segments EXCEPT ![p] = SegmentStrict(header, piece, size,
                                nextTransport[p], sent[p].segments)]
            /\ open' = [open EXCEPT ![p] = [msg |-> m, k |-> k, pieces |-> length]]
            /\ sent' = [sent EXCEPT ![p].fragments = q,
                                      ![p].longest = IF length > @ THEN length ELSE @]
    BY ZenonT(30) DEF SendApplication
  <1> DEFINE m == IF open[p].k = 0 THEN open[p].msg + 1 ELSE open[p].msg
             k == open[p].k + 1
             q == sent[p].fragments + 1
             length == size + (IF k = 1 THEN 0 ELSE open[p].pieces)
             header == [FIR |-> k = 1, FIN |-> fin, CON |-> mode.con, kind |-> "data",
                        Sequence |-> q % AppModulus]
             piece == [msg |-> m, k |-> k, q |-> q, size |-> size, part |-> 0, last |-> fin]
             g == SegmentStrict(header, piece, size, nextTransport[p], sent[p].segments)
  <1>4. size \in Nat \ {0} /\ mode.con \in BOOLEAN
    <2>1. mode.con \in BOOLEAN /\ MaxSize[p] \in Nat
      BY Stations
    <2> QED
      BY <2>1
  <1>5. header \in Header /\ piece \in Piece
    <2>1. q % AppModulus \in 0..(AppModulus - 1)
      <3>1. q \in Nat
        BY <1>2
      <3> QED
        BY <3>1, Moduli, Least
    <2>2. header \in Header
      BY <1>4, <2>1 DEF Header
    <2>3. piece \in Piece
      BY <1>2, <1>4 DEF Piece
    <2> QED
      BY <2>2, <2>3
  <1>6. /\ (header.FIR <=> open[p].k = 0)
        /\ header.kind = "data" /\ piece.q = q
    <2>1. k = 1 <=> open[p].k = 0
      BY <1>2
    <2>2. header.kind = "data" /\ piece.q = q /\ (header.FIR <=> k = 1)
      <3> HIDE DEF k, q
      <3> QED
        OBVIOUS
    <2> HIDE DEF header, piece, k, q
    <2> QED
      BY <2>1, <2>2
  <1>7. segments'[p] = g /\ open'[p].k = k /\ open'[p].pieces = length
    <2>1. segments'[p] = g
      BY <1>1, <1>3
    <2>2. open'[p] = [msg |-> m, k |-> k, pieces |-> length]
      BY <1>1, <1>3
    <2> QED
      BY <2>1, <2>2
  <1>8. length \in Nat /\ length = IF open[p].k = 0 THEN size ELSE size + open[p].pieces
    BY <1>2, <1>4
  <1>9. PICK l \in Nat : /\ l >= sent[p].longest /\ l >= length
                         /\ sent'[p] = [sent[p] EXCEPT !.fragments = q, !.longest = l]
    <2>1. sent'[p] = [sent[p] EXCEPT !.fragments = q,
                                     !.longest = IF length > @ THEN length ELSE @]
      BY <1>1, <1>3
    <2> HIDE DEF length, q
    <2>2. PICK l \in Nat : /\ l >= sent[p].longest /\ l >= length
                           /\ l = IF length > sent[p].longest THEN length ELSE sent[p].longest
      BY <1>2, <1>8
    <2> QED
      BY <2>1, <2>2
  <1>10. sent'[p].fragments = q /\ sent'[p].longest = l /\ sent'[p].segments = sent[p].segments
    <2>1. sent[p] \in SentState
      BY <1>1
    <2> QED
      BY <1>9, <2>1 DEF SentState
  <1> HIDE DEF header, piece
  <1>11. g \in Seq(Segment) /\ Len(g) = size
         /\ IsCut(g, header, piece, size, nextTransport[p], sent[p].segments)
    BY <1>2, <1>4, <1>5, Cut
  <1>12. g[1].FIR /\ g[1].header = header /\ g[1].piece = Part(piece, 1)
    <2>1. 1 \in 1..size
      BY <1>4
    <2> QED
      BY <1>11, <2>1 DEF IsCut
  <1> HIDE DEF g
  <1>17. InLine(g, FALSE, sent[p].segments)
    BY <1>11 DEF IsCut, InLine
  <1> USE DEF g
  <1>13. g[1].piece.q = q
    BY <1>5, <1>6, <1>12, Parts
  <1>14. /\ call[p] = "idle" /\ call'[p] = "send" /\ ~waiting'[p]
         /\ UNCHANGED <<wire, transportInput, applicationInput, spoiled, rejected>>
    <2>1. call[p] = "idle" /\ ~waiting[p]
      BY DEF SendApplication, TypeInv, TypeOK
    <2> QED
      BY <1>1, <2>1 DEF SendApplication, inputVars
  <1> HIDE DEF g, k, q, length
  <1>15. /\ g[1].FIR /\ Data(g[1]) /\ g[1].piece.q = sent[p].fragments + 1
         /\ g[1].header.FIR <=> open[p].k = 0
    BY <1>6, <1>12, <1>13 DEF Data, q
  <1>16. /\ open'[p].k = open[p].k + 1
         /\ open'[p].pieces = IF open[p].k = 0 THEN size ELSE size + open[p].pieces
         /\ sent'[p].fragments = sent[p].fragments + 1
         /\ sent'[p].longest \in Nat
         /\ sent'[p].longest >= sent[p].longest /\ sent'[p].longest >= open'[p].pieces
    <2>1. k = open[p].k + 1 /\ q = sent[p].fragments + 1
      BY DEF k, q
    <2> QED
      BY <1>7, <1>8, <1>9, <1>10, <2>1
  <1> QED
    BY <1>4, <1>7, <1>10, <1>11, <1>14, <1>15, <1>16, <1>17

\* What disturbed a stream stays.
LEMMA StaysSpoiled ==
    ASSUME TypeInv, Next, NEW s \in Station
    PROVE  /\ spoiled[s] => spoiled'[s]
           /\ sent'[Peer(s)].longest >= sent[Peer(s)].longest
  <1>1. PICK p \in Station : p = Peer(s) /\ s = Peer(p) /\ p # s
    BY Stations
  <1>2. /\ sent[p] \in SentState /\ DOMAIN sent = Station /\ sent[p].longest \in Nat
        /\ spoiled \in [Station -> BOOLEAN]
    <2>1. sent[p] \in SentState
      BY DEF TypeInv
    <2> QED
      BY <2>1, SentFields DEF TypeInv
  <1>3. ASSUME spoiled[s]
        PROVE  spoiled'[s]
    <2>1. PICK a \in Station :
            \/ SendApplication(a) \/ SendUnconfirmed(a) \/ SendConfirmed(a)
            \/ Acknowledged(a) \/ SendFails(a)
            \/ ReceiveApplication(a) \/ Receive(a) \/ ConfirmFails(a) \/ ReceiveExpires(a)
            \/ ResetOrKeepAlive(a) \/ ResetOrKeepAliveReturns(a) \/ Divert(a) \/ Lose(a)
      BY DEF Next
    <2>2. CASE ConfirmFails(a) \/ Divert(a) \/ Lose(a)
      <3>1. spoiled' = [spoiled EXCEPT ![a] = TRUE]
        BY <2>2 DEF ConfirmFails, Divert, Lose
      <3> QED
        BY <1>2, <1>3, <3>1
    <2>3. CASE Receive(a)
      <3>1. (\E f : Confirm(a, f)) \/ NoConfirm(a)
        BY <2>3 DEF Receive
      <3>2. spoiled' = [spoiled EXCEPT ![Peer(a)] = @ \/ open[a].k # 0] \/ UNCHANGED spoiled
        BY <3>1 DEF Confirm, NoConfirm
      <3> QED
        BY <1>2, <1>3, <3>2
    <2>4. CASE \/ SendApplication(a) \/ SendUnconfirmed(a) \/ SendConfirmed(a)
               \/ Acknowledged(a) \/ SendFails(a) \/ ReceiveApplication(a) \/ ReceiveExpires(a)
               \/ ResetOrKeepAlive(a) \/ ResetOrKeepAliveReturns(a)
      BY <1>3, <2>4 DEF SendApplication, SendUnconfirmed, SendConfirmed, Acknowledged, SendFails,
                        ReceiveApplication, ReceiveExpires, ResetOrKeepAlive,
                        ResetOrKeepAliveReturns
    <2> QED
      BY <2>1, <2>2, <2>3, <2>4
  <1>4. sent'[p].longest >= sent[p].longest
    <2>1. CASE SendApplication(p)
      BY <2>1, SendsOne
    <2>2. CASE SendUnconfirmed(p) \/ SendConfirmed(p)
      <3>1. sent'[p] = [sent[p] EXCEPT !.segments = @ + 1]
        BY <1>2, <2>2 DEF SendUnconfirmed, SendConfirmed, WriteSegment
      <3> QED
        BY <1>2, <3>1 DEF SentState
    <2>3. CASE Acknowledged(p) \/ Divert(s) \/ Lose(s)
      BY <1>2, <2>3 DEF Acknowledged, Divert, Lose
    <2>4. CASE SendFails(p)
      <3>1. sent'[p] = [sent[p] EXCEPT !.abandoned = TRUE]
        BY <1>2, <2>4 DEF SendFails
      <3> QED
        BY <1>2, <3>1 DEF SentState
    <2>5. CASE Receive(p) \/ ConfirmFails(p)
      <3>1. PICK m : sent'[p] = sent[p] \/ sent'[p] = [sent[p] EXCEPT !.segments = m]
        BY <1>1, <2>5, ConfirmsOne, ZenonT(30)
      <3> QED
        BY <1>2, <3>1 DEF SentState
    <2>6. CASE Receive(s) \/ ConfirmFails(s)
      <3>1. UNCHANGED sent[p]
        BY <1>1, <2>6, ConfirmsOne
      <3> QED
        BY <1>2, <3>1
    <2>7. CASE Elsewhere(s, p)
      BY <1>1, <1>2, <2>7, StreamStays
    <2> QED
      BY <1>1, <2>1, <2>2, <2>3, <2>4, <2>5, <2>6, <2>7, StreamCases
  <1> QED
    BY <1>1, <1>3, <1>4

\* What the types say of the one who writes a stream.
LEMMA WriterTypes ==
    ASSUME TypeInv, NEW s \in Station
    PROVE  \E p \in Station :
             /\ p = Peer(s) /\ s = Peer(p) /\ p # s
             /\ open[p] \in OpenState /\ open[p].k \in Nat /\ open[p].pieces \in Nat
             /\ sent[p].fragments \in Nat /\ sent[p].longest \in Nat
             /\ segments[p] \in Seq(Segment) /\ wire[s] \in Seq(Segment)
             /\ (call[p] = "send" <=> segments[p] # <<>>)
             /\ waiting[p] \in BOOLEAN /\ (waiting[p] => call[p] = "send" /\ confirmed[p])
             /\ MaximumApplication[s] \in Nat
  <1>1. PICK p \in Station : p = Peer(s) /\ s = Peer(p) /\ p # s
    BY Stations
  <1>2. open[p] \in OpenState /\ open[p].k \in Nat /\ open[p].pieces \in Nat
    <2>1. open[p] \in OpenState
      BY DEF TypeInv
    <2> QED
      BY <2>1, OpenFields
  <1>3. sent[p].fragments \in Nat /\ sent[p].longest \in Nat
    <2>1. sent[p] \in SentState
      BY DEF TypeInv
    <2> QED
      BY <2>1, SentFields
  <1>4. /\ segments[p] \in Seq(Segment) /\ wire[s] \in Seq(Segment)
        /\ (call[p] = "send" <=> segments[p] # <<>>)
        /\ waiting[p] \in BOOLEAN /\ (waiting[p] => call[p] = "send" /\ confirmed[p])
    BY <1>1, StreamTypes
  <1>5. MaximumApplication[s] \in Nat
    BY Stations
  <1> QED
    BY <1>1, <1>2, <1>3, <1>4, <1>5

\* A fragment is cut.
LEMMA UnbrokenSends ==
    ASSUME TypeInv, NEW s \in Station, NEW h \in Seq(Segment), NEW pos \in Seq(Nat),
           Stream(s, h), Unbroken(s, h, pos), SendApplication(Peer(s)), ~Oversized(s)'
    PROVE  UnbrokenStream(s)'
  <1>1. PICK p \in Station :
             /\ p = Peer(s) /\ open[p].k \in Nat /\ open[p].pieces \in Nat
             /\ sent[p].fragments \in Nat
             /\ waiting[p] \in BOOLEAN /\ (waiting[p] => call[p] = "send" /\ confirmed[p])
             /\ MaximumApplication[s] \in Nat
    BY WriterTypes
  <1>2. PICK g \in Seq(Segment), m \in Nat \ {0} :
              /\ call[p] = "idle" /\ call'[p] = "send" /\ ~waiting'[p]
              /\ segments'[p] = g /\ Len(g) = m
              /\ g[1].FIR /\ Data(g[1]) /\ g[1].piece.q = sent[p].fragments + 1
              /\ (g[1].header.FIR <=> open[p].k = 0)
              /\ open'[p].k = open[p].k + 1
              /\ open'[p].pieces = IF open[p].k = 0 THEN m ELSE m + open[p].pieces
              /\ sent'[p].fragments = sent[p].fragments + 1
              /\ sent'[p].longest \in Nat
              /\ sent'[p].longest >= sent[p].longest /\ sent'[p].longest >= open'[p].pieces
              /\ UNCHANGED <<wire, transportInput, applicationInput, spoiled, rejected>>
    BY <1>1, SendsOne
  <1>3. open'[p].pieces <= MaximumApplication[s]
    <2>1. ~(sent'[p].longest > MaximumApplication[s])
      BY <1>1 DEF Oversized
    <2>2. PICK n \in Nat, l \in Nat, most \in Nat :
             n = open'[p].pieces /\ l = sent'[p].longest /\ most = MaximumApplication[s]
      BY <1>1, <1>2
    <2>3. ~(l > most) /\ l >= n
      BY <1>2, <2>1, <2>2
    <2>4. n <= most
      BY <2>3
    <2> QED
      BY <2>2, <2>4
  <1>4. Ahead(h, pos, MaximumApplication[s], call[p], segments[p], FALSE, open[p],
              sent[p].fragments)
    <2>1. Ahead(h, pos, MaximumApplication[s], call[p], segments[p], waiting[p], open[p],
                sent[p].fragments)
      BY <1>1 DEF Unbroken
    <2>2. waiting[p] = FALSE
      BY <1>1, <1>2
    <2> QED
      BY <2>1, <2>2
  <1>5. PICK v : v = open'[p] /\ v.k = open[p].k + 1 /\ v.pieces <= MaximumApplication[s]
                 /\ v.pieces = IF open[p].k = 0 THEN m ELSE m + open[p].pieces
    BY <1>2, <1>3
  <1>6. Ahead(h, pos, MaximumApplication[s], "send", g, FALSE, v, sent[p].fragments + 1)
    <2>0. PICK c, f, o : c = call[p] /\ f = segments[p] /\ o = open[p]
      OBVIOUS
    <2>1. PICK q \in Nat, most \in Nat : q = sent[p].fragments /\ most = MaximumApplication[s]
      BY <1>1
    <2>2. /\ c # "send" /\ o.k \in Nat /\ o.pieces \in Nat /\ Ahead(h, pos, most, c, f, FALSE, o, q)
          /\ g[1].piece.q = q + 1 /\ (g[1].header.FIR <=> o.k = 0)
          /\ v.k = o.k + 1 /\ v.pieces = (IF o.k = 0 THEN m ELSE m + o.pieces) /\ v.pieces <= most
      BY <1>1, <1>2, <1>4, <1>5, <2>0, <2>1
    <2>3. Ahead(h, pos, most, "send", g, FALSE, v, q + 1)
      BY <1>2, <2>2, AheadStarts, ZenonT(30)
    <2> QED
      BY <2>1, <2>3
  <1>7. Ahead(h, pos, MaximumApplication[s], call'[p], segments'[p], waiting'[p], open'[p],
              sent'[p].fragments)
    <2>1. waiting'[p] = FALSE
      <3>1. DOMAIN waiting = Station /\ waiting' = waiting
        BY <1>1 DEF SendApplication, TypeInv, TypeOK
      <3> QED
        BY <1>1, <1>2, <3>1
    <2> QED
      BY <1>2, <1>5, <1>6, <2>1
  <1>8. Unbroken(s, h, pos)'
    BY <1>1, <1>2, <1>7 DEF Unbroken
  <1>9. Stream(s, h)'
    BY StreamSends
  <1> QED
    BY <1>8, <1>9 DEF UnbrokenStream

\* A segment has been sent.
LEMMA AheadSent ==
    ASSUME TypeInv, NEW p \in Station, call[p] = "send", SegmentSent(p),
           NEW h \in Seq(Segment), NEW pos \in Seq(Nat), Len(pos) = Len(h), NEW most,
           NEW q \in Nat, Sending(h, segments[p], TRUE, q, open[p].k),
           Ahead(h, pos, most, "send", segments[p], TRUE, open[p], q)
    PROVE  Ahead(h, pos, most, call'[p], segments'[p], waiting'[p], open'[p], q)
  <1>1. open[p] \in OpenState /\ open[p].k \in Nat /\ open[p].pieces \in Nat
    <2>1. open[p] \in OpenState
      BY DEF TypeInv
    <2> QED
      BY <2>1, OpenFields
  <1>2. segments[p] \in Seq(Segment) /\ segments[p] # <<>>
    BY DEF TypeInv, TypeOK
  <1>3. PICK g \in Seq(Segment), k \in Nat, o \in OpenState :
           g = segments[p] /\ k = open[p].k /\ o = open[p] /\ g # <<>>
    BY <1>1, <1>2
  <1>4. /\ Tail(g) # <<>> => Ahead(h, pos, most, "send", Tail(g), FALSE, o, q)
        /\ Tail(g) = <<>> =>
              \A v : /\ v.k = (IF g[1].header.FIN THEN 0 ELSE k) /\ v.pieces = o.pieces
                     => Ahead(h, pos, most, "idle", Tail(g), FALSE, v, q)
    <2>1. /\ Sending(h, g, TRUE, q, k) /\ o.k = k /\ o.pieces \in Nat
          /\ Ahead(h, pos, most, "send", g, TRUE, o, q)
      BY <1>1, <1>3
    <2> QED
      BY <1>3, <2>1, AheadGoesOn
  <1>5. /\ segments'[p] = Tail(g) /\ waiting'[p] = FALSE
        /\ IF Tail(g) # <<>>
           THEN call'[p] = "send" /\ open'[p] = o
           ELSE /\ call'[p] = "idle" /\ open'[p].k = (IF g[1].header.FIN THEN 0 ELSE k)
                /\ open'[p].pieces = o.pieces
    BY <1>3, SentOne
  <1> QED
    BY <1>4, <1>5

\* A segment is written.
LEMMA UnbrokenWrites ==
    ASSUME TypeInv, NEW s \in Station, NEW h \in Seq(Segment), NEW pos \in Seq(Nat),
           Stream(s, h), Unbroken(s, h, pos), SendUnconfirmed(Peer(s)) \/ SendConfirmed(Peer(s))
    PROVE  UnbrokenStream(s)'
  <1>1. PICK p \in Station :
             /\ p = Peer(s) /\ p # s /\ open[p].k \in Nat /\ open[p].pieces \in Nat
             /\ sent[p].fragments \in Nat /\ segments[p] \in Seq(Segment)
             /\ wire[s] \in Seq(Segment) /\ (call[p] = "send" <=> segments[p] # <<>>)
             /\ waiting[p] \in BOOLEAN /\ (waiting[p] => call[p] = "send" /\ confirmed[p])
             /\ MaximumApplication[s] \in Nat
    BY WriterTypes
  <1>2. /\ call[p] = "send" /\ waiting[p] = FALSE
        /\ UNCHANGED <<transportInput, applicationInput, rejected>>
    BY <1>1 DEF SendUnconfirmed, SendConfirmed, inputVars
  <1>0. PICK o, t, a : o = open[p] /\ t = transportInput[s] /\ a = applicationInput[s]
    OBVIOUS
  <1>3. PICK g \in Seq(Segment), k \in Nat, q \in Nat, most \in Nat, w \in Seq(Segment) :
           /\ g = segments[p] /\ g # <<>> /\ k = o.k /\ o.pieces \in Nat
           /\ q = sent[p].fragments /\ most = MaximumApplication[s] /\ w = wire[s]
    BY <1>0, <1>1, <1>2
  <1>4. PICK x \in Segment : x = g[1]
    BY <1>0, <1>3, Removed
  <1>5. Stream(s, Append(h, x))' /\ wire'[s] = Append(w, x)
    BY <1>1, <1>0, <1>3, <1>4, StreamWrites
  <1>6. Steady(h, pos, most) /\ Ahead(h, pos, most, "send", g, FALSE, o, q) /\ Behind(h, pos, w, t, a)
    BY <1>1, <1>2, <1>0, <1>3 DEF Unbroken
  <1>7. Len(pos) = Len(h)
    BY <1>6 DEF Steady
  <1>8. PICK i \in Nat :
           /\ Fits(h, Len(h), x) /\ i = (IF Opens(x) THEN 1 ELSE pos[Len(h)] + 1) /\ i <= most
           /\ Ahead(Append(h, x), Append(pos, i), most, "send", g, TRUE, o, q)
    BY <1>0, <1>3, <1>4, <1>6, <1>7, AheadWrites
  <1>9. Steady(Append(h, x), Append(pos, i), most) /\ Append(pos, i) \in Seq(Nat)
    BY <1>6, <1>8, SteadyGrows
  <1>10. Behind(Append(h, x), Append(pos, i), Append(w, x), t, a)
    BY <1>6, <1>7, BehindWaits
  <1>11. PICK j \in Seq(Segment), v \in Seq(Nat) : j = Append(h, x) /\ v = Append(pos, i)
    <2>1. Append(h, x) \in Seq(Segment)
      BY Appended
    <2> QED
      BY <1>9, <2>1
  <1>12. Sending(j, g, TRUE, q, k)
    <2>1. Chain(h) /\ Begun(h, q, k) /\ Sending(h, g, FALSE, q, k)
      BY <1>1, <1>2, <1>0, <1>3 DEF Stream, Sender
    <2> QED
      BY <1>0, <1>3, <1>4, <1>11, <2>1, SendingWrites
  <1>13. sent'[p].fragments = q
    <2>1. sent[p] \in SentState /\ DOMAIN sent = Station
      BY DEF TypeInv
    <2>2. sent'[p] = [sent[p] EXCEPT !.segments = @ + 1]
      BY <1>1, <2>1 DEF SendUnconfirmed, SendConfirmed, WriteSegment
    <2> QED
      BY <1>0, <1>3, <2>1, <2>2 DEF SentState
  <1>14. Ahead(j, v, most, call'[p], segments'[p], waiting'[p], open'[p], q)
    <2>1. CASE SendUnconfirmed(p)
      <3>1. SegmentSent(p)
        BY <2>1 DEF SendUnconfirmed
      <3>2. Len(v) = Len(j)
        BY <1>9, <1>11 DEF Steady
      <3>3. Sending(j, segments[p], TRUE, q, open[p].k)
        BY <1>0, <1>3, <1>12
      <3>4. Ahead(j, v, most, "send", segments[p], TRUE, open[p], q)
        BY <1>0, <1>3, <1>8, <1>11
      <3> QED
        BY <1>2, <3>1, <3>2, <3>3, <3>4, AheadSent
    <2>2. CASE SendConfirmed(p)
      <3>1. waiting'[p] = TRUE /\ call' = call /\ segments' = segments /\ open' = open
        BY <2>2 DEF SendConfirmed, TypeInv, TypeOK
      <3>2. call'[p] = "send" /\ segments'[p] = g /\ open'[p] = o
        BY <1>2, <1>0, <1>3, <3>1
      <3> QED
        BY <1>8, <1>11, <3>1, <3>2
    <2> QED
      BY <1>1, <2>1, <2>2
  <1>15. Unbroken(s, j, v)'
    <2>1. ~rejected'[s]
      BY <1>2 DEF Unbroken
    <2>2. /\ transportInput'[s] = t /\ applicationInput'[s] = a /\ wire'[s] = Append(w, x)
          /\ sent'[Peer(s)].fragments = q
      BY <1>1, <1>2, <1>0, <1>3, <1>5, <1>13
    <2>3. Steady(j, v, MaximumApplication[s])
      BY <1>0, <1>3, <1>9, <1>11
    <2>4. Behind(j, v, wire'[s], transportInput'[s], applicationInput'[s])
      BY <1>10, <1>11, <2>2
    <2>5. Ahead(j, v, MaximumApplication[s], call'[Peer(s)], segments'[Peer(s)],
                waiting'[Peer(s)], open'[Peer(s)], sent'[Peer(s)].fragments)
      BY <1>1, <1>0, <1>3, <1>14, <2>2
    <2> QED
      BY <2>1, <2>3, <2>4, <2>5 DEF Unbroken
  <1>16. Stream(s, j)'
    BY <1>5, <1>11
  <1> QED
    BY <1>15, <1>16 DEF UnbrokenStream

\* Its acknowledgement arrives.
LEMMA UnbrokenAcknowledged ==
    ASSUME TypeInv, NEW s \in Station, NEW h \in Seq(Segment), NEW pos \in Seq(Nat),
           Stream(s, h), Unbroken(s, h, pos), Acknowledged(Peer(s))
    PROVE  UnbrokenStream(s)'
  <1>1. PICK p \in Station :
             /\ p = Peer(s) /\ sent[p].fragments \in Nat
             /\ waiting[p] \in BOOLEAN /\ (waiting[p] => call[p] = "send" /\ confirmed[p])
    BY WriterTypes
  <1>2. /\ waiting[p] = TRUE /\ call[p] = "send" /\ SegmentSent(p)
        /\ UNCHANGED <<wire, transportInput, applicationInput, sent, rejected>>
    BY <1>1 DEF Acknowledged, inputVars
  <1>3. PICK q \in Nat, most \in Nat \ {0} :
             q = sent[p].fragments /\ most = MaximumApplication[s]
    BY <1>1, Stations
  <1>4. Steady(h, pos, most) /\ Ahead(h, pos, most, "send", segments[p], TRUE, open[p], q)
    BY <1>1, <1>2, <1>3 DEF Unbroken
  <1>5. Len(pos) = Len(h)
    BY <1>4 DEF Steady
  <1>6. Sending(h, segments[p], TRUE, q, open[p].k)
    BY <1>1, <1>2, <1>3 DEF Stream, Sender
  <1>7. Ahead(h, pos, most, call'[p], segments'[p], waiting'[p], open'[p], q)
    BY <1>2, <1>4, <1>5, <1>6, AheadSent
  <1>8. Unbroken(s, h, pos)'
    BY <1>1, <1>2, <1>3, <1>7 DEF Unbroken
  <1>9. Stream(s, h)'
    BY StreamAcknowledged
  <1> QED
    BY <1>8, <1>9 DEF UnbrokenStream

\* A station that reads may confirm.
LEMMA UnbrokenConfirms ==
    ASSUME TypeInv, NEW s \in Station, NEW h \in Seq(Segment), NEW pos \in Seq(Nat),
           Stream(s, h), Unbroken(s, h, pos), Receive(Peer(s)) \/ ConfirmFails(Peer(s)),
           ~spoiled'[s]
    PROVE  UnbrokenStream(s)'
  <1>1. PICK p \in Station :
             /\ p = Peer(s) /\ s = Peer(p) /\ p # s /\ open[p].k \in Nat
             /\ sent[p].fragments \in Nat
             /\ wire[s] \in Seq(Segment)
             /\ waiting[p] \in BOOLEAN /\ (waiting[p] => call[p] = "send" /\ confirmed[p])
             /\ MaximumApplication[s] \in Nat \ {0}
    <2>1. MaximumApplication[s] \in Nat \ {0}
      BY Stations
    <2> QED
      BY <2>1, WriterTypes
  <1>2. call[p] = "receive" /\ call'[p] # "send" /\ waiting[p] = FALSE
    <2>1. call[p] = "receive" /\ call'[p] \in {"idle", "receive"}
      BY <1>1, ReadsOne
    <2> QED
      BY <1>1, <2>1
  <1>3. UNCHANGED <<transportInput[s], applicationInput[s], segments, waiting, open>>
    BY <1>1, ConfirmsOne
  <1>4. ~rejected'[s]
    <2>1. rejected' = rejected \/ \E b : rejected' = [rejected EXCEPT ![p] = b]
      <3>1. CASE ConfirmFails(p)
        BY <3>1 DEF ConfirmFails
      <3>2. CASE Receive(p)
        <4>1. \/ UNCHANGED rejected
              \/ rejected' = [rejected EXCEPT ![p] = TRUE]
              \/ \E f, g : Accept(p, f, g)
          BY <3>2 DEF Receive
        <4> QED
          BY <4>1 DEF Accept
      <3> QED
        BY <1>1, <3>1, <3>2
    <2>2. ~rejected[s] /\ DOMAIN rejected = Station
      BY DEF Unbroken, TypeInv
    <2> QED
      BY <1>1, <2>1, <2>2
  <1>5. PICK q \in Nat, most \in Nat \ {0}, w \in Seq(Segment) :
           q = sent[p].fragments /\ most = MaximumApplication[s] /\ w = wire[s]
    BY <1>1
  <1>6. PICK c, g, o, t, a : /\ c = call[p] /\ g = segments[p] /\ o = open[p]
                             /\ t = transportInput[s] /\ a = applicationInput[s]
    <2>1. PICK c, g, o : c = call[p] /\ g = segments[p] /\ o = open[p]
      OBVIOUS
    <2>2. PICK t, a : t = transportInput[s] /\ a = applicationInput[s]
      OBVIOUS
    <2> QED
      BY <2>1, <2>2
  <1>7. /\ Steady(h, pos, most) /\ Ahead(h, pos, most, c, g, FALSE, o, q) /\ Behind(h, pos, w, t, a)
        /\ c # "send"
    BY <1>1, <1>2, <1>5, <1>6 DEF Unbroken
  <1>8. Len(pos) = Len(h)
    BY <1>7 DEF Steady
  <1>9. CASE Stream(s, h)' /\ UNCHANGED <<wire[s], sent[p]>>
    <2>1. Ahead(h, pos, most, call'[p], g, FALSE, o, q)
      BY <1>2, <1>7 DEF Ahead
    <2>2. /\ segments'[Peer(s)] = g /\ waiting'[Peer(s)] = FALSE /\ open'[Peer(s)] = o
          /\ sent'[Peer(s)].fragments = q /\ wire'[s] = w
          /\ transportInput'[s] = t /\ applicationInput'[s] = a /\ call'[Peer(s)] = call'[p]
      BY <1>1, <1>2, <1>3, <1>5, <1>6, <1>9
    <2>3. Unbroken(s, h, pos)'
      BY <1>4, <1>5, <1>7, <2>1, <2>2 DEF Unbroken
    <2> QED
      BY <1>9, <2>3 DEF UnbrokenStream
  <1>10. CASE \E x \in Segment :
                /\ Stream(s, Append(h, x))' /\ wire'[s] = Append(wire[s], x)
                /\ x.FIR /\ x.header.FIR /\ x.header.FIN
                /\ spoiled'[s] = (spoiled[s] \/ open[p].k # 0)
                /\ sent'[p] = [sent[p] EXCEPT !.segments = @ + 1]
    <2>1. PICK x \in Segment :
                /\ Stream(s, Append(h, x))' /\ wire'[s] = Append(wire[s], x)
                /\ x.FIR /\ x.header.FIR /\ x.header.FIN
                /\ spoiled'[s] = (spoiled[s] \/ open[p].k # 0)
                /\ sent'[p] = [sent[p] EXCEPT !.segments = @ + 1]
      BY <1>10
    <2>2. o.k = 0
      BY <1>6, <2>1
    <2>3. /\ Fits(h, Len(h), x) /\ Opens(x)
          /\ \A b : b # "send" => Ahead(Append(h, x), Append(pos, 1), most, b, g, FALSE, o, q)
      BY <1>7, <2>1, <2>2, AheadConfirms
    <2>4. PICK one \in Nat : one = 1
      OBVIOUS
    <2>5. Steady(Append(h, x), Append(pos, one), most) /\ Append(pos, one) \in Seq(Nat)
      <3>1. one = (IF Opens(x) THEN 1 ELSE pos[Len(h)] + 1) /\ one <= most
        BY <2>3, <2>4
      <3> QED
        BY <1>7, <2>3, <3>1, SteadyGrows
    <2>6. Behind(Append(h, x), Append(pos, one), Append(w, x), t, a)
      BY <1>7, <1>8, BehindWaits
    <2>7. PICK j \in Seq(Segment), v \in Seq(Nat) : j = Append(h, x) /\ v = Append(pos, one)
      <3>1. Append(h, x) \in Seq(Segment)
        BY Appended
      <3> QED
        BY <2>5, <3>1
    <2>8. Ahead(j, v, most, call'[p], g, FALSE, o, q)
      BY <1>2, <2>3, <2>4, <2>7
    <2>9. sent'[p].fragments = q
      <3>1. sent[p] \in SentState
        BY DEF TypeInv
      <3> QED
        BY <1>5, <2>1, <3>1 DEF SentState
    <2>10. /\ segments'[Peer(s)] = g /\ waiting'[Peer(s)] = FALSE /\ open'[Peer(s)] = o
           /\ sent'[Peer(s)].fragments = q /\ wire'[s] = Append(w, x)
           /\ transportInput'[s] = t /\ applicationInput'[s] = a /\ call'[Peer(s)] = call'[p]
      BY <1>1, <1>2, <1>3, <1>5, <1>6, <2>1, <2>9
    <2>11. Steady(j, v, most) /\ Behind(j, v, Append(w, x), t, a)
      BY <2>5, <2>6, <2>7
    <2>12. Unbroken(s, j, v)'
      BY <1>4, <1>5, <2>8, <2>10, <2>11 DEF Unbroken
    <2>13. Stream(s, j)'
      BY <2>1, <2>7
    <2> QED
      BY <2>12, <2>13 DEF UnbrokenStream
  <1>11. \/ Stream(s, h)' /\ UNCHANGED <<wire[s], sent[p]>>
         \/ \E x \in Segment :
                /\ Stream(s, Append(h, x))' /\ wire'[s] = Append(wire[s], x)
                /\ x.n = Len(h) + 1 /\ ~Data(x) /\ x.piece.part = 1 /\ x.FIR /\ x.FIN
                /\ x.header.FIR /\ x.header.FIN
                /\ spoiled'[s] = (spoiled[s] \/ open[p].k # 0)
                /\ sent'[p] = [sent[p] EXCEPT !.segments = @ + 1]
    BY <1>1, StreamConfirms
  <1> QED
    BY <1>9, <1>10, <1>11

\* A station reads a segment, and refuses nothing.
LEMMA UnbrokenReads ==
    ASSUME TypeInv, NEW s \in Station, NEW h \in Seq(Segment), NEW pos \in Seq(Nat),
           Stream(s, h), Unbroken(s, h, pos), Receive(s)
    PROVE  UnbrokenStream(s)'
  <1>1. PICK p \in Station :
             /\ p = Peer(s) /\ p # s /\ wire[s] \in Seq(Segment)
             /\ MaximumApplication[s] \in Nat
    BY WriterTypes
  <1>2. /\ wire[s] # <<>> /\ wire'[s] = Tail(wire[s])
        /\ transportInput'[s] = TransportPush(s, wire[s][1]).state
    BY ReadsOne
  <1>3. PICK w \in Seq(Segment), x \in Segment :
           w = wire[s] /\ w # <<>> /\ x = w[1] /\ Head(wire[s]) = x
    <2>1. Head(wire[s]) \in Segment /\ Head(wire[s]) = wire[s][1]
      BY <1>2, Arrives
    <2> QED
      BY <1>1, <1>2, <2>1
  <1> DEFINE push == TransportPush(s, x)
             up == ApplicationPush(s, push.fragment[1].header, push.fragment)
  <1>4. UNCHANGED <<call[p], sent[p], segments, waiting, open>>
    BY <1>1, ConfirmsOne
  <1>5. /\ wire'[s] = Tail(w) /\ transportInput'[s] = push.state
        /\ IF push.result = "complete" THEN applicationInput'[s] = up.state
                                       ELSE applicationInput'[s] = applicationInput[s]
    BY <1>3, ReadsOne
  <1>6. PICK a, t : /\ a = applicationInput[s] /\ t = transportInput[s]
                    /\ a.objects \in Seq(Segment)
    <2>1. applicationInput[s].objects \in Seq(Segment)
      BY StreamTypes
    <2> QED
      BY <2>1
  <1>7. /\ Steady(h, pos, MaximumApplication[s]) /\ Behind(h, pos, w, transportInput[s], a)
        /\ ~rejected[s]
        /\ Ahead(h, pos, MaximumApplication[s], call[p], segments[p], waiting[p], open[p],
                 sent[p].fragments)
    BY <1>1, <1>3, <1>6 DEF Unbroken
  <1>8. Chain(h) /\ Receiver(h, w, transportInput[s], a, handed[s])
    BY <1>3, <1>6 DEF Stream, Sender
  <1>9. /\ push.result # "error"
        /\ push.result = "more" => Behind(h, pos, Tail(w), push.state, a)
        /\ push.result = "complete" =>
              \E r \in 1..Len(h) :
                 /\ Len(h) = r + Len(Tail(w)) /\ \A i \in 1..Len(Tail(w)) : Tail(w)[i] = h[r + i]
                 /\ h[r].FIN /\ Ready(h, pos, r, push.fragment, a)
    <2>1. PICK d : d = handed[s] /\ Receiver(h, w, transportInput[s], a, d)
      BY <1>8
    <2>2. w \in Seq(Segment) /\ w # <<>> /\ a.objects \in Seq(Segment) /\ Chain(h)
          /\ Steady(h, pos, MaximumApplication[s]) /\ Behind(h, pos, w, transportInput[s], a)
      BY <1>3, <1>6, <1>7, <1>8
    <2>3. LET got == TransportPush(s, w[1])
          IN /\ got.result # "error"
             /\ got.result = "more" => Behind(h, pos, Tail(w), got.state, a)
             /\ got.result = "complete" =>
                   \E r \in 1..Len(h) :
                      /\ Len(h) = r + Len(Tail(w)) /\ \A i \in 1..Len(Tail(w)) : Tail(w)[i] = h[r + i]
                      /\ h[r].FIN /\ Ready(h, pos, r, got.fragment, a)
      BY <2>1, <2>2, ReadFits
    <2>4. push = TransportPush(s, w[1])
      BY <1>3
    <2> HIDE DEF push
    <2> QED
      BY <2>3, <2>4
  <1>10. /\ push.result \in {"error", "more", "complete"}
         /\ push.result = "complete" => push.state = NoTransport
    BY TransportPushed
  <1>11. push.result = "complete" =>
            push.fragment \in Seq(Segment) /\ push.fragment # <<>>
            /\ Decode(push.fragment) = push.fragment[1].header
    BY <1>2, <1>3, Arrives
  <1>12. \/ push.result = "error"
         \/ push.result = "more" /\ rejected' = rejected
         \/ /\ push.result = "complete"
            /\ rejected' = [rejected EXCEPT ![s] =
                  @ \/ ApplicationPush(s, Decode(push.fragment), push.fragment).result = "error"]
    BY <1>3 DEF Receive, Accept
  <1> HIDE DEF push
  <1>13. /\ ~rejected'[s]
         /\ Behind(h, pos, Tail(w), push.state, applicationInput'[s])
    <2>1. CASE push.result = "more"
      <3>1. applicationInput'[s] = a
        BY <1>5, <1>6, <2>1
      <3>2. ~rejected'[s]
        BY <1>7, <1>12, <2>1
      <3> QED
        BY <1>9, <2>1, <3>1, <3>2
    <2>2. CASE push.result = "complete"
      <3>1. PICK g \in Seq(Segment) :
               g = push.fragment /\ g # <<>> /\ Decode(push.fragment) = g[1].header
        BY <1>11, <2>2
      <3>2. PICK r \in 1..Len(h) :
                 /\ Len(h) = r + Len(Tail(w)) /\ \A i \in 1..Len(Tail(w)) : Tail(w)[i] = h[r + i]
                 /\ h[r].FIN /\ Ready(h, pos, r, g, applicationInput[s])
        BY <1>6, <1>9, <2>2, <3>1
      <3>3. ObjectsInv(applicationInput[s])
        BY <1>6, <1>8 DEF Receiver
      <3>4. /\ ApplicationPush(s, g[1].header, g).result # "error"
            /\ Position(h, pos, r, NoTransport, ApplicationPush(s, g[1].header, g).state)
        BY <1>7, <1>8, <3>1, <3>2, <3>3, MessageFits
      <3>5. up.result # "error" /\ Position(h, pos, r, push.state, applicationInput'[s])
        <4>1. up = ApplicationPush(s, g[1].header, g)
          BY <3>1
        <4> HIDE DEF up
        <4> QED
          BY <1>5, <1>10, <2>2, <3>4, <4>1
      <3>6. ~rejected'[s]
        <4>1. rejected' = [rejected EXCEPT ![s] = @ \/ up.result = "error"]
          BY <1>12, <2>2, <3>1
        <4>2. DOMAIN rejected = Station
          BY DEF TypeInv
        <4> HIDE DEF up
        <4> QED
          BY <1>7, <3>5, <4>1, <4>2
      <3>7. r \in 0..Len(h)
        OBVIOUS
      <3> QED
        BY <3>2, <3>5, <3>6, <3>7 DEF Behind
    <2> QED
      BY <1>9, <1>10, <2>1, <2>2
  <1>14. Unbroken(s, h, pos)'
    <2>1. Ahead(h, pos, MaximumApplication[s], call'[Peer(s)], segments'[Peer(s)],
                waiting'[Peer(s)], open'[Peer(s)], sent'[Peer(s)].fragments)
      <3>1. /\ call'[Peer(s)] = call[p] /\ segments'[Peer(s)] = segments[p]
            /\ waiting'[Peer(s)] = waiting[p] /\ open'[Peer(s)] = open[p]
            /\ sent'[Peer(s)].fragments = sent[p].fragments
        BY <1>1, <1>4
      <3> QED
        BY <1>7, <3>1
    <2>2. Behind(h, pos, wire'[s], transportInput'[s], applicationInput'[s])
      BY <1>5, <1>13
    <2> QED
      BY <1>7, <1>13, <2>1, <2>2 DEF Unbroken
  <1>15. Stream(s, h)'
    BY StreamReads
  <1> QED
    BY <1>14, <1>15 DEF UnbrokenStream

\* Nothing of it changes elsewhere.
LEMMA UnbrokenStays ==
    ASSUME TypeInv, NEW s \in Station, NEW p \in Station, p = Peer(s), p # s,
           NEW h \in Seq(Segment), NEW pos \in Seq(Nat),
           Stream(s, h), Unbroken(s, h, pos), Elsewhere(s, p)
    PROVE  UnbrokenStream(s)'
  <1>1. /\ UNCHANGED <<wire[s], transportInput[s], applicationInput[s], segments[p], waiting[p],
                       open[p], sent[p]>>
        /\ call'[p] = call[p] \/ (call[p] # "send" /\ call'[p] # "send")
    BY StreamStays
  <1>2. rejected' = rejected
    BY DEF Elsewhere, SendApplication, SendUnconfirmed, SendConfirmed, Acknowledged, SendFails,
           Divert, Lose, ReceiveApplication, ReceiveExpires, ResetOrKeepAlive,
           ResetOrKeepAliveReturns
  <1>3. /\ Steady(h, pos, MaximumApplication[s])
        /\ Behind(h, pos, wire[s], transportInput[s], applicationInput[s])
        /\ ~rejected[s]
        /\ Ahead(h, pos, MaximumApplication[s], call[p], segments[p], waiting[p], open[p],
                 sent[p].fragments)
    BY DEF Unbroken
  <1>4. Ahead(h, pos, MaximumApplication[s], call'[p], segments[p], waiting[p], open[p],
              sent[p].fragments)
    <2>1. CASE call'[p] = call[p]
      BY <1>3, <2>1
    <2>2. CASE call[p] # "send" /\ call'[p] # "send"
      BY <1>3, <2>2 DEF Ahead
    <2> QED
      BY <1>1, <2>1, <2>2
  <1>5. Unbroken(s, h, pos)'
    <2>1. Ahead(h, pos, MaximumApplication[s], call'[Peer(s)], segments'[Peer(s)],
                waiting'[Peer(s)], open'[Peer(s)], sent'[Peer(s)].fragments)
      BY <1>1, <1>4
    <2>2. Behind(h, pos, wire'[s], transportInput'[s], applicationInput'[s])
      BY <1>1, <1>3
    <2> QED
      BY <1>2, <1>3, <2>1, <2>2 DEF Unbroken
  <1>6. Stream(s, h)'
    BY StreamKept
  <1> QED
    BY <1>5, <1>6 DEF UnbrokenStream

LEMMA UnbrokenBegins == Init => UnbrokenInv
  <1> SUFFICES ASSUME Init, NEW s \in Station
               PROVE  UnbrokenStream(s)
    BY DEF UnbrokenInv
  <1>1. PICK p \in Station : p = Peer(s)
    BY Stations
  <1>2. /\ call[p] = "idle" /\ wire[s] = <<>> /\ open[p].k = 0
        /\ ~transportInput[s].active /\ ~applicationInput[s].active /\ ~rejected[s]
    BY <1>1 DEF Init, NoTransport, NoApplication
  <1>3. PICK h \in Seq(Segment), pos \in Seq(Nat) : /\ h = <<>> /\ Len(h) = 0 /\ pos = <<>>
                                                    /\ Len(pos) = 0
    <2>1. <<>> \in Seq(Segment) /\ <<>> \in Seq(Nat) /\ Len(<<>>) = 0
      OBVIOUS
    <2> QED
      BY <2>1
  <1>4. Steady(h, pos, MaximumApplication[s])
    BY <1>3 DEF Steady
  <1>5. Ahead(h, pos, MaximumApplication[s], call[p], segments[p], waiting[p], open[p],
              sent[p].fragments)
    BY <1>2, <1>3 DEF Ahead
  <1>6. Behind(h, pos, wire[s], transportInput[s], applicationInput[s])
    <2>1. 0 \in 0..Len(h) /\ Len(h) = 0 + Len(h)
      BY <1>3
    <2>2. Position(h, pos, 0, transportInput[s], applicationInput[s])
      BY <1>2 DEF Position
    <2>3. \A i \in 1..Len(h) : wire[s][i] = h[0 + i]
      BY <1>3
    <2> QED
      BY <1>2, <1>3, <2>1, <2>2, <2>3 DEF Behind
  <1>7. Unbroken(s, h, pos)
    BY <1>1, <1>2, <1>4, <1>5, <1>6 DEF Unbroken
  <1>8. Stream(s, h)
    BY <1>3, StreamEmpty
  <1> QED
    BY <1>7, <1>8 DEF UnbrokenStream

LEMMA UnbrokenStep ==
    ASSUME TypeInv, UnbrokenInv, [Next]_vars
    PROVE  UnbrokenInv'
  <1> SUFFICES ASSUME NEW s \in Station, Undisturbed(s)'
               PROVE  UnbrokenStream(s)'
    BY DEF UnbrokenInv
  <1>1. PICK p \in Station : p = Peer(s) /\ p # s /\ sent[p].longest \in Nat
                             /\ MaximumApplication[s] \in Nat
    BY WriterTypes
  <1>2. CASE UNCHANGED vars
    <2>1. UNCHANGED <<call, segments, waiting, nextTransport, open, sent, wire, transportInput,
                      applicationInput, handed, spoiled, rejected>>
      BY <1>2 DEF vars
    <2>2. Undisturbed(s)
      BY <2>1 DEF Undisturbed, Oversized
    <2>3. PICK h \in Seq(Segment), pos \in Seq(Nat) : Stream(s, h) /\ Unbroken(s, h, pos)
      BY <2>2 DEF UnbrokenInv, UnbrokenStream
    <2>4. Stream(s, h)' /\ Unbroken(s, h, pos)'
      BY <2>1, <2>3 DEF Stream, Unbroken
    <2> QED
      BY <2>4 DEF UnbrokenStream
  <1>3. CASE Next
    <2>1. ~spoiled'[s] /\ ~sent'[p].abandoned /\ ~Oversized(s)'
      BY <1>1 DEF Undisturbed
    <2>2. Undisturbed(s)
      <3>1. ~spoiled[s] /\ ~sent[p].abandoned
        BY <1>1, <1>3, <2>1, StaysSpoiled, GivenUp
      <3>2. ~Oversized(s)
        <4>1. sent'[p].longest >= sent[p].longest
          BY <1>1, <1>3, StaysSpoiled
        <4>2. sent'[p].longest \in Nat
          <5>1. TypeInv'
            BY TypeStep
          <5>2. sent'[p] \in SentState
            BY <5>1 DEF TypeInv
          <5> QED
            BY <5>2, SentFields
        <4>3. ~(sent'[p].longest > MaximumApplication[s])
          BY <1>1, <2>1 DEF Oversized
        <4>4. PICK i \in Nat, j \in Nat, most \in Nat :
                 i = sent[p].longest /\ j = sent'[p].longest /\ most = MaximumApplication[s]
          BY <1>1, <4>2
        <4>5. ~(i > most)
          BY <4>1, <4>3, <4>4
        <4> QED
          BY <1>1, <4>4, <4>5 DEF Oversized
      <3> QED
        BY <1>1, <3>1, <3>2 DEF Undisturbed
    <2>3. PICK h \in Seq(Segment), pos \in Seq(Nat) : Stream(s, h) /\ Unbroken(s, h, pos)
      BY <2>2 DEF UnbrokenInv, UnbrokenStream
    <2>4. CASE SendApplication(p)
      BY <1>1, <2>1, <2>3, <2>4, UnbrokenSends
    <2>5. CASE SendUnconfirmed(p) \/ SendConfirmed(p)
      BY <1>1, <2>3, <2>5, UnbrokenWrites
    <2>6. CASE Acknowledged(p)
      BY <1>1, <2>3, <2>6, UnbrokenAcknowledged
    <2>7. CASE SendFails(p)
      BY <2>1, <2>7, Abandons
    <2>8. CASE Receive(p) \/ ConfirmFails(p)
      BY <1>1, <2>1, <2>3, <2>8, UnbrokenConfirms
    <2>9. CASE Receive(s)
      BY <2>3, <2>9, UnbrokenReads
    <2>10. CASE ConfirmFails(s) \/ Divert(s) \/ Lose(s)
      <3>1. spoiled' = [spoiled EXCEPT ![s] = TRUE] /\ DOMAIN spoiled = Station
        BY <2>10 DEF ConfirmFails, Divert, Lose, TypeInv
      <3> QED
        BY <2>1, <3>1
    <2>11. CASE Elsewhere(s, p)
      BY <1>1, <2>3, <2>11, UnbrokenStays
    <2> QED
      BY <1>1, <1>3, <2>4, <2>5, <2>6, <2>7, <2>8, <2>9, <2>10, <2>11, StreamCases
  <1> QED
    BY <1>2, <1>3

\* RefusesOnlyBrokenInput: as long as nothing is lost, disturbed or given up and
\* the messages fit, neither reassembler of ReceiveApplication refuses anything.
THEOREM RefusesNothing == Spec => []RefusesOnlyBrokenInput
  <1>1. Init => TypeInv /\ UnbrokenInv
    BY TypeInit, UnbrokenBegins
  <1>2. (TypeInv /\ UnbrokenInv) /\ [Next]_vars => (TypeInv /\ UnbrokenInv)'
    BY TypeStep, UnbrokenStep
  <1>3. TypeInv /\ UnbrokenInv => RefusesOnlyBrokenInput
    BY DEF UnbrokenInv, UnbrokenStream, Undisturbed, Unbroken, RefusesOnlyBrokenInput
  <1> QED
    BY <1>1, <1>2, <1>3, PTL DEF Spec

-----------------------------------------------------------------------------
(* The order of what is returned.  The number of segments the peer has       *)
(* written bounds every number in the stream to a station; what it has yet   *)
(* to write goes on from there, and what the station has returned, what it   *)
(* joins and what is on its way are, in this order, parts of what was written.*)

UpTo(g, n) == \A i \in 1..Len(g) : g[i].n \in 1..n

\* Of n segments written, w is on its way, g is what the transport and o what the
\* application joins, and d has been returned.
Ordered(n, w, g, o, d) ==
    /\ UpTo(w, n) /\ UpTo(g, n) /\ UpTo(o, n) /\ Increasing(w)
    /\ Before(g, w) /\ Before(o, w) /\ Before(o, g)
    /\ \A i \in 1..Len(d) : /\ d[i] # <<>> /\ UpTo(d[i], n)
                            /\ Before(d[i], w) /\ Before(d[i], g) /\ Before(d[i], o)
    /\ \A i, j \in 1..Len(d) : i < j => Before(d[i], d[j])

\* The stream to s: what its peer has yet to write and what s has of what it wrote.
InOrder(s) ==
    /\ InLine(segments[Peer(s)], waiting[Peer(s)], sent[Peer(s)].segments)
    /\ Ordered(sent[Peer(s)].segments, wire[s], transportInput[s].fragment,
               applicationInput[s].objects, handed[s])

OrderInv == \A s \in Station : InOrder(s)

\* Nothing is before or after no segments.
LEMMA NoneBefore ==
    ASSUME NEW g
    PROVE  Before(<<>>, g) /\ Before(g, <<>>) /\ UpTo(<<>>, 0) /\ \A n : UpTo(<<>>, n)
  <1>1. Len(<<>>) = 0
    OBVIOUS
  <1> QED
    BY <1>1 DEF Before, UpTo

\* The next segment is written.
LEMMA OrderWrites ==
    ASSUME NEW n \in Nat, NEW w \in Seq(Segment), NEW g \in Seq(Segment),
           NEW o \in Seq(Segment), NEW d \in Seq(Seq(Segment)), Ordered(n, w, g, o, d),
           NEW x \in Segment, x.n = n + 1
    PROVE  Ordered(n + 1, Append(w, x), g, o, d)
  <1>1. PICK v \in Seq(Segment) :
            /\ v = Append(w, x) /\ Len(w) \in Nat /\ Len(v) = Len(w) + 1 /\ v[Len(w) + 1] = x
            /\ \A i \in 1..Len(w) : v[i] = w[i]
    BY Growing
  <1>2. ASSUME NEW a, UpTo(a, n)
        PROVE  UpTo(a, n + 1) /\ (Before(a, w) => Before(a, v))
    <2>1. UpTo(a, n + 1)
      BY <1>2 DEF UpTo
    <2>2. ASSUME Before(a, w), NEW i \in 1..Len(a), NEW j \in 1..Len(v)
          PROVE  a[i].n < v[j].n
      <3>1. CASE j \in 1..Len(w)
        BY <1>1, <2>2, <3>1 DEF Before
      <3>2. CASE j = Len(w) + 1
        BY <1>1, <1>2, <3>2 DEF UpTo
      <3> QED
        BY <1>1, <3>1, <3>2
    <2> QED
      BY <2>1, <2>2 DEF Before
  <1>3. UpTo(v, n + 1)
    <2>1. ASSUME NEW j \in 1..Len(v)
          PROVE  v[j].n \in 1..(n + 1)
      <3>1. CASE j \in 1..Len(w)
        BY <1>1, <3>1 DEF Ordered, UpTo
      <3>2. CASE j = Len(w) + 1
        BY <1>1, <3>2
      <3> QED
        BY <1>1, <3>1, <3>2
    <2> QED
      BY <2>1 DEF UpTo
  <1>4. Increasing(v)
    <2>1. ASSUME NEW i \in 1..Len(v), NEW j \in 1..Len(v), i < j
          PROVE  v[i].n < v[j].n
      <3>1. i \in 1..Len(w)
        BY <1>1, <2>1
      <3>2. CASE j \in 1..Len(w)
        BY <1>1, <2>1, <3>1, <3>2 DEF Ordered, Increasing
      <3>3. CASE j = Len(w) + 1
        BY <1>1, <3>1, <3>3 DEF Ordered, UpTo
      <3> QED
        BY <1>1, <3>2, <3>3
    <2> QED
      BY <2>1 DEF Increasing
  <1>5. Ordered(n + 1, v, g, o, d)
    BY <1>2, <1>3, <1>4 DEF Ordered
  <1> QED
    BY <1>1, <1>5

\* The first of what is on its way is read: it is lost, or joins what the transport
\* has of its fragment, or is the first of one.
LEMMA OrderReads ==
    ASSUME NEW n \in Nat, NEW w \in Seq(Segment), w # <<>>, NEW g \in Seq(Segment),
           NEW o \in Seq(Segment), NEW d \in Seq(Seq(Segment)), Ordered(n, w, g, o, d),
           NEW old \in {<<>>, g}
    PROVE  /\ Ordered(n, Tail(w), g, o, d)
           /\ Ordered(n, Tail(w), <<>>, o, d)
           /\ Ordered(n, Tail(w), Append(old, w[1]), o, d)
  <1>1. PICK v \in Seq(Segment), x \in Segment :
            /\ v = Tail(w) /\ x = w[1] /\ Len(w) \in Nat \ {0} /\ Len(v) = Len(w) - 1
            /\ \A i \in 1..Len(v) : v[i] = w[i + 1]
    BY Removed
  <1>2. 1 \in 1..Len(w) /\ \A i \in 1..Len(v) : i + 1 \in 1..Len(w) /\ 1 < i + 1
    BY <1>1
  <1>3. UpTo(v, n) /\ Increasing(v) /\ x.n \in 1..n
    <2>1. UpTo(v, n) /\ x.n \in 1..n
      BY <1>1, <1>2 DEF Ordered, UpTo
    <2>2. ASSUME NEW i \in 1..Len(v), NEW j \in 1..Len(v), i < j
          PROVE  v[i].n < v[j].n
      <3>1. i + 1 \in 1..Len(w) /\ j + 1 \in 1..Len(w) /\ i + 1 < j + 1
        BY <1>2, <2>2
      <3> QED
        BY <1>1, <3>1 DEF Ordered, Increasing
    <2> QED
      BY <2>1, <2>2 DEF Increasing
  <1>4. ASSUME NEW a, Before(a, w)
        PROVE  Before(a, v) /\ \A i \in 1..Len(a) : a[i].n < x.n
    BY <1>1, <1>2, <1>4 DEF Before
  <1>5. \A i \in 1..Len(v) : x.n < v[i].n
    BY <1>1, <1>2 DEF Ordered, Increasing
  <1>6. PICK e \in Seq(Segment) : e = old
    <2>1. <<>> \in Seq(Segment) /\ (old = <<>> \/ old = g)
      OBVIOUS
    <2> QED
      BY <2>1
  <1>7. PICK b \in Seq(Segment) :
            /\ b = Append(e, x) /\ Len(e) \in Nat /\ Len(b) = Len(e) + 1
            /\ b[Len(e) + 1] = x /\ \A i \in 1..Len(e) : b[i] = e[i]
    <2>1. x \in Segment /\ e \in Seq(Segment)
      BY <1>1, <1>6
    <2>2. /\ Append(e, x) \in Seq(Segment)
          /\ Len(e) \in Nat /\ Len(Append(e, x)) = Len(e) + 1
          /\ Append(e, x)[Len(e) + 1] = x
          /\ \A i \in 1..Len(e) : Append(e, x)[i] = e[i]
      BY <2>1, Appended
    <2> QED
      BY <2>2
  <1>8. /\ UpTo(e, n) /\ Before(e, w) /\ Before(o, e)
        /\ \A i \in 1..Len(d) : Before(d[i], e)
    BY <1>6, NoneBefore DEF Ordered
  <1>9. UpTo(b, n) /\ Before(b, v)
    <2>1. ASSUME NEW i \in 1..Len(b)
          PROVE  b[i].n \in 1..n /\ \A j \in 1..Len(v) : b[i].n < v[j].n
      <3>1. CASE i \in 1..Len(e)
        BY <1>4, <1>7, <1>8, <3>1 DEF UpTo, Before
      <3>2. CASE i = Len(e) + 1
        BY <1>3, <1>5, <1>7, <3>2
      <3>3. i \in 1..Len(e) \/ i = Len(e) + 1
        BY <1>7
      <3> QED
        BY <3>1, <3>2, <3>3
    <2> QED
      BY <2>1 DEF UpTo, Before
  <1>10. ASSUME NEW a, Before(a, w), Before(a, e)
        PROVE  Before(a, b)
    <2>1. ASSUME NEW i \in 1..Len(a), NEW j \in 1..Len(b)
          PROVE  a[i].n < b[j].n
      <3>1. CASE j \in 1..Len(e)
        BY <1>7, <1>10, <3>1 DEF Before
      <3>2. CASE j = Len(e) + 1
        BY <1>4, <1>7, <1>10, <3>2
      <3> QED
        BY <1>7, <3>1, <3>2
    <2> QED
      BY <2>1 DEF Before
  <1>11. Ordered(n, v, g, o, d)
    BY <1>3, <1>4 DEF Ordered
  <1>12. Ordered(n, v, <<>>, o, d)
    BY <1>3, <1>4, NoneBefore DEF Ordered
  <1>13. Ordered(n, v, b, o, d)
    BY <1>3, <1>4, <1>8, <1>9, <1>10 DEF Ordered
  <1> QED
    BY <1>1, <1>6, <1>7, <1>11, <1>12, <1>13

\* The application is given a fragment: it is refused, joins what it has of the
\* message, or is the first of one; and the message may be returned.
LEMMA OrderJoins ==
    ASSUME NEW n \in Nat, NEW w \in Seq(Segment), NEW g \in Seq(Segment), g # <<>>,
           NEW o \in Seq(Segment), NEW d \in Seq(Seq(Segment)), Ordered(n, w, g, o, d),
           NEW old \in {<<>>, o}
    PROVE  /\ Ordered(n, w, <<>>, o, d)
           /\ Ordered(n, w, <<>>, <<>>, d)
           /\ Ordered(n, w, <<>>, old \o g, d)
           /\ Ordered(n, w, <<>>, <<>>, Append(d, old \o g))
  <1>1. old \in Seq(Segment)
    <2>1. <<>> \in Seq(Segment) /\ (old = <<>> \/ old = o)
      OBVIOUS
    <2> QED
      BY <2>1
  <1>2. PICK m \in Seq(Segment) :
            /\ m = old \o g /\ Len(old) \in Nat /\ Len(g) \in Nat /\ Len(m) = Len(old) + Len(g)
            /\ \A i \in 1..Len(old) : m[i] = old[i]
            /\ \A i \in 1..Len(g) : m[Len(old) + i] = g[i]
    <2>1. /\ old \o g \in Seq(Segment)
          /\ Len(old) \in Nat /\ Len(g) \in Nat /\ Len(old \o g) = Len(old) + Len(g)
          /\ \A i \in 1..Len(old) : (old \o g)[i] = old[i]
          /\ \A i \in 1..Len(g) : (old \o g)[Len(old) + i] = g[i]
      BY <1>1, Joining
    <2> QED
      BY <2>1
  <1>3. ASSUME NEW i \in 1..Len(m)
        PROVE  (\E j \in 1..Len(old) : m[i] = old[j]) \/ (\E j \in 1..Len(g) : m[i] = g[j])
    <2>1. CASE i <= Len(old)
      BY <1>2, <2>1
    <2>2. CASE i > Len(old)
      <3>1. i - Len(old) \in 1..Len(g) /\ i = Len(old) + (i - Len(old))
        BY <1>2, <2>2
      <3> QED
        BY <1>2, <3>1
    <2> QED
      BY <1>2, <2>1, <2>2
  <1>4. /\ UpTo(old, n) /\ Before(old, w)
        /\ \A i \in 1..Len(d) : Before(d[i], old)
    BY NoneBefore DEF Ordered
  <1>5. UpTo(m, n) /\ Before(m, w) /\ m # <<>>
    <2>1. UpTo(m, n)
      BY <1>3, <1>4 DEF Ordered, UpTo
    <2>2. Before(m, w)
      BY <1>3, <1>4 DEF Ordered, Before
    <2>3. m # <<>>
      <3>1. Len(g) # 0
        BY Nothing
      <3>2. Len(m) # 0
        BY <1>2, <3>1
      <3> QED
        BY <3>2, Nothing
    <2> QED
      BY <2>1, <2>2, <2>3
  <1>6. \A i \in 1..Len(d) : Before(d[i], m)
    BY <1>3, <1>4 DEF Ordered, Before
  <1>7. Ordered(n, w, <<>>, o, d) /\ Ordered(n, w, <<>>, <<>>, d)
    BY NoneBefore DEF Ordered
  <1>8. Ordered(n, w, <<>>, m, d)
    BY <1>5, <1>6, NoneBefore DEF Ordered
  <1>9. PICK S : S = Seq(Segment)
    OBVIOUS
  <1>10. PICK e \in Seq(S) :
            /\ e = Append(d, m) /\ Len(d) \in Nat /\ Len(e) = Len(d) + 1 /\ e[Len(d) + 1] = m
            /\ \A i \in 1..Len(d) : e[i] = d[i]
    <2>1. d \in Seq(S) /\ m \in S
      BY <1>9
    <2> QED
      BY <2>1, Growing
  <1>11. ASSUME NEW i \in 1..Len(e)
         PROVE  /\ e[i] # <<>> /\ UpTo(e[i], n) /\ Before(e[i], w)
                /\ \A j \in 1..Len(e) : i < j => Before(e[i], e[j])
    <2>1. CASE i \in 1..Len(d)
      <3>1. /\ e[i] = d[i] /\ d[i] # <<>> /\ UpTo(d[i], n) /\ Before(d[i], w)
            /\ Before(d[i], m)
        BY <1>6, <1>10, <2>1 DEF Ordered
      <3>2. ASSUME NEW j \in 1..Len(e), i < j
            PROVE  Before(d[i], e[j])
        <4>1. CASE j \in 1..Len(d)
          BY <1>10, <2>1, <3>2, <4>1 DEF Ordered
        <4>2. CASE j = Len(d) + 1
          BY <1>10, <3>1, <4>2
        <4> QED
          BY <1>10, <4>1, <4>2
      <3> QED
        BY <3>1, <3>2
    <2>2. CASE i = Len(d) + 1
      <3>1. \A j \in 1..Len(e) : ~(i < j)
        BY <1>10, <2>2
      <3> QED
        BY <1>5, <1>10, <2>2, <3>1
    <2> QED
      BY <1>10, <2>1, <2>2
  <1>12. Ordered(n, w, <<>>, <<>>, e)
    <2>1. UpTo(w, n) /\ Increasing(w)
      BY DEF Ordered
    <2> QED
      BY <1>11, <2>1, NoneBefore DEF Ordered
  <1> QED
    BY <1>2, <1>7, <1>8, <1>10, <1>12

\* The first of what is left to write is written.
LEMMA LineGoesOn ==
    ASSUME NEW g \in Seq(Segment), g # <<>>, NEW n \in Nat
    PROVE  /\ InLine(g, FALSE, n) => g[1].n = n + 1 /\ InLine(g, TRUE, n + 1)
           /\ InLine(g, TRUE, n) => InLine(Tail(g), FALSE, n)
  <1>1. PICK v \in Seq(Segment) :
            /\ v = Tail(g) /\ Len(g) \in Nat \ {0} /\ Len(v) = Len(g) - 1
            /\ \A i \in 1..Len(v) : v[i] = g[i + 1]
    BY Removed
  <1>2. 1 \in 1..Len(g) /\ \A i \in 1..Len(v) : i + 1 \in 1..Len(g)
    BY <1>1
  <1>3. InLine(g, FALSE, n) => g[1].n = n + 1 /\ InLine(g, TRUE, n + 1)
    BY <1>1, <1>2 DEF InLine
  <1>4. InLine(g, TRUE, n) => InLine(v, FALSE, n)
    <2> SUFFICES ASSUME InLine(g, TRUE, n), NEW i \in 1..Len(v)
                 PROVE  v[i].n = n + i
      BY DEF InLine
    <2>1. g[i + 1].n = n + (i + 1) - 1
      BY <1>2 DEF InLine
    <2> QED
      BY <1>1, <2>1
  <1> QED
    BY <1>1, <1>3, <1>4

\* What is written is numbered next, and the rest goes on from it.
LEMMA OrderSends ==
    ASSUME TypeInv, NEW s \in Station, InOrder(s), NEW p, p = Peer(s),
           SendApplication(p) \/ SendUnconfirmed(p) \/ SendConfirmed(p) \/ Acknowledged(p)
                \/ SendFails(p)
    PROVE  InOrder(s)'
  <1>1. /\ p \in Station /\ p # s /\ s = Peer(p) /\ waiting[p] \in BOOLEAN
        /\ (call[p] = "send" <=> segments[p] # <<>>) /\ (waiting[p] => call[p] = "send" /\ confirmed[p])
    BY StreamTypes
  <1>2. PICK n \in Nat, g \in Seq(Segment) : n = sent[p].segments /\ g = segments[p]
    BY StreamTypes
  <1>3. InLine(g, waiting[p], n) /\ Ordered(n, wire[s], transportInput[s].fragment,
                                            applicationInput[s].objects, handed[s])
    BY <1>2 DEF InOrder
  <1>4. UNCHANGED <<transportInput, applicationInput, handed>>
    BY DEF SendApplication, SendUnconfirmed, SendConfirmed, Acknowledged, SendFails, inputVars
  <1>5. CASE SendApplication(p)
    <2>1. PICK a \in Seq(Segment) :
              /\ segments'[p] = a /\ InLine(a, FALSE, sent[p].segments)
              /\ sent'[p].segments = sent[p].segments /\ ~waiting'[p] /\ UNCHANGED wire
      BY <1>1, <1>5, SendsOne
    <2>2. InLine(segments'[p], waiting'[p], n)
      BY <1>2, <2>1 DEF InLine
    <2> QED
      BY <1>2, <1>3, <1>4, <2>1, <2>2 DEF InOrder
  <1>6. CASE SendUnconfirmed(p) \/ SendConfirmed(p)
    <2>1. call[p] = "send" /\ ~waiting[p] /\ WriteSegment(p)
      BY <1>1, <1>6 DEF SendUnconfirmed, SendConfirmed
    <2>2. g # <<>>
      BY <1>1, <1>2, <2>1
    <2>3. PICK x \in Segment : x = g[1] /\ x = Head(g)
      BY <2>2, Removed
    <2>4. wire'[s] = Append(wire[s], x) /\ sent'[p].segments = n + 1
      <3>1. /\ wire' = [wire EXCEPT ![s] = Append(wire[s], x)]
            /\ sent' = [sent EXCEPT ![p].segments = @ + 1]
        BY <1>1, <1>2, <2>1, <2>3 DEF WriteSegment
      <3>2. sent \in [Station -> SentState] /\ sent[p] \in SentState
        BY <1>1 DEF TypeInv
      <3>3. sent'[p] = [sent[p] EXCEPT !.segments = @ + 1]
        BY <1>1, <3>1, <3>2
      <3>4. sent'[p].segments = sent[p].segments + 1
        BY <3>2, <3>3 DEF SentState
      <3>5. wire'[s] = Append(wire[s], x)
        BY <3>1 DEF TypeInv, TypeOK
      <3> QED
        BY <1>2, <3>4, <3>5
    <2>5. waiting[p] = FALSE
      BY <1>1, <2>1
    <2>6. x.n = n + 1 /\ InLine(g, TRUE, n + 1)
      <3>1. InLine(g, FALSE, n) /\ g \in Seq(Segment) /\ n \in Nat
        BY <1>2, <1>3, <2>5
      <3> QED
        BY <2>2, <2>3, <3>1, LineGoesOn
    <2>7. InLine(segments'[p], waiting'[p], n + 1)
      <3>1. CASE SendUnconfirmed(p)
        <4>1. segments'[p] = Tail(g) /\ waiting'[p] = FALSE
          BY <1>1, <1>2, <2>1, <3>1, SentOne DEF SendUnconfirmed
        <4>2. n + 1 \in Nat /\ g \in Seq(Segment)
          BY <1>2
        <4>3. PICK m \in Nat : m = n + 1
          BY <4>2
        <4>4. InLine(g, TRUE, m)
          BY <2>6, <4>3
        <4>5. InLine(Tail(g), FALSE, m)
          BY <2>2, <4>2, <4>3, <4>4, LineGoesOn
        <4> QED
          BY <4>1, <4>3, <4>5
      <3>2. CASE SendConfirmed(p)
        <4>1. segments'[p] = g /\ waiting'[p] = TRUE
          BY <1>1, <1>2, <3>2 DEF SendConfirmed, TypeInv, TypeOK
        <4> QED
          BY <2>6, <4>1
      <3> QED
        BY <1>6, <3>1, <3>2
    <2>8. Ordered(n + 1, Append(wire[s], x), transportInput[s].fragment,
                  applicationInput[s].objects, handed[s])
      <3>1. /\ wire[s] \in Seq(Segment) /\ transportInput[s].fragment \in Seq(Segment)
            /\ applicationInput[s].objects \in Seq(Segment) /\ handed[s] \in Seq(Seq(Segment))
        BY StreamTypes
      <3> QED
        BY <1>3, <2>6, <3>1, OrderWrites
    <2> QED
      BY <1>4, <2>4, <2>7, <2>8 DEF InOrder
  <1>7. CASE Acknowledged(p)
    <2>1. waiting[p] = TRUE /\ call[p] = "send" /\ SegmentSent(p) /\ UNCHANGED <<wire, sent>>
      BY <1>1, <1>7 DEF Acknowledged
    <2>2. segments'[p] = Tail(g) /\ waiting'[p] = FALSE /\ g # <<>>
      BY <1>1, <1>2, <2>1, SentOne
    <2>3. InLine(Tail(g), FALSE, n)
      BY <1>3, <2>1, <2>2, LineGoesOn
    <2> QED
      BY <1>2, <1>3, <1>4, <2>1, <2>2, <2>3 DEF InOrder
  <1>8. CASE SendFails(p)
    <2>1. segments'[p] = <<>> /\ UNCHANGED wire /\ sent' = [sent EXCEPT ![p].abandoned = TRUE]
      BY <1>1, <1>8 DEF SendFails, TypeInv, TypeOK
    <2>2. sent'[p].segments = n
      <3>1. sent \in [Station -> SentState] /\ sent[p] \in SentState
        BY <1>1 DEF TypeInv
      <3>2. sent'[p] = [sent[p] EXCEPT !.abandoned = TRUE]
        BY <1>1, <2>1, <3>1
      <3> QED
        BY <1>2, <3>1, <3>2 DEF SentState
    <2>3. InLine(<<>>, waiting'[p], n)
      <3>1. Len(<<>>) = 0
        OBVIOUS
      <3> QED
        BY <3>1 DEF InLine
    <2> QED
      BY <1>3, <1>4, <2>1, <2>2, <2>3 DEF InOrder
  <1> QED
    BY <1>5, <1>6, <1>7, <1>8

\* The peer of s reads, and may write a confirmation.
LEMMA OrderConfirms ==
    ASSUME TypeInv, NEW s \in Station, InOrder(s), NEW p, p = Peer(s),
           Receive(p) \/ ConfirmFails(p)
    PROVE  InOrder(s)'
  <1>1. p \in Station /\ p # s /\ s = Peer(p)
    BY StreamTypes
  <1>2. PICK n \in Nat : n = sent[p].segments
    BY StreamTypes
  <1>3. Ordered(n, wire[s], transportInput[s].fragment, applicationInput[s].objects, handed[s])
    BY <1>2 DEF InOrder
  <1>4. segments[p] = <<>> /\ UNCHANGED <<segments, waiting>>
    <2>1. call[p] = "receive"
      BY DEF Receive, ConfirmFails
    <2>2. segments[p] = <<>>
      BY <2>1, StreamTypes
    <2> QED
      BY <2>2 DEF Receive, ConfirmFails
  <1>5. \A m : InLine(segments'[p], waiting'[p], m)
    <2>1. Len(<<>>) = 0
      OBVIOUS
    <2> QED
      BY <1>4, <2>1 DEF InLine
  <1>6. PICK f :
           /\ UNCHANGED <<transportInput[s], applicationInput[s], handed[s]>>
           /\ \/ UNCHANGED <<wire[s], sent[p]>>
              \/ /\ f \in Header /\ wire'[s] = Append(wire[s], Confirmation(p, f))
                 /\ sent'[p] = [sent[p] EXCEPT !.segments = @ + 1]
    <2>1. PICK f : f = TransportPush(p, wire[p][1]).fragment[1].header
      OBVIOUS
    <2> QED
      BY <1>1, <2>1, ConfirmsOne, ZenonT(30)
  <1>7. CASE UNCHANGED <<wire[s], sent[p]>>
    BY <1>2, <1>3, <1>5, <1>6, <1>7 DEF InOrder
  <1>8. CASE /\ f \in Header /\ wire'[s] = Append(wire[s], Confirmation(p, f))
             /\ sent'[p] = [sent[p] EXCEPT !.segments = @ + 1]
    <2>1. PICK x \in Segment : x = Confirmation(p, f) /\ x.n = n + 1
      <3>1. Confirmation(p, f) \in Segment /\ Confirmation(p, f).n = sent[p].segments + 1
        BY <1>1, <1>8, Confirms
      <3> QED
        BY <1>2, <3>1
    <2>2. sent'[p].segments = n + 1
      <3>1. sent[p] \in SentState
        BY <1>1 DEF TypeInv
      <3> QED
        BY <1>2, <1>8, <3>1 DEF SentState
    <2>3. Ordered(n + 1, Append(wire[s], x), transportInput[s].fragment,
                  applicationInput[s].objects, handed[s])
      <3>1. /\ wire[s] \in Seq(Segment) /\ transportInput[s].fragment \in Seq(Segment)
            /\ applicationInput[s].objects \in Seq(Segment) /\ handed[s] \in Seq(Seq(Segment))
        BY StreamTypes
      <3> QED
        BY <1>3, <2>1, <3>1, OrderWrites
    <2> QED
      BY <1>5, <1>6, <1>8, <2>1, <2>2, <2>3 DEF InOrder
  <1> QED
    BY <1>6, <1>7, <1>8

\* What the application's reassembler joins is what it had, or nothing, and the fragment.
LEMMA ObjectsJoined ==
    ASSUME TypeInv, NEW s \in Station, NEW c \in Header, NEW f \in Seq(Segment), f # <<>>
    PROVE  \E b \in {<<>>, applicationInput[s].objects} :
              LET up == ApplicationPush(s, c, f) IN
              /\ up.result \in {"error", "more", "complete"}
              /\ up.result # "more" => up.state.objects = <<>>
              /\ up.result = "more" => up.state.objects = b \o f
              /\ up.result = "complete" => up.objects = b \o f
  <1> DEFINE up == ApplicationPush(s, c, f)
             b == IF c.FIR THEN <<>> ELSE applicationInput[s].objects
             fits == /\ IF c.FIR THEN ~applicationInput[s].active
                        ELSE /\ applicationInput[s].active
                             /\ c.Sequence = applicationInput[s].nextSequence
                             /\ c.kind = applicationInput[s].kind
                     /\ Len(b) + Len(f) <= MaximumApplication[s]
  <1>1. /\ up.result = IF ~fits THEN "error" ELSE IF c.FIN THEN "complete" ELSE "more"
        /\ up.result # "more" => up.state = NoApplication
        /\ up.result = "more" => up.state.objects = b \o f
        /\ up.result = "complete" => up.objects = b \o f
    BY ApplicationPushed
  <1>2. b \in {<<>>, applicationInput[s].objects} /\ NoApplication.objects = <<>>
    BY DEF NoApplication
  <1> HIDE DEF up, b, fits
  <1>3. up.result \in {"error", "more", "complete"}
    BY <1>1
  <1>4. /\ up.result # "more" => up.state.objects = <<>>
        /\ up.result = "more" => up.state.objects = b \o f
        /\ up.result = "complete" => up.objects = b \o f
    BY <1>1, <1>2
  <1> QED
    BY <1>2, <1>3, <1>4 DEF up

\* s reads what comes first.
LEMMA OrderReceives ==
    ASSUME TypeInv, NEW s \in Station, InOrder(s), Receive(s) \/ ConfirmFails(s)
    PROVE  InOrder(s)'
  <1>1. PICK p \in Station, n \in Nat :
            p = Peer(s) /\ p # s /\ s = Peer(p) /\ n = sent[p].segments
    BY StreamTypes
  <1>2. PICK w \in Seq(Segment), g \in Seq(Segment), o \in Seq(Segment) :
            /\ w = wire[s] /\ w # <<>> /\ g = transportInput[s].fragment
            /\ o = applicationInput[s].objects
    <2>1. /\ wire[s] \in Seq(Segment) /\ transportInput[s].fragment \in Seq(Segment)
          /\ applicationInput[s].objects \in Seq(Segment) /\ wire[s] # <<>>
      BY StreamTypes, ReadsOne
    <2> QED
      BY <2>1
  <1>3. PICK d \in Seq(Seq(Segment)) : d = handed[s]
    BY StreamTypes
  <1>4. InLine(segments[p], waiting[p], n) /\ Ordered(n, w, g, o, d)
    BY <1>1, <1>2, <1>3 DEF InOrder
  <1>5. PICK x \in Segment : x = w[1]
    BY <1>2, Removed
  <1> DEFINE push == TransportPush(s, x)
             up == ApplicationPush(s, push.fragment[1].header, push.fragment)
  <1>6. /\ wire'[s] = Tail(w) /\ transportInput'[s] = push.state
        /\ UNCHANGED <<segments, waiting>>
        /\ IF Receive(s) /\ push.result = "complete"
           THEN /\ applicationInput'[s] = up.state
                /\ handed'[s] = IF up.result = "complete" THEN Append(d, up.objects) ELSE d
           ELSE applicationInput'[s] = applicationInput[s] /\ handed'[s] = d
    BY <1>2, <1>3, <1>5, ReadsOne
  <1>7. sent'[p] = sent[p]
    BY <1>1, ConfirmsOne
  <1>8. InLine(segments'[p], waiting'[p], sent'[p].segments) /\ sent'[p].segments = n
    BY <1>1, <1>4, <1>6, <1>7
  <1>9. PICK old \in {<<>>, g} :
            /\ push.result \in {"error", "more", "complete"}
            /\ push.result # "more" => push.state.fragment = <<>>
            /\ push.result = "more" => push.state.fragment = Append(old, x)
            /\ push.result = "complete" => push.fragment = Append(old, x)
    <2>1. PICK b \in {<<>>, g} : b = IF x.FIR THEN <<>> ELSE transportInput[s].fragment
      BY <1>2
    <2>2. NoTransport.fragment = <<>>
      BY DEF NoTransport
    <2>3. /\ push.result \in {"error", "more", "complete"}
          /\ push.result # "more" => push.state = NoTransport
          /\ push.result = "more" => push.state.fragment = Append(b, x)
          /\ push.result = "complete" => push.fragment = Append(b, x)
      BY <2>1, TransportPushed
    <2> HIDE DEF push
    <2> QED
      BY <2>2, <2>3
  <1> HIDE DEF push, up
  <1>10. /\ Ordered(n, Tail(w), g, o, d)
         /\ Ordered(n, Tail(w), <<>>, o, d)
         /\ Ordered(n, Tail(w), Append(old, x), o, d)
    BY <1>1, <1>2, <1>3, <1>4, <1>5, <1>9, OrderReads
  <1>11. CASE push.result # "complete"
    <2>1. Ordered(n, Tail(w), push.state.fragment, o, d)
      BY <1>9, <1>10, <1>11
    <2> QED
      BY <1>1, <1>2, <1>6, <1>8, <1>11, <2>1 DEF InOrder
  <1>12. CASE push.result = "complete" /\ ~Receive(s)
    <2>1. Ordered(n, Tail(w), push.state.fragment, o, d)
      BY <1>9, <1>10, <1>12
    <2> QED
      BY <1>1, <1>2, <1>6, <1>8, <1>12, <2>1 DEF InOrder
  <1>13. CASE push.result = "complete" /\ Receive(s)
    <2>1. PICK f \in Seq(Segment) :
              f = push.fragment /\ f # <<>> /\ f[1].header \in Header /\ f = Append(old, x)
      <3>1. Head(w) = x
        BY <1>2, <1>5, Removed
      <3>2. /\ push.fragment \in Seq(Segment) /\ push.fragment # <<>>
            /\ push.fragment[1].header \in Header
        BY <1>2, <1>13, <3>1, Arrives DEF push
      <3> QED
        BY <1>9, <1>13, <3>2
    <2>2. PICK b \in {<<>>, o} :
              /\ up.result \in {"error", "more", "complete"}
              /\ up.result # "more" => up.state.objects = <<>>
              /\ up.result = "more" => up.state.objects = b \o f
              /\ up.result = "complete" => up.objects = b \o f
      <3>1. PICK c \in Header : c = f[1].header
        BY <2>1
      <3>2. up = ApplicationPush(s, c, f)
        BY <2>1, <3>1 DEF up
      <3>3. f \in Seq(Segment) /\ f # <<>> /\ c \in Header
        BY <2>1, <3>1
      <3>4. PICK b \in {<<>>, applicationInput[s].objects} :
              LET u == ApplicationPush(s, c, f) IN
              /\ u.result \in {"error", "more", "complete"}
              /\ u.result # "more" => u.state.objects = <<>>
              /\ u.result = "more" => u.state.objects = b \o f
              /\ u.result = "complete" => u.objects = b \o f
        BY <3>3, ObjectsJoined
      <3>5. b \in {<<>>, o}
        BY <1>2
      <3> QED
        BY <3>2, <3>4, <3>5
    <2>3. PICK v \in Seq(Segment) : v = Tail(w)
      BY <1>2, Removed
    <2>4. Ordered(n, v, f, o, d)
      BY <1>10, <2>1, <2>3
    <2>5. /\ Ordered(n, v, <<>>, <<>>, d)
          /\ Ordered(n, v, <<>>, b \o f, d)
          /\ Ordered(n, v, <<>>, <<>>, Append(d, b \o f))
      BY <1>1, <1>2, <1>3, <2>1, <2>2, <2>3, <2>4, OrderJoins
    <2>6. push.state.fragment = <<>>
      BY <1>9, <1>13
    <2>7. Ordered(n, wire'[s], transportInput'[s].fragment, applicationInput'[s].objects, handed'[s])
      BY <1>6, <1>13, <2>2, <2>3, <2>5, <2>6
    <2> QED
      BY <1>1, <1>8, <2>7 DEF InOrder
  <1> QED
    BY <1>11, <1>12, <1>13

LEMMA OrderBegins == Init => OrderInv
  <1> SUFFICES ASSUME Init, NEW s \in Station PROVE InOrder(s)
    BY DEF OrderInv
  <1>1. /\ Peer(s) \in Station /\ sent[Peer(s)].segments = 0 /\ segments[Peer(s)] = <<>>
        /\ wire[s] = <<>> /\ handed[s] = <<>>
        /\ transportInput[s].fragment = <<>> /\ applicationInput[s].objects = <<>>
    BY Stations DEF Init, NoTransport, NoApplication
  <1>2. Len(<<>>) = 0
    OBVIOUS
  <1>3. UpTo(<<>>, 0) /\ Increasing(<<>>) /\ Before(<<>>, <<>>)
    BY <1>2 DEF UpTo, Increasing, Before
  <1>4. Ordered(0, <<>>, <<>>, <<>>, <<>>)
    BY <1>2, <1>3 DEF Ordered
  <1>5. \A b, n : InLine(<<>>, b, n)
    BY <1>2 DEF InLine
  <1> QED
    BY <1>1, <1>4, <1>5 DEF InOrder

LEMMA OrderStep ==
    ASSUME TypeInv, OrderInv, [Next]_vars
    PROVE  OrderInv'
  <1> SUFFICES ASSUME NEW s \in Station PROVE InOrder(s)'
    BY DEF OrderInv
  <1>1. PICK p \in Station : p = Peer(s) /\ p # s
    BY Stations
  <1>2. InOrder(s)
    BY DEF OrderInv
  <1>3. CASE UNCHANGED vars
    BY <1>2, <1>3 DEF vars, InOrder
  <1>4. CASE Next
    <2>1. CASE SendApplication(p) \/ SendUnconfirmed(p) \/ SendConfirmed(p)
               \/ Acknowledged(p) \/ SendFails(p)
      BY <1>1, <1>2, <2>1, OrderSends
    <2>2. CASE Receive(p) \/ ConfirmFails(p)
      BY <1>1, <1>2, <2>2, OrderConfirms
    <2>3. CASE Receive(s) \/ ConfirmFails(s)
      BY <1>2, <2>3, OrderReceives
    <2>4. CASE Divert(s) \/ Lose(s)
      <3>1. wire[s] # <<>> /\ wire' = [wire EXCEPT ![s] = Tail(@)]
            /\ UNCHANGED <<segments, waiting, sent, transportInput, applicationInput, handed>>
        BY <2>4 DEF Divert, Lose, callVars, inputVars
      <3>2. wire'[s] = Tail(wire[s])
        BY <3>1 DEF TypeInv, TypeOK
      <3>3. /\ wire[s] \in Seq(Segment) /\ transportInput[s].fragment \in Seq(Segment)
            /\ applicationInput[s].objects \in Seq(Segment) /\ handed[s] \in Seq(Seq(Segment))
            /\ sent[Peer(s)].segments \in Nat
        BY StreamTypes
      <3>4. Ordered(sent[Peer(s)].segments, Tail(wire[s]), transportInput[s].fragment,
                    applicationInput[s].objects, handed[s])
        <4>1. PICK old \in {<<>>, transportInput[s].fragment} : TRUE
          OBVIOUS
        <4> QED
          BY <1>2, <3>1, <3>3, OrderReads DEF InOrder
      <3> QED
        BY <1>2, <3>1, <3>2, <3>4 DEF InOrder
    <2>5. CASE Elsewhere(s, p)
      <3>1. UNCHANGED <<wire[s], transportInput[s], applicationInput[s], handed[s],
                        segments[p], waiting[p], sent[p]>>
        BY <1>1, <2>5, StreamStays
      <3> QED
        BY <1>1, <1>2, <3>1 DEF InOrder
    <2> QED
      BY <1>1, <1>4, <2>1, <2>2, <2>3, <2>4, <2>5, StreamCases
  <1> QED
    BY <1>3, <1>4

\* JoinsOneMessage: what ReceiveApplication returns is one message of the peer,
\* complete, unless the peer had given up a send or numbers have gone round; and
\* whatever it is, it was all written after what was returned before.
THEOREM JoinsOne == Spec => []JoinsOneMessage
  <1>1. Init => TypeInv /\ StreamInv /\ OrderInv
    BY TypeInit, StreamBegins, OrderBegins
  <1>2. (TypeInv /\ StreamInv /\ OrderInv) /\ [Next]_vars => (TypeInv /\ StreamInv /\ OrderInv)'
    BY TypeStep, StreamStep, OrderStep
  <1>3. TypeInv /\ StreamInv /\ OrderInv => JoinsOneMessage
    <2> SUFFICES ASSUME TypeInv, StreamInv, OrderInv, NEW s \in Station
                 PROVE  /\ \A i \in DOMAIN handed[s] :
                              \/ Whole(handed[s][i]) \/ sent[Peer(s)].abandoned
                              \/ Wrapped(handed[s][i])
                        /\ \A i, j \in DOMAIN handed[s] :
                              i < j => Earlier(handed[s][i], handed[s][j])
      BY DEF JoinsOneMessage
    <2>1. DOMAIN handed[s] = 1..Len(handed[s]) /\ \A i \in DOMAIN handed[s] : handed[s][i] \in Seq(Segment)
      BY DEF TypeInv, TypeOK
    <2>2. ASSUME NEW i \in DOMAIN handed[s], ~sent[Peer(s)].abandoned
          PROVE  Whole(handed[s][i]) \/ Wrapped(handed[s][i])
      <3>1. PICK h \in Seq(Segment) : Stream(s, h)
        BY <2>2 DEF StreamInv
      <3> QED
        BY <2>1, <2>2, <3>1 DEF Stream, Receiver
    <2>3. ASSUME NEW i \in DOMAIN handed[s], NEW j \in DOMAIN handed[s], i < j
          PROVE  Earlier(handed[s][i], handed[s][j])
      <3>1. Before(handed[s][i], handed[s][j])
        BY <2>1, <2>3 DEF OrderInv, InOrder, Ordered
      <3>2. DOMAIN handed[s][i] = 1..Len(handed[s][i]) /\ DOMAIN handed[s][j] = 1..Len(handed[s][j])
        BY <2>1, <2>3
      <3> QED
        BY <3>1, <3>2 DEF Before, Earlier
    <2> QED
      BY <2>2, <2>3
  <1> QED
    BY <1>1, <1>2, <1>3, PTL DEF Spec

-----------------------------------------------------------------------------
(* The session implements LinkService.                                     *)

LEMMA FirstsGrow ==
    ASSUME NEW d \in Seq(Seq(Segment)), \A i \in 1..Len(d) : d[i] # <<>>,
           NEW m \in Seq(Segment), m # <<>>
    PROVE  /\ Firsts(d) \in Seq(Nat) /\ Len(d) \in Nat /\ Len(Firsts(d)) = Len(d)
           /\ \A i \in 1..Len(d) : Firsts(d)[i] = d[i][1].n
           /\ Firsts(Append(d, m)) = Append(Firsts(d), m[1].n)
  <1>1. PICK S : S = Seq(Segment)
    OBVIOUS
  <1>2. d \in Seq(S) /\ m \in S
    BY <1>1
  <1>3. \A g \in Seq(Segment) : g # <<>> => g[1].n \in Nat
    <2> TAKE g \in Seq(Segment)
    <2>1. g # <<>> => g[1] \in Segment
      BY Removed
    <2> QED
      BY <2>1, Fields
  <1>4. PICK e : /\ e = Append(d, m) /\ e \in Seq(S) /\ Len(d) \in Nat /\ Len(e) = Len(d) + 1
                 /\ e[Len(d) + 1] = m /\ \A i \in 1..Len(d) : e[i] = d[i]
    <2>1. /\ Append(d, m) \in Seq(S) /\ Len(d) \in Nat /\ Len(Append(d, m)) = Len(d) + 1
          /\ Append(d, m)[Len(d) + 1] = m /\ \A i \in 1..Len(d) : Append(d, m)[i] = d[i]
      BY <1>2, Appended
    <2> QED
      BY <2>1
  <1>5. /\ DOMAIN d = 1..Len(d) /\ DOMAIN e = 1..Len(e)
        /\ \A i \in 1..Len(d) : d[i] \in Seq(Segment)
    BY <1>1, <1>2, <1>4
  <1>6. PICK a \in Seq(Nat) : a = Firsts(d) /\ Len(a) = Len(d) /\ \A i \in 1..Len(d) : a[i] = d[i][1].n
    <2>1. \A i \in 1..Len(d) : d[i][1].n \in Nat
      BY <1>3, <1>5
    <2>2. Firsts(d) = [i \in 1..Len(d) |-> d[i][1].n]
      BY <1>5 DEF Firsts
    <2>3. Firsts(d) \in Seq(Nat) /\ Len(Firsts(d)) = Len(d)
      BY <1>4, <2>1, <2>2
    <2>4. \A i \in 1..Len(d) : Firsts(d)[i] = d[i][1].n
      BY <2>2
    <2> QED
      BY <2>3, <2>4
  <1>7. PICK b \in Seq(Nat) :
           /\ b = Append(a, m[1].n) /\ Len(b) = Len(a) + 1
           /\ b[Len(a) + 1] = m[1].n /\ \A i \in 1..Len(a) : b[i] = a[i]
    <2>1. PICK k \in Nat : k = m[1].n
      BY <1>3
    <2>2. /\ Append(a, k) \in Seq(Nat) /\ Len(Append(a, k)) = Len(a) + 1
          /\ Append(a, k)[Len(a) + 1] = k /\ \A i \in 1..Len(a) : Append(a, k)[i] = a[i]
      BY <1>6, <2>1, Appended
    <2> QED
      BY <2>1, <2>2
  <1>8. Firsts(e) = [i \in 1..Len(e) |-> e[i][1].n]
    BY <1>5 DEF Firsts
  <1>9. \A i \in 1..Len(e) : e[i][1].n = b[i]
    <2> TAKE i \in 1..Len(e)
    <2>1. CASE i \in 1..Len(d)
      BY <1>4, <1>6, <1>7, <2>1
    <2>2. CASE i = Len(d) + 1
      BY <1>4, <1>6, <1>7, <2>2
    <2> QED
      BY <1>4, <2>1, <2>2
  <1>10. b = [i \in 1..Len(e) |-> b[i]]
    <2>1. Len(b) = Len(e)
      BY <1>4, <1>6, <1>7
    <2> QED
      BY <2>1
  <1>11. Firsts(e) = b
    BY <1>8, <1>9, <1>10
  <1> QED
    BY <1>4, <1>6, <1>7, <1>11

\* One station writes at most one segment, and returns at most one message that its
\* peer wrote after those it returned before.
LEMMA ServiceMoves ==
    ASSUME TypeInv, OrderInv', NEW s \in Station, NEW p \in Station, p = Peer(s), p # s,
           DOMAIN handed' = Station,
           UNCHANGED <<sent[p].segments, handed[p]>>,
           sent'[s].segments = sent[s].segments \/ sent'[s].segments = sent[s].segments + 1,
           \/ handed'[s] = handed[s]
           \/ \E m \in Seq(Segment) : handed'[s] = Append(handed[s], m)
    PROVE  [Service!Next]_<<Offered, Returned>>
  <1>1. \A t \in Station : t = s \/ t = p
    BY Stations
  <1>2. sent[s].segments \in Nat /\ handed[s] \in Seq(Seq(Segment)) /\ s = Peer(p)
    BY StreamTypes
  <1>3. \/ Offered' = Offered
        \/ Offered' = [Offered EXCEPT ![s] = @ + 1]
    <2>1. CASE sent'[s].segments = sent[s].segments
      BY <1>1, <2>1 DEF Offered
    <2>2. CASE sent'[s].segments = sent[s].segments + 1
      BY <1>1, <2>2 DEF Offered
    <2> QED
      BY <2>1, <2>2
  <1>4. CASE handed'[s] = handed[s]
    <2>1. Returned' = Returned
      BY <1>1, <1>4 DEF Returned
    <2> QED
      BY <1>3, <2>1 DEF Service!Next, Service!Offer, Service!Station, Station
  <1>5. CASE \E m \in Seq(Segment) : handed'[s] = Append(handed[s], m)
    <2>1. PICK m \in Seq(Segment), d \in Seq(Seq(Segment)), k \in Nat :
              d = handed[s] /\ handed'[s] = Append(d, m) /\ k = sent[p].segments
      <3>1. sent[p].segments \in Nat
        BY StreamTypes
      <3> QED
        BY <1>2, <1>5, <3>1
    <2>2. PICK S : S = Seq(Segment)
      OBVIOUS
    <2>3. PICK e : /\ e = Append(d, m) /\ Len(d) \in Nat /\ Len(e) = Len(d) + 1
                   /\ e[Len(d) + 1] = m /\ \A i \in 1..Len(d) : e[i] = d[i]
      <3>1. d \in Seq(S) /\ m \in S
        BY <2>1, <2>2
      <3>2. /\ Len(d) \in Nat /\ Len(Append(d, m)) = Len(d) + 1
            /\ Append(d, m)[Len(d) + 1] = m /\ \A i \in 1..Len(d) : Append(d, m)[i] = d[i]
        BY <3>1, Appended
      <3> QED
        BY <3>2
    <2>4. /\ \A i \in 1..Len(e) : e[i] # <<>> /\ UpTo(e[i], k)
          /\ \A i, j \in 1..Len(e) : i < j => Before(e[i], e[j])
      <3>1. sent'[p].segments = k /\ handed'[s] = e
        BY <2>1, <2>3
      <3> QED
        BY <3>1 DEF OrderInv, InOrder, Ordered
    <2>5. m # <<>> /\ UpTo(m, k) /\ \A i \in 1..Len(d) : d[i] # <<>> /\ Before(d[i], m)
      <3>1. Len(d) + 1 \in 1..Len(e) /\ \A i \in 1..Len(d) : i \in 1..Len(e) /\ i < Len(d) + 1
        BY <2>3
      <3> QED
        BY <2>3, <2>4, <3>1
    <2>6. PICK a \in Seq(Nat) :
             /\ a = Firsts(d) /\ Len(a) = Len(d) /\ \A i \in 1..Len(d) : a[i] = d[i][1].n
             /\ Firsts(e) = Append(a, m[1].n)
      BY <2>1, <2>3, <2>5, FirstsGrow
    <2>7. m[1].n \in 1..k /\ \A i \in 1..Len(d) : d[i][1].n < m[1].n
      <3>1. \A g \in Seq(Segment) : g # <<>> => 1 \in 1..Len(g)
        BY Removed
      <3>2. \A i \in 1..Len(d) : d[i] \in Seq(Segment)
        BY <2>1
      <3> QED
        BY <2>1, <2>5, <3>1, <3>2 DEF UpTo, Before
    <2>8. m[1].n \in (Service!LastOf(a) + 1)..k
      <3>1. CASE a = <<>>
        BY <2>1, <2>7, <3>1 DEF Service!LastOf
      <3>2. CASE a # <<>>
        <4>1. Len(a) \in 1..Len(d) /\ a[Len(a)] \in Nat
          BY <2>6, <3>2
        <4>2. a[Len(a)] < m[1].n
          BY <2>6, <2>7, <4>1
        <4> QED
          <5>1. Service!LastOf(a) = a[Len(a)]
            BY <3>2 DEF Service!LastOf
          <5>2. PICK x \in Nat, y \in 1..k : x = a[Len(a)] /\ y = m[1].n
            BY <2>7, <4>1
          <5>3. y \in (x + 1)..k
            BY <4>2, <5>2
          <5> QED
            BY <5>1, <5>2, <5>3
      <3> QED
        BY <3>1, <3>2
    <2>9. /\ Returned[s] = a /\ Offered[Service!Peer(s)] = k
          /\ Returned' = [Returned EXCEPT ![s] = Append(@, m[1].n)]
      <3>1. Returned[s] = a
        BY <2>1, <2>6 DEF Returned
      <3>2. Service!Peer(s) = p
        BY DEF Service!Peer, Peer
      <3>3. Offered[p] = k
        BY <2>1 DEF Offered
      <3>4. handed'[s] = e
        BY <2>1, <2>3
      <3>5. \A t \in Station : Firsts(handed'[t]) = IF t = s THEN Append(a, m[1].n)
                                                      ELSE Firsts(handed[t])
        BY <1>1, <2>6, <3>4
      <3>6. Returned' = [Returned EXCEPT ![s] = Append(a, m[1].n)]
        BY <3>5 DEF Returned
      <3> QED
        BY <3>1, <3>2, <3>3, <3>6
    <2>10. \E n \in (Service!LastOf(Returned[s]) + 1)..Offered[Service!Peer(s)] :
               Returned' = [Returned EXCEPT ![s] = Append(@, n)]
      BY <2>8, <2>9
    <2>11. Service!Deliver(s) \/ Service!DeliverAndAnswer(s)
      BY <1>3, <2>10 DEF Service!Deliver, Service!DeliverAndAnswer
    <2> QED
      BY <2>11 DEF Service!Next, Service!Station, Station
  <1> QED
    BY <1>4, <1>5

\* What Receive and ConfirmFails return is in segments.
LEMMA Returns ==
    ASSUME TypeInv, NEW s \in Station, Receive(s) \/ ConfirmFails(s)
    PROVE  handed'[s] = handed[s] \/ \E m \in Seq(Segment) : handed'[s] = Append(handed[s], m)
  <1>1. wire[s] # <<>> /\ Head(wire[s]) = wire[s][1] /\ Head(wire[s]) \in Segment
    <2>1. wire[s] # <<>>
      BY DEF Receive, ConfirmFails
    <2> QED
      BY <2>1, Arrives
  <1> DEFINE push == TransportPush(s, wire[s][1])
             up == ApplicationPush(s, push.fragment[1].header, push.fragment)
  <1>2. /\ IF Receive(s) /\ push.result = "complete"
           THEN handed'[s] = IF up.result = "complete" THEN Append(handed[s], up.objects)
                                                       ELSE handed[s]
           ELSE handed'[s] = handed[s]
    BY ReadsOne
  <1>3. push.result = "complete" => up.objects \in Seq(Segment)
    <2> SUFFICES ASSUME push.result = "complete" PROVE up.objects \in Seq(Segment)
      OBVIOUS
    <2>1. /\ push.fragment \in Seq(Segment) /\ push.fragment # <<>>
          /\ push.fragment[1].header \in Header
      BY <1>1, Arrives
    <2> HIDE DEF push
    <2> QED
      BY <2>1, ApplicationPushed
  <1> HIDE DEF push, up
  <1> QED
    BY <1>2, <1>3

\* What a step does to the numbers LinkService sees.
LEMMA ServiceStep ==
    ASSUME TypeInv, OrderInv', [Next]_vars
    PROVE  [Service!Next]_<<Offered, Returned>>
  <1>1. CASE UNCHANGED vars
    BY <1>1 DEF vars, Offered, Returned
  <1>2. CASE Next
    <2>1. PICK s \in Station :
            \/ SendApplication(s) \/ SendUnconfirmed(s) \/ SendConfirmed(s)
            \/ Acknowledged(s) \/ SendFails(s)
            \/ ReceiveApplication(s) \/ Receive(s) \/ ConfirmFails(s) \/ ReceiveExpires(s)
            \/ ResetOrKeepAlive(s) \/ ResetOrKeepAliveReturns(s) \/ Divert(s) \/ Lose(s)
      BY <1>2 DEF Next
    <2>2. PICK p \in Station : p = Peer(s) /\ p # s /\ s = Peer(p)
      BY Stations
    <2>3. /\ sent \in [Station -> SentState] /\ sent[s] \in SentState /\ sent[s].segments \in Nat
          /\ DOMAIN handed = Station
      BY SentFields DEF TypeInv, TypeOK
    <2>4. CASE SendApplication(s)
      <3>1. sent'[s].segments = sent[s].segments
        BY <2>4, SendsOne
      <3>2. Elsewhere(s, p)
        BY <2>4 DEF Elsewhere
      <3>3. UNCHANGED sent[p]
        BY <2>2, <3>2, StreamStays
      <3>4. UNCHANGED handed
        BY <2>4 DEF SendApplication
      <3> QED
        BY <2>2, <2>3, <3>1, <3>3, <3>4, ServiceMoves
    <2>5. CASE SendUnconfirmed(s) \/ SendConfirmed(s)
      <3>1. sent' = [sent EXCEPT ![s].segments = @ + 1] /\ UNCHANGED handed
        BY <2>5 DEF SendUnconfirmed, SendConfirmed, WriteSegment
      <3>2. sent'[s] = [sent[s] EXCEPT !.segments = @ + 1] /\ UNCHANGED sent[p]
        BY <2>2, <2>3, <3>1
      <3>3. sent'[s].segments = sent[s].segments + 1
        BY <2>3, <3>2 DEF SentState
      <3> QED
        BY <2>2, <2>3, <3>1, <3>2, <3>3, ServiceMoves
    <2>6. CASE SendFails(s)
      <3>1. sent' = [sent EXCEPT ![s].abandoned = TRUE] /\ UNCHANGED handed
        BY <2>6 DEF SendFails
      <3>2. sent'[s] = [sent[s] EXCEPT !.abandoned = TRUE] /\ UNCHANGED sent[p]
        BY <2>2, <2>3, <3>1
      <3>3. sent'[s].segments = sent[s].segments
        BY <2>3, <3>2 DEF SentState
      <3> QED
        BY <2>2, <2>3, <3>1, <3>2, <3>3, ServiceMoves
    <2>7. CASE Receive(s) \/ ConfirmFails(s)
      <3>1. UNCHANGED <<handed[p], sent[p]>>
            /\ (UNCHANGED sent[s] \/ sent'[s] = [sent[s] EXCEPT !.segments = @ + 1])
        BY <2>2, <2>7, ConfirmsOne
      <3>2. sent'[s].segments = sent[s].segments \/ sent'[s].segments = sent[s].segments + 1
        BY <2>3, <3>1 DEF SentState
      <3>3. handed'[s] = handed[s] \/ \E m \in Seq(Segment) : handed'[s] = Append(handed[s], m)
        BY <2>7, Returns
      <3>4. DOMAIN handed' = Station
        BY TypeStep DEF TypeInv, TypeOK
      <3> QED
        BY <2>2, <3>1, <3>2, <3>3, <3>4, ServiceMoves
    <2>8. CASE \/ Acknowledged(s) \/ ReceiveApplication(s) \/ ReceiveExpires(s)
               \/ ResetOrKeepAlive(s) \/ ResetOrKeepAliveReturns(s) \/ Divert(s) \/ Lose(s)
      <3>1. UNCHANGED <<sent, handed>>
        BY <2>8 DEF Acknowledged, ReceiveApplication, ReceiveExpires, ResetOrKeepAlive,
                    ResetOrKeepAliveReturns, Divert, Lose
      <3> QED
        BY <3>1 DEF Offered, Returned
    <2> QED
      BY <2>1, <2>4, <2>5, <2>6, <2>7, <2>8
  <1> QED
    BY <1>1, <1>2

\* What ReceiveApplication returns, taken by the number of its first segment, was
\* written by the peer (SendApplication, sendApplicationLocked), and comes in the
\* order written and never twice: the two sessions keep the promise of the link.
THEOREM ImplementsService == Spec => MessageService
  <1>1. Init => Service!Init
    <2> SUFFICES ASSUME Init PROVE Service!Init
      OBVIOUS
    <2>1. Firsts(<<>>) = <<>>
      BY DEF Firsts
    <2>2. \A s \in Station : handed[s] = <<>> /\ sent[s].segments = 0
      BY DEF Init
    <2> QED
      BY <2>1, <2>2 DEF Service!Init, Service!Station, Station, Offered, Returned
  <1>2. TypeInv /\ OrderInv' /\ [Next]_vars => [Service!Next]_<<Offered, Returned>>
    BY ServiceStep
  <1>3. Init => TypeInv /\ OrderInv
    BY TypeInit, OrderBegins
  <1>4. (TypeInv /\ OrderInv) /\ [Next]_vars => (TypeInv /\ OrderInv)'
    BY TypeStep, OrderStep
  <1> QED
    BY <1>1, <1>2, <1>3, <1>4, PTL DEF Spec, MessageService, Service!Spec
=============================================================================
