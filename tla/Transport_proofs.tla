---------------------------- MODULE Transport_proofs ----------------------------
(***************************************************************************)
(* Theorems about Transport, for any numbers of senders, segments,         *)
(* messages and resets.                                                    *)
(*                                                                         *)
(* The argument: all that was written since the number was last reset is a *)
(* sequence h of segments, of which the state holds only what is on its    *)
(* way; the invariant says that there is such an h (Stream), that what is  *)
(* on its way, held or in the buffer are elements of h in the order of h,  *)
(* and that between the element processed last and the end of h no more    *)
(* are missing than were lost (Missing). With fewer losses than numbers,   *)
(* the element with the number expected is then the next one.              *)
(***************************************************************************)
EXTENDS Transport, Integers, SequenceTheorems, TLAPS

-----------------------------------------------------------------------------
(* Facts about sequences, and about numbers that go round.                 *)

LEMMA Appended ==
    ASSUME NEW S, NEW s \in Seq(S), NEW x \in S
    PROVE  /\ Append(s, x) \in Seq(S)
           /\ Len(s) \in Nat /\ Len(Append(s, x)) = Len(s) + 1
           /\ Append(s, x)[Len(s) + 1] = x
           /\ \A i \in 1..Len(s) : Append(s, x)[i] = s[i] /\ s[i] \in S
  OBVIOUS

LEMMA Removed ==
    ASSUME NEW S, NEW s \in Seq(S), s # <<>>
    PROVE  /\ Tail(s) \in Seq(S)
           /\ Len(s) \in Nat \ {0} /\ Len(Tail(s)) = Len(s) - 1
           /\ Head(s) = s[1] /\ s[1] \in S
           /\ \A i \in 1..Len(Tail(s)) : Tail(s)[i] = s[i + 1]
  OBVIOUS

LEMMA Nothing ==
    ASSUME NEW S, NEW s \in Seq(S)
    PROVE  s = <<>> <=> Len(s) = 0
  OBVIOUS

LEMMA Within ==
    ASSUME NEW S, NEW s \in Seq(S)
    PROVE  Len(s) \in Nat /\ \A i \in 1..Len(s) : s[i] \in S
  OBVIOUS

LEMMA Joining ==
    ASSUME NEW S, NEW a \in Seq(S), NEW b \in Seq(S)
    PROVE  /\ a \o b \in Seq(S)
           /\ Len(a) \in Nat /\ Len(b) \in Nat /\ Len(a \o b) = Len(a) + Len(b)
           /\ \A i \in 1..Len(a) : (a \o b)[i] = a[i]
           /\ \A i \in 1..Len(b) : (a \o b)[Len(a) + i] = b[i]
  OBVIOUS

LEMMA Divides ==
    ASSUME NEW M \in Nat \ {0}, NEW a \in Nat
    PROVE  \E q \in Nat, r \in 0..(M - 1) : a = M * q + r /\ a % M = r
  OBVIOUS

LEMMA Remainder ==
    ASSUME NEW M \in Nat \ {0}, NEW q \in Nat, NEW r \in 0..(M - 1)
    PROVE  (M * q + r) % M = r
  OBVIOUS

\* Two numbers that look the same are the same, or a cycle apart.
LEMMA Cycle ==
    ASSUME NEW M \in Nat \ {0}, NEW a \in Nat, NEW b \in Nat, a % M = b % M, a < b
    PROVE  b >= a + M
  <1>1. PICK x \in Nat, r \in 0..(M - 1) : a = M * x + r /\ a % M = r
    BY Divides
  <1>2. PICK y \in Nat, t \in 0..(M - 1) : b = M * y + t /\ b % M = t
    BY Divides
  <1>3. M * x < M * y
    BY <1>1, <1>2
  <1>4. x < y
    BY <1>3
  <1>5. M * (y - x) >= M
    BY <1>4
  <1> QED
    BY <1>1, <1>2, <1>5

LEMMA AddCycle ==
    ASSUME NEW M \in Nat \ {0}, NEW a \in Nat, NEW b \in Nat
    PROVE  ((a % M) + b) % M = (a + b) % M
  <1>1. PICK x \in Nat, r \in 0..(M - 1) : a = M * x + r /\ a % M = r
    BY Divides
  <1>2. PICK y \in Nat, t \in 0..(M - 1) : r + b = M * y + t /\ (r + b) % M = t
    BY Divides
  <1>3. a + b = M * (x + y) + t
    BY <1>1, <1>2
  <1>4. (M * (x + y) + t) % M = t
    BY Remainder
  <1> QED
    BY <1>1, <1>2, <1>3, <1>4

LEMMA Least ==
    ASSUME NEW M \in Nat \ {0}, NEW a \in Nat
    PROVE  a % M \in 0..(M - 1)
  OBVIOUS

-----------------------------------------------------------------------------
(* Type correctness.                                                       *)

LEMMA Sizes ==
    /\ Modulus \in Nat \ {0} /\ Capacity \in Nat /\ MaxSegments \in Nat \ {0}
    /\ MaxMessages \in Nat /\ MaxLosses \in Nat /\ MaxResets \in Nat
    /\ 0 \in Seq64
  BY TransportAssumption DEF Seq64

LEMMA Empty ==
    ASSUME NEW S
    PROVE  <<>> \in Seq(S) /\ Len(<<>>) = 0
  OBVIOUS

LEMMA Numbers ==
    ASSUME NEW a \in Nat
    PROVE  a % Modulus \in Seq64 /\ a % Modulus \in Nat
  BY Least, Sizes DEF Seq64

\* What a message is cut into.
IsCut(g, m, n, start) ==
    \A i \in 1..n :
        /\ g[i].seq = (start + i - 1) % Modulus
        /\ (g[i].fir <=> i = 1) /\ (g[i].fin <=> i = n)
        /\ g[i].data.message = m /\ g[i].data.index = i

LEMMA Cut ==
    ASSUME NEW m \in 1..MaxMessages, NEW n \in 1..MaxSegments, NEW start \in Nat
    PROVE  /\ SegmentData(m, n, start) \in Seq(Segment)
           /\ Len(SegmentData(m, n, start)) = n
           /\ IsCut(SegmentData(m, n, start), m, n, start)
  <1> DEFINE g == SegmentData(m, n, start)
  <1>1. n \in Nat \ {0}
    BY Sizes
  <1>2. \A i \in 1..n : (start + i - 1) % Modulus \in Seq64
    <2> TAKE i \in 1..n
    <2>1. start + i - 1 \in Nat
      BY <1>1
    <2> QED
      BY <2>1, Numbers
  <1>3. \A i \in 1..n : i \in 1..MaxSegments
    BY <1>1, Sizes
  <1>4. \A i \in 1..n :
           /\ g[i] \in Segment
           /\ g[i].seq = (start + i - 1) % Modulus
           /\ g[i].fir = (i = 1) /\ g[i].fin = (i = n)
           /\ g[i].data.message = m /\ g[i].data.index = i
    BY <1>2, <1>3 DEF SegmentData, Segment, Piece
  <1>5. g = [i \in 1..n |-> g[i]]
    BY DEF SegmentData
  <1> HIDE DEF g
  <1>6. g \in Seq(Segment) /\ Len(g) = n
    <2>1. DOMAIN g = 1..n /\ g \in [1..n -> Segment]
      BY <1>4, <1>5
    <2> QED
      BY <1>1, <2>1
  <1>7. IsCut(g, m, n, start)
    BY <1>4 DEF IsCut
  <1> QED
    BY <1>6, <1>7 DEF g

SendState == [advance : 0..MaxSegments, left : Seq(Segment)]

LEMMA SendFields ==
    ASSUME NEW x \in SendState
    PROVE  /\ x.advance \in 0..MaxSegments /\ x.advance \in Nat /\ x.left \in Seq(Segment)
           /\ x = NotSending <=> (x.advance = 0 /\ x.left = <<>>)
           /\ [x EXCEPT !.advance = 0] \in SendState
           /\ [x EXCEPT !.advance = 0].left = x.left /\ [x EXCEPT !.advance = 0].advance = 0
           /\ \A l \in Seq(Segment) :
                  /\ [x EXCEPT !.left = l] \in SendState
                  /\ [x EXCEPT !.left = l].left = l /\ [x EXCEPT !.left = l].advance = x.advance
  BY Sizes DEF SendState, NotSending

LEMMA SegmentFields ==
    ASSUME NEW x \in Segment
    PROVE  /\ x.fir \in BOOLEAN /\ x.fin \in BOOLEAN /\ x.seq \in Seq64 /\ x.seq \in Nat
           /\ x.data \in Piece
           /\ x.data.message \in 1..MaxMessages /\ x.data.message \in Nat
           /\ x.data.index \in 1..MaxSegments /\ x.data.index \in Nat \ {0}
  BY Sizes DEF Segment, Piece, Seq64

\* Everything has its type; a segment that is being processed is one, and what is
\* accepted fits.
TypeInv ==
    /\ TypeOK
    /\ place # "idle" => segment \in Segment
    /\ place = "accepted" => Len(buffer) + 1 <= Capacity

\* What the type invariant says of the variables one by one.
LEMMA Types ==
    ASSUME TypeInv
    PROVE  /\ txSequence \in Seq64 /\ txSequence \in Nat
           /\ sending \in [Sender -> SendState]
           /\ wire \in Seq(Segment)
           /\ buffer \in Seq(Piece)
           /\ expectedSeq \in Seq64 /\ expectedSeq \in Nat
           /\ inProgress \in BOOLEAN /\ raced \in BOOLEAN
           /\ budget.losses \in 0..MaxLosses /\ budget.losses \in Nat
           /\ count \in Seq(1..MaxSegments) /\ Len(count) \in Nat
           /\ received \in Seq(Seq(Piece))
  BY Sizes DEF TypeInv, TypeOK, SendState, Seq64

LEMMA Spent ==
    ASSUME TypeInv, NEW what \in {"losses", "resets"}, NEW n \in Nat, Spend(what, n)
    PROVE  /\ budget' \in [losses : 0..MaxLosses, resets : 0..MaxResets]
           /\ budget'.losses = IF what = "losses" THEN budget.losses - n ELSE budget.losses
  BY Sizes DEF TypeInv, TypeOK, Spend

LEMMA Cleared ==
    ASSUME buffer' = <<>>, inProgress' = FALSE, expectedSeq' = 0
    PROVE  /\ buffer' \in Seq(Piece) /\ Len(buffer') = 0
           /\ Len(buffer') <= Capacity
           /\ expectedSeq' \in Seq64 /\ inProgress' \in BOOLEAN
  <1>1. buffer' \in Seq(Piece) /\ Len(buffer') = 0
    BY Empty
  <1>2. 0 <= Capacity
    BY Sizes
  <1> QED
    BY <1>1, <1>2, Sizes

LEMMA TypeInit == Init => TypeInv
  <1> SUFFICES ASSUME Init PROVE TypeInv
    OBVIOUS
  <1>1. NotSending \in SendState
    BY Sizes DEF NotSending, SendState
  <1>2. sending \in [Sender -> SendState]
    BY <1>1 DEF Init
  <1>3. budget \in [losses : 0..MaxLosses, resets : 0..MaxResets]
    BY Sizes DEF Init
  <1>4. /\ wire \in Seq(Segment) /\ buffer \in Seq(Piece) /\ Len(buffer) = 0
        /\ count \in Seq(1..MaxSegments) /\ Len(count) = 0 /\ received \in Seq(Seq(Piece))
    BY Empty DEF Init
  <1>5. Len(buffer) <= Capacity /\ Len(count) <= MaxMessages
    BY <1>4, Sizes
  <1>6. /\ txSequence \in Seq64 /\ expectedSeq \in Seq64 /\ inProgress \in BOOLEAN
        /\ raced \in BOOLEAN /\ spoiled \subseteq 1..MaxMessages
        /\ place = "idle" /\ segment \in Segment \cup {NoSegment}
    BY Sizes DEF Init
  <1> QED
    BY <1>2, <1>3, <1>4, <1>5, <1>6 DEF TypeInv, TypeOK, SendState

LEMMA TypeNext == TypeInv /\ [Next]_vars => TypeInv'
  <1> SUFFICES ASSUME TypeInv, [Next]_vars PROVE TypeInv'
    OBVIOUS
  <1> USE Types DEF TypeInv
  <1>1. ASSUME NEW s \in Sender, SendReads(s) PROVE TypeInv'
    <2>1. PICK n \in 1..MaxSegments :
            /\ count' = Append(count, n)
            /\ sending' = [sending EXCEPT ![s] =
                   [advance |-> n, left |-> SegmentData(Len(count) + 1, n, txSequence)]]
      BY <1>1 DEF SendReads
    <2>2. Len(count) + 1 \in 1..MaxMessages
      BY <1>1, Sizes DEF SendReads
    <2>3. PICK g \in Seq(Segment) : g = SegmentData(Len(count) + 1, n, txSequence)
      BY <2>2, Cut
    <2>4. [advance |-> n, left |-> g] \in SendState
      BY Sizes DEF SendState
    <2>5. sending' \in [Sender -> SendState]
      BY <2>1, <2>3, <2>4
    <2>6. count' \in Seq(1..MaxSegments) /\ Len(count') = Len(count) + 1
      BY <2>1, Appended
    <2>7. raced' \in BOOLEAN
      BY <1>1 DEF SendReads
    <2> QED
      BY <1>1, <2>2, <2>5, <2>6, <2>7
      DEF SendReads, TypeOK, SendState, readVars, rxVars
  <1>2. ASSUME NEW s \in Sender, SendAdvances(s) PROVE TypeInv'
    <2>1. sending' \in [Sender -> SendState]
      <3>1. sending' = [sending EXCEPT ![s] = [sending[s] EXCEPT !.advance = 0]]
        BY <1>2 DEF SendAdvances
      <3> QED
        BY <3>1, SendFields
    <2>2. txSequence' \in Seq64
      <3>1. txSequence + sending[s].advance \in Nat
        <4>1. sending[s].advance \in Nat
          BY SendFields
        <4> QED
          BY <4>1
      <3> QED
        BY <1>2, <3>1, Numbers DEF SendAdvances
    <2> QED
      BY <1>2, <2>1, <2>2 DEF SendAdvances, TypeOK, SendState, readVars, rxVars
  <1>3. ASSUME NEW s \in Sender, WriteSegment(s) PROVE TypeInv'
    <2>1. PICK l \in Seq(Segment) : l = sending[s].left /\ l # <<>>
      BY <1>3, SendFields DEF WriteSegment, Writing
    <2>2. Tail(l) \in Seq(Segment) /\ Head(l) \in Segment
      BY <2>1, Removed
    <2>3. sending' = [sending EXCEPT ![s] = [sending[s] EXCEPT !.left = Tail(l)]]
      BY <1>3, <2>1 DEF WriteSegment
    <2>4. sending' \in [Sender -> SendState]
      BY <2>2, <2>3, SendFields
    <2>5. wire' \in Seq(Segment)
      BY <1>3, <2>1, <2>2, Appended DEF WriteSegment
    <2> QED
      BY <1>3, <2>4, <2>5 DEF WriteSegment, TypeOK, SendState, readVars, rxVars
  <1>4. ASSUME NEW s \in Sender, WriteFails(s) PROVE TypeInv'
    <2>1. PICK l \in Seq(Segment) : l = sending[s].left /\ l # <<>>
      BY <1>4, SendFields DEF WriteFails, Writing
    <2>2. Len(l) \in Nat /\ Head(l) \in Segment
      BY <2>1, Removed
    <2>3. NotSending \in SendState
      BY Sizes DEF NotSending, SendState
    <2>4. sending' \in [Sender -> SendState]
      BY <1>4, <2>3 DEF WriteFails
    <2>5. budget' \in [losses : 0..MaxLosses, resets : 0..MaxResets]
      BY <1>4, <2>1, <2>2, Spent DEF WriteFails
    <2>6. spoiled' \subseteq 1..MaxMessages
      BY <1>4, <2>1, <2>2, SegmentFields DEF WriteFails, TypeOK
    <2> QED
      BY <1>4, <2>4, <2>5, <2>6 DEF WriteFails, TypeOK, SendState, readVars, rxVars
  <1>5. ASSUME LoseSegment PROVE TypeInv'
    <2>1. Tail(wire) \in Seq(Segment) /\ Head(wire) \in Segment
      BY <1>5, Removed DEF LoseSegment
    <2>2. budget' \in [losses : 0..MaxLosses, resets : 0..MaxResets]
      BY <1>5, Spent DEF LoseSegment
    <2>3. spoiled' \subseteq 1..MaxMessages
      BY <1>5, <2>1, SegmentFields DEF LoseSegment, TypeOK
    <2> QED
      BY <1>5, <2>1, <2>2, <2>3 DEF LoseSegment, TypeOK, sendVars, readVars, rxVars
  <1>6. ASSUME TakeSegment PROVE TypeInv'
    <2>1. Tail(wire) \in Seq(Segment) /\ Head(wire) \in Segment
      BY <1>6, Removed DEF TakeSegment
    <2> QED
      BY <1>6, <2>1 DEF TakeSegment, TypeOK, sendVars, rxVars
  <1>7. ASSUME ProcessDiscards PROVE TypeInv'
    <2>1. /\ buffer' \in Seq(Piece) /\ Len(buffer') <= Capacity
          /\ expectedSeq' \in Seq64 /\ inProgress' \in BOOLEAN
      <3>1. CASE UNCHANGED rxVars
        BY <3>1 DEF rxVars, TypeOK
      <3>2. CASE Clear
        BY <3>2, Cleared DEF Clear
      <3> QED
        BY <1>7, <3>1, <3>2 DEF ProcessDiscards
    <2> QED
      BY <1>7, <2>1 DEF ProcessDiscards, Dropped, TypeOK, sendVars
  <1>8. ASSUME ProcessAccepts PROVE TypeInv'
    <2>1. segment \in Segment
      BY <1>8 DEF ProcessAccepts
    <2>2. Kept \in Seq(Piece) /\ Expected \in Seq64
      BY <2>1, SegmentFields DEF Kept, Expected
    <2>3. Len(Kept) \in Nat /\ Len(Kept) + 1 <= Capacity
      BY <1>8, <2>2 DEF ProcessAccepts
    <2> QED
      BY <1>8, <2>1, <2>2, <2>3, Sizes DEF ProcessAccepts, Accepting, TypeOK, sendVars
  <1>9. ASSUME ProcessStores PROVE TypeInv'
    <2>1. segment \in Segment
      BY <1>9 DEF ProcessStores
    <2>2. /\ Append(buffer, segment.data) \in Seq(Piece)
          /\ Len(Append(buffer, segment.data)) <= Capacity
      BY <1>9, <2>1, SegmentFields, Appended DEF ProcessStores
    <2>3. Append(received, Append(buffer, segment.data)) \in Seq(Seq(Piece))
      BY <2>2, Appended
    <2>4. (expectedSeq + 1) % Modulus \in Seq64
      BY Numbers
    <2>5. /\ buffer' \in Seq(Piece) /\ Len(buffer') <= Capacity
          /\ expectedSeq' \in Seq64 /\ inProgress' \in BOOLEAN
          /\ received' \in Seq(Seq(Piece))
      <3>1. CASE segment.fin
        <4>1. Clear /\ received' = Append(received, Append(buffer, segment.data))
          BY <1>9, <3>1 DEF ProcessStores
        <4> QED
          BY <4>1, <2>3, Cleared DEF Clear
      <3>2. CASE ~segment.fin
        BY <1>9, <2>2, <2>4, <3>2 DEF ProcessStores
      <3> QED
        BY <3>1, <3>2
    <2> QED
      BY <1>9, <2>5 DEF ProcessStores, TypeOK, sendVars
  <1>10. ASSUME ResetReceiver PROVE TypeInv'
    <2>1. budget' \in [losses : 0..MaxLosses, resets : 0..MaxResets]
      BY <1>10, Spent DEF ResetReceiver
    <2>2. spoiled' \subseteq 1..MaxMessages
      <3>1. \A i \in DOMAIN buffer : buffer[i] \in Piece
        OBVIOUS
      <3>2. \A i \in DOMAIN buffer : buffer[i].message \in 1..MaxMessages
        BY <3>1 DEF Piece
      <3> QED
        BY <1>10, <3>2 DEF ResetReceiver, TypeOK
    <2>3. place = "accepted" => 1 <= Capacity
      BY Sizes
    <2>4. /\ buffer' \in Seq(Piece) /\ Len(buffer') = 0 /\ Len(buffer') <= Capacity
          /\ inProgress' \in BOOLEAN /\ expectedSeq' \in Seq64
      BY <1>10, Cleared DEF ResetReceiver, Clear
    <2>5. raced' \in BOOLEAN
      BY <1>10 DEF ResetReceiver
    <2>6. place' = "accepted" => Len(buffer') + 1 <= Capacity
      BY <1>10, <2>3, <2>4 DEF ResetReceiver, readVars
    <2> QED
      BY <1>10, <2>1, <2>2, <2>4, <2>5, <2>6
      DEF ResetReceiver, TypeOK, sendVars, readVars
  <1>11. ASSUME ResetSender PROVE TypeInv'
    <2>1. budget' \in [losses : 0..MaxLosses, resets : 0..MaxResets]
      BY <1>11, Spent DEF ResetSender
    <2> QED
      BY <1>11, <2>1, Sizes DEF ResetSender, TypeOK, readVars, rxVars
  <1>12. ASSUME UNCHANGED vars PROVE TypeInv'
    BY <1>12 DEF vars, TypeOK, sendVars, readVars, rxVars
  <1> QED
    BY <1>1, <1>2, <1>3, <1>4, <1>5, <1>6, <1>7, <1>8, <1>9, <1>10, <1>11, <1>12
    DEF Next, Send, Receive

\* Every variable keeps its type, the sequence numbers their bits and the buffer its
\* limit.
THEOREM TypeCorrect == Spec => []TypeOK
  <1>1. TypeInv => TypeOK
    BY DEF TypeInv
  <1> QED
    BY <1>1, TypeInit, TypeNext, PTL DEF Spec

-----------------------------------------------------------------------------
(* What is on its way, and what was handed up.                             *)

\* The segments of h, all those written since the number was last reset: they are of
\* whole messages, in order, and numbered one after the other from b on.
Element(x, n) ==
    /\ x.seq = n % Modulus
    /\ x.data.message \in DOMAIN count
    /\ x.data.index <= count[x.data.message]
    /\ x.fir <=> x.data.index = 1
    /\ x.fin <=> x.data.index = count[x.data.message]

Before(x, y) ==
    \/ x.data.message < y.data.message
    \/ x.data.message = y.data.message /\ x.data.index < y.data.index

Continues(x, y) ==
    ~x.fin => y.data.message = x.data.message /\ y.data.index = x.data.index + 1

Stream(h, b) ==
    /\ \A k \in 1..Len(h) : Element(h[k], b + k)
    /\ \A k, l \in 1..Len(h) : k < l => Before(h[k], h[l])
    /\ \A k, l \in 1..Len(h) : l = k + 1 => Continues(h[k], h[l])
    /\ Len(h) > 0 => h[Len(h)].fin

\* One goroutine sends at most; it has left of h the last left segments and has yet to
\* advance txSequence by ahead.
Outgoing(h, b, left, ahead) ==
    /\ \A s, t \in Sender : Sending(s) /\ Sending(t) => s = t
    /\ \A s \in Sender : Sending(s) =>
        /\ left = Len(sending[s].left) /\ ahead = sending[s].advance
        /\ \A i \in 1..left : sending[s].left[i] = h[(Len(h) - left) + i]
    /\ (\A s \in Sender : ~Sending(s)) => left = 0 /\ ahead = 0
    /\ left <= Len(h)
    /\ (txSequence + ahead) % Modulus = (b + Len(h) + 1) % Modulus

\* w: where in h the segments on their way are. at: the last segment taken from there.
OnTheWay(h, left, w, at) ==
    /\ Len(w) = Len(wire)
    /\ \A k \in 1..Len(w) : wire[k] = h[w[k]] /\ at + k <= w[k] /\ w[k] + left <= Len(h)
    /\ \A j, k \in 1..Len(w) : j < k => w[j] + (k - j) <= w[k]
    /\ at + Len(w) + left <= Len(h)

\* done: the last segment that was processed. The others between it and the end of h
\* are held, on their way, still to be written, or lost.
Held == IF place = "received" THEN 1 ELSE 0
Used == MaxLosses - budget.losses
Missing(h, left, w, at, done) ==
    /\ IF place = "received" THEN done < at /\ segment = h[at] ELSE done = at
    /\ place = "accepted" => done > 0 /\ segment = h[done]
    /\ Len(h) <= done + Used + Len(w) + left + Held

\* The buffer has the message of h[done] up to that segment.
Pieces(m, n) == Len(buffer) = n /\ \A i \in 1..n : buffer[i] = [message |-> m, index |-> i]
Assembled(h, b, done) ==
    /\ place = "accepted" =>
        /\ inProgress
        /\ Pieces(h[done].data.message, h[done].data.index - 1)
        /\ expectedSeq = (b + done) % Modulus
    /\ place # "accepted" /\ inProgress =>
        /\ done > 0 /\ ~h[done].fin
        /\ Pieces(h[done].data.message, h[done].data.index)
        /\ expectedSeq = (b + done + 1) % Modulus

\* What was handed up are whole messages, all of them before what is to come.
HandedUp(h, done) ==
    /\ \A k \in DOMAIN received : \E m \in DOMAIN count :
        /\ received[k] = Whole(m)
        /\ \A l \in 1..Len(h) : l > done => m < h[l].data.message
        /\ inProgress => m < h[done].data.message
    /\ \A j, k \in DOMAIN received : j < k => received[j][1].message < received[k][1].message

Explained(h, b, left, ahead, w, at, done) ==
    /\ Stream(h, b)
    /\ Outgoing(h, b, left, ahead)
    /\ OnTheWay(h, left, w, at)
    /\ Missing(h, left, w, at, done)
    /\ Assembled(h, b, done)
    /\ HandedUp(h, done)

\* There is a sequence that explains the state.
StreamInv ==
    \E h \in Seq(Segment), w \in Seq(Nat), b, left, ahead, at, done \in Nat :
        Explained(h, b, left, ahead, w, at, done)

\* The parts of the invariant that depend on variables a step leaves alone.
LEMMA Frames ==
    ASSUME NEW h, NEW b, NEW left, NEW ahead, NEW w, NEW at, NEW done
    PROVE  /\ Stream(h, b) /\ count' = count => Stream(h, b)'
           /\ Outgoing(h, b, left, ahead) /\ sending' = sending /\ txSequence' = txSequence
                => Outgoing(h, b, left, ahead)'
           /\ OnTheWay(h, left, w, at) /\ wire' = wire => OnTheWay(h, left, w, at)'
           /\ Missing(h, left, w, at, done) /\ place' = place /\ segment' = segment
              /\ budget'.losses = budget.losses => Missing(h, left, w, at, done)'
           /\ Assembled(h, b, done) /\ place' = place /\ inProgress' = inProgress
              /\ buffer' = buffer /\ expectedSeq' = expectedSeq => Assembled(h, b, done)'
           /\ HandedUp(h, done) /\ received' = received /\ count' = count
              /\ inProgress' = inProgress => HandedUp(h, done)'
  <1>1. Stream(h, b) /\ count' = count => Stream(h, b)'
    BY DEF Stream, Element
  <1>2. Outgoing(h, b, left, ahead) /\ sending' = sending /\ txSequence' = txSequence
        => Outgoing(h, b, left, ahead)'
    BY DEF Outgoing, Sending
  <1>3. OnTheWay(h, left, w, at) /\ wire' = wire => OnTheWay(h, left, w, at)'
    BY DEF OnTheWay
  <1>4. Missing(h, left, w, at, done) /\ place' = place /\ segment' = segment
        /\ budget'.losses = budget.losses => Missing(h, left, w, at, done)'
    BY DEF Missing, Held, Used
  <1>5. Assembled(h, b, done) /\ place' = place /\ inProgress' = inProgress
        /\ buffer' = buffer /\ expectedSeq' = expectedSeq => Assembled(h, b, done)'
    BY DEF Assembled, Pieces
  <1>6. HandedUp(h, done) /\ received' = received /\ count' = count
        /\ inProgress' = inProgress => HandedUp(h, done)'
    BY DEF HandedUp, Whole
  <1> QED
    BY <1>1, <1>2, <1>3, <1>4, <1>5, <1>6

\* Where everything is in h.
Laid(h, w, left, at, done, n, z, u, f) ==
    /\ n = Len(h) /\ z = Len(w) /\ u = Used /\ u <= MaxLosses /\ f = Held
    /\ left <= n /\ done <= at /\ at + z + left <= n /\ at <= n /\ done <= n
    /\ n <= done + u + z + left + f
    /\ \A k \in 1..z :
           w[k] \in 1..n /\ w[k] \in Nat /\ at + k <= w[k] /\ w[k] + left <= n
    /\ \A k \in 1..n : h[k] \in Segment
    /\ at > 0 => h[at] \in Segment
    /\ done > 0 => h[done] \in Segment
    /\ place \in {"accepted", "received"} => at > 0
    /\ place # "received" => done = at
    /\ (place = "accepted" \/ inProgress) => done > 0

LEMMA Places ==
    ASSUME TypeInv, NEW h \in Seq(Segment), NEW w \in Seq(Nat),
           NEW b \in Nat, NEW left \in Nat, NEW ahead \in Nat, NEW at \in Nat, NEW done \in Nat,
           Explained(h, b, left, ahead, w, at, done)
    PROVE  \E n, z, u, f \in Nat : Laid(h, w, left, at, done, n, z, u, f)
  <1>1. PICK n, z, u, f \in Nat : n = Len(h) /\ z = Len(w) /\ u = Used /\ f = Held
    BY Types, Sizes DEF Used, Held
  <1>2. u <= MaxLosses
    BY <1>1, Types, Sizes, SMTT(20) DEF Used
  <1>3. left <= n /\ at + z + left <= n
    BY <1>1 DEF Explained, Outgoing, OnTheWay
  <1>4. /\ done <= at
        /\ place \in {"accepted", "received"} => at > 0
        /\ place # "received" => done = at
    BY DEF Explained, Missing
  <1>5. n <= done + u + z + left + f
    BY <1>1 DEF Explained, Missing
  <1>6. (place = "accepted" \/ inProgress) => done > 0
    BY DEF Explained, Missing, Assembled
  <1>7. at <= n /\ done <= n
    BY <1>3, <1>4
  <1>8. \A k \in 1..z : w[k] \in Nat /\ at + k <= w[k] /\ w[k] + left <= n
    BY <1>1, SMTT(20) DEF Explained, OnTheWay
  <1>9. \A k \in 1..z : w[k] \in 1..n
    <2> TAKE k \in 1..z
    <2>1. PICK x \in Nat : x = w[k] /\ at + k <= x /\ x + left <= n
      BY <1>8
    <2> QED
      BY <2>1, SMTT(20)
  <1>10. \A k \in 1..n : h[k] \in Segment
    BY <1>1, Within
  <1>11. (at > 0 => h[at] \in Segment) /\ (done > 0 => h[done] \in Segment)
    BY <1>7, <1>10
  <1> QED
    BY <1>1, <1>2, <1>3, <1>4, <1>5, <1>6, <1>7, <1>8, <1>9, <1>10, <1>11 DEF Laid

\* A message more: what it is cut into continues the sequence.
LEMMA Longer ==
    ASSUME TypeInv, NEW h \in Seq(Segment), NEW b \in Nat, Stream(h, b),
           NEW n \in 1..MaxSegments, NEW g \in Seq(Segment), Len(g) = n,
           NEW start \in Nat, start = (b + Len(h) + 1) % Modulus,
           IsCut(g, Len(count) + 1, n, start),
           count' = Append(count, n),
           NEW v \in Seq(Segment), v = h \o g
    PROVE  Stream(v, b)'
  <1>1. PICK c \in Nat, d \in Nat, e \in Nat \ {0} : c = Len(count) /\ d = Len(h) /\ e = n
    BY Types, Sizes
  <1>2. /\ Len(v) = d + e
        /\ \A i \in 1..d : v[i] = h[i] /\ h[i] \in Segment
        /\ \A i \in 1..e : v[d + i] = g[i] /\ g[i] \in Segment
    <2>1. /\ h \o g \in Seq(Segment)
          /\ Len(h) \in Nat /\ Len(g) \in Nat /\ Len(h \o g) = Len(h) + Len(g)
          /\ \A i \in 1..Len(h) : (h \o g)[i] = h[i]
          /\ \A i \in 1..Len(g) : (h \o g)[Len(h) + i] = g[i]
      BY ONLY Joining, h \in Seq(Segment), g \in Seq(Segment)
    <2>2. \A i \in 1..d : h[i] \in Segment
      BY <1>1, Within
    <2>3. \A i \in 1..e : g[i] \in Segment
      BY <1>1, Within
    <2> QED
      BY <1>1, <2>1, <2>2, <2>3
  <1>3. /\ DOMAIN count = 1..c /\ DOMAIN count' = 1..(c + 1)
        /\ \A m \in 1..c : count'[m] = count[m]
        /\ count'[c + 1] = n
    BY <1>1, Types, Appended
  <1>4. \A k \in 1..(d + e) : k \in 1..d \/ \E i \in 1..e : k = d + i
    <2> TAKE k \in 1..(d + e)
    <2>1. CASE k <= d
      BY <2>1
    <2>2. CASE k > d
      <3>1. k - d \in 1..e /\ k = d + (k - d)
        BY <2>2
      <3> QED
        BY <3>1
    <2> QED
      BY <2>1, <2>2
  <1>5. \A i \in 1..e : g[i].seq = (b + (d + i)) % Modulus
    <2> TAKE i \in 1..e
    <2>1. start + i - 1 = start + (i - 1) /\ i - 1 \in Nat /\ b + d + 1 \in Nat
          /\ (b + d + 1) + (i - 1) = b + (d + i)
      OBVIOUS
    <2>2. g[i].seq = (start + (i - 1)) % Modulus
      BY <1>1, <2>1 DEF IsCut
    <2>3. (((b + d + 1) % Modulus) + (i - 1)) % Modulus = ((b + d + 1) + (i - 1)) % Modulus
      BY <2>1, AddCycle, Sizes
    <2> QED
      BY <1>1, <2>1, <2>2, <2>3
  <1>6. \A i \in 1..e : /\ (g[i].fir <=> i = 1) /\ (g[i].fin <=> i = e)
                        /\ g[i].data.message = c + 1 /\ g[i].data.index = i
    BY <1>1 DEF IsCut
  <1>7. \A i \in 1..d : /\ h[i].data.message \in 1..c
                        /\ h[i].data.message \in Nat /\ h[i].data.index \in Nat
    BY <1>1, <1>2, <1>3, SegmentFields DEF Stream, Element
  <1>8. \A k \in 1..Len(v) : Element(v[k], b + k)'
    <2> SUFFICES ASSUME NEW k \in 1..(d + e) PROVE Element(v[k], b + k)'
      BY <1>2
    <2>1. CASE k \in 1..d
      <3>1. PICK x : x = h[k] /\ x = v[k]
        BY <1>2, <2>1
      <3>2. Element(x, b + k)
        BY <1>1, <2>1, <3>1 DEF Stream
      <3>3. /\ x.data.message \in 1..c
            /\ x.data.message \in DOMAIN count'
            /\ count'[x.data.message] = count[x.data.message]
        <4>1. PICK m \in 1..c : m = x.data.message
          BY <1>7, <2>1, <3>1
        <4>2. m \in 1..(c + 1) /\ count'[m] = count[m]
          BY <1>3
        <4> QED
          BY <1>3, <4>1, <4>2
      <3> QED
        BY <3>1, <3>2, <3>3 DEF Element
    <2>2. ASSUME NEW i \in 1..e, k = d + i PROVE Element(v[k], b + k)'
      <3>1. PICK x : x = g[i] /\ x = v[k]
        BY <1>2, <2>2
      <3>2. /\ x.seq = (b + k) % Modulus
            /\ (x.fir <=> i = 1) /\ (x.fin <=> i = e)
            /\ x.data.message = c + 1 /\ x.data.index = i
        BY <1>5, <1>6, <2>2, <3>1
      <3>3. x.data.message \in DOMAIN count' /\ count'[x.data.message] = e
        BY <1>1, <1>3, <3>2
      <3>4. (x.fir <=> x.data.index = 1) /\ (x.fin <=> x.data.index = count'[x.data.message])
        BY <3>2, <3>3
      <3>5. x.data.index <= count'[x.data.message]
        BY <3>2, <3>3
      <3> QED
        BY <3>1, <3>2, <3>3, <3>4, <3>5 DEF Element
    <2> QED
      BY <1>4, <2>1, <2>2
  <1>9. \A k, l \in 1..Len(v) : k < l => Before(v[k], v[l])
    <2> SUFFICES ASSUME NEW k \in 1..(d + e), NEW l \in 1..(d + e), k < l
                 PROVE  Before(v[k], v[l])
      BY <1>2
    <2>1. CASE k \in 1..d /\ l \in 1..d
      BY <1>1, <1>2, <2>1 DEF Stream
    <2>2. ASSUME k \in 1..d, NEW i \in 1..e, l = d + i PROVE Before(v[k], v[l])
      <3>1. PICK m \in Nat : m = h[k].data.message /\ m \in 1..c
        BY <1>7, <2>2
      <3>2. v[k] = h[k] /\ v[l] = g[i]
        BY <1>2, <2>2
      <3>3. m < c + 1 /\ v[l].data.message = c + 1
        BY <1>6, <2>2, <3>1, <3>2, SMTT(20)
      <3> QED
        BY <3>1, <3>2, <3>3 DEF Before
    <2>3. ASSUME NEW i \in 1..e, k = d + i, NEW j \in 1..e, l = d + j PROVE Before(v[k], v[l])
      <3>1. /\ v[k].data.message = c + 1 /\ v[l].data.message = c + 1
            /\ v[k].data.index = i /\ v[l].data.index = j
        <4>1. v[k] = g[i] /\ v[l] = g[j]
          BY <1>2, <2>3
        <4> QED
          BY <1>6, <2>3, <4>1
      <3>2. i < j
        BY <2>3
      <3> QED
        BY <3>1, <3>2 DEF Before
    <2>4. k \in 1..d => l \in 1..d \/ \E i \in 1..e : l = d + i
      BY <1>4
    <2>5. k \notin 1..d => l \notin 1..d
      OBVIOUS
    <2> QED
      BY <1>4, <2>1, <2>2, <2>3, <2>4, <2>5
  <1>10. \A k, l \in 1..Len(v) : l = k + 1 => Continues(v[k], v[l])
    <2> SUFFICES ASSUME NEW k \in 1..(d + e), NEW l \in 1..(d + e), l = k + 1
                 PROVE  Continues(v[k], v[l])
      BY <1>2
    <2>1. CASE k < d
      <3>1. k \in 1..d /\ l \in 1..d
        BY <2>1
      <3> QED
        BY <1>1, <1>2, <3>1 DEF Stream
    <2>2. CASE k = d
      BY <1>1, <1>2, <2>2 DEF Stream, Continues
    <2>3. CASE k > d
      <3>1. PICK i \in 1..e : k = d + i
        <4>1. k - d \in 1..e /\ k = d + (k - d)
          BY <2>3
        <4> QED
          BY <4>1
      <3>2. i + 1 \in 1..e /\ l = d + (i + 1)
        BY <3>1
      <3>3. /\ v[k].data.message = c + 1 /\ v[l].data.message = c + 1
            /\ v[k].data.index = i /\ v[l].data.index = i + 1
        <4>1. v[k] = g[i] /\ v[l] = g[i + 1]
          BY <1>2, <3>1, <3>2
        <4> QED
          BY <1>6, <3>1, <3>2, <4>1
      <3> QED
        BY <3>3 DEF Continues
    <2> QED
      <3>1. k < d \/ k = d \/ k > d
        OBVIOUS
      <3> QED
        BY <2>1, <2>2, <2>3, <3>1
  <1>11. v[Len(v)].fin
    <2>1. e \in 1..e
      OBVIOUS
    <2>2. v[d + e] = g[e] /\ g[e].fin
      BY <1>2, <1>6, <2>1
    <2> QED
      BY <1>2, <2>2
  <1> QED
    BY <1>8, <1>9, <1>10, <1>11 DEF Stream

LEMMA SendReadsKeeps ==
    ASSUME TypeInv, NEW h \in Seq(Segment), NEW w \in Seq(Nat),
           NEW b \in Nat, NEW left \in Nat, NEW ahead \in Nat, NEW at \in Nat, NEW done \in Nat,
           Explained(h, b, left, ahead, w, at, done),
           NEW s \in Sender, SendReads(s), ~raced'
    PROVE  StreamInv'
  <1>1. PICK n \in 1..MaxSegments :
          /\ count' = Append(count, n)
          /\ sending' = [sending EXCEPT ![s] =
                 [advance |-> n, left |-> SegmentData(Len(count) + 1, n, txSequence)]]
    BY DEF SendReads
  <1>2. PICK c \in Nat, d \in Nat, e \in Nat \ {0} : c = Len(count) /\ d = Len(h) /\ e = n
    BY Types, Sizes
  <1>0. PICK q, z, u, f \in Nat : Laid(h, w, left, at, done, q, z, u, f)
    BY Places
  <1>3. c + 1 \in 1..MaxMessages
    BY <1>2, Sizes DEF SendReads
  <1>4. PICK g \in Seq(Segment) : /\ g = SegmentData(c + 1, n, txSequence)
                                  /\ Len(g) = n /\ IsCut(g, c + 1, n, txSequence)
    BY <1>3, Types, Cut
  <1>5. PICK v \in Seq(Segment) :
          /\ v = h \o g /\ Len(v) = d + e
          /\ \A i \in 1..d : v[i] = h[i]
          /\ \A i \in 1..e : v[d + i] = g[i]
    <2>1. /\ h \o g \in Seq(Segment)
          /\ Len(h) \in Nat /\ Len(g) \in Nat /\ Len(h \o g) = Len(h) + Len(g)
          /\ \A i \in 1..Len(h) : (h \o g)[i] = h[i]
          /\ \A i \in 1..Len(g) : (h \o g)[Len(h) + i] = g[i]
      BY Joining
    <2>2. /\ h \o g \in Seq(Segment) /\ Len(h \o g) = d + e
          /\ \A i \in 1..d : (h \o g)[i] = h[i]
          /\ \A i \in 1..e : (h \o g)[d + i] = g[i]
      BY <1>2, <1>4, <2>1
    <2> QED
      BY <2>2
  <1>6. left = 0 /\ ahead = 0 /\ \A t \in Sender : ~Sending(t)
    BY DEF SendReads, Explained, Outgoing
  <1>7. txSequence = (b + d + 1) % Modulus
    <2>1. txSequence % Modulus = txSequence
      <3>1. txSequence \in 0..(Modulus - 1) /\ Modulus * 0 + txSequence = txSequence
        BY Types, Sizes DEF Seq64
      <3> QED
        BY <3>1, Remainder, Sizes, SMTT(20)
    <2>2. (txSequence + ahead) % Modulus = (b + d + 1) % Modulus
      BY <1>2 DEF Explained, Outgoing
    <2>3. txSequence + ahead = txSequence
      BY <1>6, Types
    <2> QED
      BY <2>1, <2>2, <2>3
  <1>8. Stream(v, b)'
    BY <1>1, <1>2, <1>4, <1>5, <1>7, Longer, Types DEF Explained
  <1>9. Outgoing(v, b, n, n)'
    <2>1. /\ sending'[s].advance = n /\ sending'[s].left = g
          /\ \A t \in Sender \ {s} : sending'[t] = sending[t]
      BY <1>1, <1>2, <1>4, Types
    <2>2. \A t \in Sender : Sending(t)' => t = s
      BY <1>6, <2>1 DEF Sending
    <2>3. Sending(s)'
      BY <1>2, <2>1 DEF Sending, NotSending
    <2>4. \A i \in 1..n : g[i] = v[(Len(v) - n) + i]
      BY <1>2, <1>5
    <2>5. (txSequence + n) % Modulus = (b + Len(v) + 1) % Modulus
      <3>1. (((b + d + 1) % Modulus) + e) % Modulus = ((b + d + 1) + e) % Modulus
        <4>1. b + d + 1 \in Nat
          OBVIOUS
        <4> QED
          BY <4>1, AddCycle, Sizes
      <3>2. (b + d + 1) + e = b + (d + e) + 1
        OBVIOUS
      <3> QED
        BY <1>2, <1>5, <1>7, <3>1, <3>2
    <2>6. txSequence' = txSequence /\ n <= Len(v)
      BY <1>2, <1>5 DEF SendReads
    <2> QED
      BY <1>4, <2>1, <2>2, <2>3, <2>4, <2>5, <2>6 DEF Outgoing
  <1>10. OnTheWay(v, n, w, at)'
    <2>1. z = Len(w) /\ at + z <= d
      BY <1>0, <1>2, <1>6 DEF Laid
    <2>2. \A k \in 1..z : w[k] \in 1..d /\ v[w[k]] = h[w[k]] /\ w[k] + n <= d + n
      <3> TAKE k \in 1..z
      <3>1. PICK x \in 1..d : x = w[k]
        BY <1>0, <1>2 DEF Laid
      <3> QED
        BY <1>2, <1>5, <3>1, SMTT(20)
    <2>3. at + z + n <= d + n
      BY <1>2, <2>1
    <2>4. wire' = wire
      BY DEF SendReads
    <2> QED
      BY <1>2, <1>5, <2>1, <2>2, <2>3, <2>4 DEF Explained, OnTheWay
  <1>11. Missing(v, n, w, at, done)'
    <2>1. place' = place /\ segment' = segment /\ budget' = budget
      BY DEF SendReads, readVars
    <2>2. Used' = Used /\ Held' = Held
      BY <2>1 DEF Used, Held
    <2>3. Len(v) <= done + Used' + Len(w) + n + Held'
      BY <1>0, <1>2, <1>5, <1>6, <2>2 DEF Laid
    <2>4. at > 0 => v[at] = h[at]
      BY <1>0, <1>2, <1>5 DEF Laid
    <2>5. done > 0 => v[done] = h[done]
      BY <1>0, <1>2, <1>5 DEF Laid
    <2>6. /\ IF place = "received" THEN done < at /\ segment = h[at] ELSE done = at
          /\ place = "accepted" => done > 0 /\ segment = h[done]
      BY DEF Explained, Missing
    <2>7. place = "received" => at > 0
      BY <2>6
    <2> QED
      BY <2>1, <2>3, <2>4, <2>5, <2>6, <2>7 DEF Missing
  <1>12. Assembled(v, b, done)'
    <2>1. done > 0 => v[done] = h[done]
      BY <1>0, <1>2, <1>5 DEF Laid
    <2>2. place = "accepted" => done > 0
      BY DEF Explained, Missing
    <2>3. place' = place /\ inProgress' = inProgress /\ buffer' = buffer
          /\ expectedSeq' = expectedSeq
      BY DEF SendReads, readVars, rxVars
    <2> QED
      BY <2>1, <2>2, <2>3 DEF Explained, Assembled, Pieces
  <1>13. HandedUp(v, done)'
    <2>1. received' = received /\ inProgress' = inProgress
      BY DEF SendReads, rxVars
    <2>2. /\ DOMAIN count = 1..c /\ DOMAIN count' = 1..(c + 1)
          /\ \A m \in 1..c : count'[m] = count[m]
      BY <1>1, <1>2, Types, Appended
    <2>3. \A m \in DOMAIN count : m \in DOMAIN count' /\ Whole(m)' = Whole(m) /\ m < c + 1
      BY <2>2 DEF Whole
    <2>4. \A l \in 1..(d + e) : l \in 1..d \/ \E i \in 1..e : l = d + i
      <3> TAKE l \in 1..(d + e)
      <3>1. l > d => l - d \in 1..e /\ l = d + (l - d)
        OBVIOUS
      <3> QED
        BY <3>1
    <2>5. \A l \in 1..Len(v) : (l \in 1..d /\ v[l] = h[l]) \/ v[l].data.message = c + 1
      BY <1>2, <1>4, <1>5, <2>4 DEF IsCut
    <2>6. inProgress => v[done] = h[done]
      BY <1>0, <1>2, <1>5, SMTT(20) DEF Laid
    <2>7. ASSUME NEW k \in DOMAIN received
          PROVE  \E m \in DOMAIN count' :
                    /\ received[k] = Whole(m)'
                    /\ \A l \in 1..Len(v) : l > done => m < v[l].data.message
                    /\ inProgress => m < v[done].data.message
      <3>1. PICK m \in DOMAIN count :
              /\ received[k] = Whole(m)
              /\ \A l \in 1..Len(h) : l > done => m < h[l].data.message
              /\ inProgress => m < h[done].data.message
        BY <2>7 DEF Explained, HandedUp
      <3>2. \A l \in 1..Len(v) : l > done => m < v[l].data.message
        BY <1>2, <2>3, <2>5, <3>1
      <3> QED
        BY <2>3, <2>6, <3>1, <3>2
    <2> QED
      BY <2>1, <2>7 DEF Explained, HandedUp
  <1>14. Explained(v, b, n, n, w, at, done)'
    BY <1>8, <1>9, <1>10, <1>11, <1>12, <1>13 DEF Explained
  <1> QED
    BY <1>2, <1>14 DEF StreamInv

LEMMA SendAdvancesKeeps ==
    ASSUME TypeInv, NEW h \in Seq(Segment), NEW w \in Seq(Nat),
           NEW b \in Nat, NEW left \in Nat, NEW ahead \in Nat, NEW at \in Nat, NEW done \in Nat,
           Explained(h, b, left, ahead, w, at, done),
           NEW s \in Sender, SendAdvances(s)
    PROVE  StreamInv'
  <1>1. PICK x \in SendState : x = sending[s] /\ x.advance > 0
    BY Types DEF SendAdvances
  <1>2. sending' = [sending EXCEPT ![s] = [x EXCEPT !.advance = 0]]
    BY <1>1 DEF SendAdvances
  <1>3. /\ sending'[s].left = x.left /\ sending'[s].advance = 0 /\ sending'[s] \in SendState
        /\ \A t \in Sender \ {s} : sending'[t] = sending[t]
    <2>1. PICK y \in SendState : /\ y = [x EXCEPT !.advance = 0]
                                /\ y.left = x.left /\ y.advance = 0
      BY <1>1, SendFields, ZenonT(30)
    <2>2. sending'[s] = y /\ \A t \in Sender \ {s} : sending'[t] = sending[t]
      BY <1>2, <2>1, Types
    <2> QED
      BY <2>1, <2>2
  <1>4. Sending(s)
    BY <1>1 DEF Sending, NotSending
  <1>5. /\ \A t \in Sender : Sending(t) => t = s
        /\ left = Len(x.left) /\ ahead = x.advance
        /\ \A i \in 1..left : x.left[i] = h[(Len(h) - left) + i]
        /\ left <= Len(h)
        /\ (txSequence + ahead) % Modulus = (b + Len(h) + 1) % Modulus
    BY <1>1, <1>4 DEF Explained, Outgoing
  <1>6. \A t \in Sender : Sending(t)' => t = s
    BY <1>3, <1>5 DEF Sending
  <1>7. ~Sending(s)' => left = 0
    <2>1. ~Sending(s)' => x.left = <<>>
      BY <1>3, SendFields DEF Sending
    <2>2. x.left = <<>> => Len(x.left) = 0
      BY <1>1, SendFields, Nothing
    <2> QED
      BY <1>5, <2>1, <2>2
  <1>8. (txSequence' + 0) % Modulus = (b + Len(h) + 1) % Modulus
    <2>1. (txSequence + ahead) \in Nat
      BY Types
    <2>2. (((txSequence + ahead) % Modulus) + 0) % Modulus
          = ((txSequence + ahead) + 0) % Modulus
      BY <2>1, AddCycle, Sizes
    <2>3. txSequence' = (txSequence + ahead) % Modulus
      BY <1>1, <1>5 DEF SendAdvances
    <2>4. (txSequence + ahead) + 0 = txSequence + ahead
      BY <2>1
    <2> QED
      BY <1>5, <2>2, <2>3, <2>4
  <1>9. Outgoing(h, b, left, 0)'
    BY <1>3, <1>5, <1>6, <1>7, <1>8 DEF Outgoing
  <1>10. Explained(h, b, left, 0, w, at, done)'
    BY <1>9, Frames DEF Explained, SendAdvances, readVars, rxVars
  <1> QED
    BY <1>10 DEF StreamInv

LEMMA WriteSegmentKeeps ==
    ASSUME TypeInv, NEW h \in Seq(Segment), NEW w \in Seq(Nat),
           NEW b \in Nat, NEW left \in Nat, NEW ahead \in Nat, NEW at \in Nat, NEW done \in Nat,
           Explained(h, b, left, ahead, w, at, done),
           NEW s \in Sender, WriteSegment(s)
    PROVE  StreamInv'
  <1>1. PICK x \in SendState : x = sending[s] /\ x.advance = 0 /\ x.left # <<>>
    BY Types DEF WriteSegment, Writing
  <1>2. PICK l \in Seq(Segment) : l = x.left /\ l # <<>>
    BY <1>1, SendFields
  <1>3. PICK r \in Seq(Segment) :
          /\ r = Tail(l) /\ Len(l) \in Nat \ {0} /\ Len(r) = Len(l) - 1
          /\ Head(l) = l[1] /\ l[1] \in Segment
          /\ \A i \in 1..Len(r) : r[i] = l[i + 1]
    <2>1. /\ Tail(l) \in Seq(Segment)
          /\ Len(l) \in Nat \ {0} /\ Len(Tail(l)) = Len(l) - 1
          /\ Head(l) = l[1] /\ l[1] \in Segment
          /\ \A i \in 1..Len(Tail(l)) : Tail(l)[i] = l[i + 1]
      BY <1>2, Removed
    <2> QED
      BY <2>1
  <1>4. sending' = [sending EXCEPT ![s] = [x EXCEPT !.left = r]]
    BY <1>1, <1>2, <1>3 DEF WriteSegment
  <1>5. /\ sending'[s].left = r /\ sending'[s].advance = 0 /\ sending'[s] \in SendState
        /\ \A t \in Sender \ {s} : sending'[t] = sending[t]
    <2>1. PICK y \in SendState : /\ y = [x EXCEPT !.left = r]
                                /\ y.left = r /\ y.advance = x.advance
      <3>1. \A n \in Seq(Segment) :
               /\ [x EXCEPT !.left = n] \in SendState
               /\ [x EXCEPT !.left = n].left = n /\ [x EXCEPT !.left = n].advance = x.advance
        BY <1>1, SendFields
      <3> QED
        BY <1>3, <3>1
    <2>2. sending'[s] = y /\ \A t \in Sender \ {s} : sending'[t] = sending[t]
      BY <1>4, <2>1, Types
    <2> QED
      BY <1>1, <2>1, <2>2
  <1>6. Sending(s)
    BY <1>1, SendFields DEF Sending
  <1>7. PICK m, z, u, f \in Nat : Laid(h, w, left, at, done, m, z, u, f)
    BY Places
  <1>8. /\ \A t \in Sender : Sending(t) => t = s
        /\ left = Len(l) /\ ahead = 0
        /\ \A i \in 1..left : l[i] = h[(m - left) + i]
        /\ (txSequence + ahead) % Modulus = (b + Len(h) + 1) % Modulus
    BY <1>1, <1>2, <1>6, <1>7 DEF Explained, Outgoing, Laid
  <1>9. PICK k \in Nat : left = k + 1 /\ Len(r) = k
    <2>1. left - 1 \in Nat /\ left = (left - 1) + 1 /\ Len(r) = left - 1
      BY <1>3, <1>8
    <2> QED
      BY <2>1
  <1>10. \A t \in Sender : Sending(t)' => t = s
    BY <1>5, <1>8 DEF Sending
  <1>11. ~Sending(s)' => k = 0
    <2>1. ~Sending(s)' => r = <<>>
      BY <1>5, SendFields DEF Sending
    <2>2. r = <<>> => Len(r) = 0
      BY <1>3, Nothing
    <2> QED
      BY <1>9, <2>1, <2>2
  <1>12. \A i \in 1..k : r[i] = h[(m - k) + i]
    <2> TAKE i \in 1..k
    <2>1. i + 1 \in 1..left /\ (m - left) + (i + 1) = (m - k) + i
      BY <1>7, <1>9 DEF Laid
    <2> QED
      BY <1>3, <1>8, <1>9, <2>1
  <1>13. Outgoing(h, b, k, 0)'
    <2>1. txSequence' = txSequence
      BY DEF WriteSegment
    <2>2. k <= Len(h) /\ m = Len(h)
      BY <1>7, <1>9 DEF Laid
    <2> QED
      BY <1>5, <1>8, <1>9, <1>10, <1>11, <1>12, <2>1, <2>2, SMTT(20) DEF Outgoing
  <1>14. PICK p \in Nat : p = (m - left) + 1 /\ p \in 1..m /\ p + k = m
    <2>1. (m - left) + 1 \in Nat /\ (m - left) + 1 \in 1..m /\ ((m - left) + 1) + k = m
      BY <1>7, <1>9 DEF Laid
    <2> QED
      BY <2>1
  <1>15. PICK v \in Seq(Nat) :
           /\ v = Append(w, p) /\ Len(v) = z + 1 /\ v[z + 1] = p
           /\ \A i \in 1..z : v[i] = w[i]
    <2>1. /\ Append(w, p) \in Seq(Nat)
          /\ Len(w) \in Nat /\ Len(Append(w, p)) = Len(w) + 1
          /\ Append(w, p)[Len(w) + 1] = p
          /\ \A i \in 1..Len(w) : Append(w, p)[i] = w[i] /\ w[i] \in Nat
      BY Appended
    <2> QED
      BY <1>7, <2>1 DEF Laid
  <1>16. Len(wire) = z /\ wire \in Seq(Segment)
    BY <1>7, Types DEF Explained, OnTheWay, Laid
  <1>17. /\ Len(wire') = z + 1 /\ wire'[z + 1] = h[p]
         /\ \A i \in 1..z : wire'[i] = wire[i]
    <2>1. wire' = Append(wire, l[1])
      BY <1>1, <1>2, <1>3 DEF WriteSegment
    <2>2. l[1] = h[p]
      <3>1. 1 \in 1..left
        BY <1>9
      <3> QED
        BY <1>8, <1>14, <3>1
    <2> QED
      BY <1>3, <1>16, <2>1, <2>2, Appended
  <1>18. OnTheWay(h, k, v, at)'
    <2>1. \A j \in 1..z : j + 1 <= z => w[j] + (z - j) <= w[z]
      <3> TAKE j \in 1..z
      <3> HAVE j + 1 <= z
      <3>1. j < z /\ z \in 1..z
        OBVIOUS
      <3> QED
        BY <1>7, <3>1 DEF Explained, OnTheWay, Laid
    <2>2. z > 0 => w[z] \in Nat /\ w[z] + left <= m
      BY <1>7 DEF Laid
    <2>3. \A j \in 1..z : w[j] \in Nat /\ w[j] + (z + 1 - j) <= p
      <3> TAKE j \in 1..z
      <3>1. PICK x2 \in Nat : x2 = w[j]
        BY <1>7 DEF Laid
      <3>2. PICK y \in Nat : y = w[z] /\ y + left <= m
        BY <2>2
      <3>3. x2 + (z - j) <= y
        BY <2>1, <3>1, <3>2, SMTT(20)
      <3>4. x2 + (z + 1 - j) <= p
        BY <1>14, <3>2, <3>3, SMTT(20)
      <3> QED
        BY <3>1, <3>4
    <2>4. at + (z + 1) + k <= m /\ at + (z + 1) <= p
      BY <1>7, <1>9, <1>14 DEF Laid
    <2>5. \A i \in 1..(z + 1) : wire'[i] = h[v[i]] /\ at + i <= v[i] /\ v[i] + k <= m
      <3> TAKE i \in 1..(z + 1)
      <3>1. CASE i = z + 1
        <4>1. v[i] = p /\ wire'[i] = h[p]
          BY <1>15, <1>17, <3>1
        <4>2. at + i <= p /\ p + k <= m
          BY <1>14, <2>4, <3>1
        <4> QED
          BY <4>1, <4>2
      <3>2. CASE i \in 1..z
        <4>1. wire[i] = h[w[i]]
          BY <1>7, <3>2 DEF Explained, OnTheWay, Laid
        <4>2. PICK y \in Nat : y = w[i] /\ at + i <= y /\ y + left <= m
          BY <1>7, <3>2 DEF Laid
        <4>3. y + k <= m
          BY <1>9, <4>2, SMTT(20)
        <4> QED
          BY <1>15, <1>17, <3>2, <4>1, <4>2, <4>3
      <3> QED
        BY <3>1, <3>2
    <2>6. \A i, j \in 1..(z + 1) : i < j => v[i] + (j - i) <= v[j]
      <3> TAKE i, j \in 1..(z + 1)
      <3> HAVE i < j
      <3>1. i \in 1..z
        OBVIOUS
      <3>2. CASE j = z + 1
        BY <1>15, <2>3, <3>1, <3>2
      <3>3. CASE j \in 1..z
        <4>1. w[i] + (j - i) <= w[j]
          BY <1>7, <3>1, <3>3 DEF Explained, OnTheWay, Laid
        <4> QED
          BY <1>15, <3>1, <3>3, <4>1
      <3> QED
        BY <3>2, <3>3
    <2> QED
      BY <1>7, <1>15, <1>17, <2>4, <2>5, <2>6 DEF OnTheWay, Laid
  <1>19. Missing(h, k, v, at, done)'
    <2>1. place' = place /\ segment' = segment /\ budget' = budget
      BY DEF WriteSegment, readVars
    <2>2. Used' = u /\ Held' = f
      BY <1>7, <2>1 DEF Used, Held, Laid
    <2>3. Len(h) <= done + Used' + Len(v) + k + Held'
      BY <1>7, <1>9, <1>15, <2>2 DEF Laid
    <2> QED
      BY <2>1, <2>3 DEF Explained, Missing
  <1>20. Explained(h, b, k, 0, v, at, done)'
    BY <1>13, <1>18, <1>19, Frames DEF Explained, WriteSegment, readVars, rxVars
  <1> QED
    BY <1>20 DEF StreamInv

LEMMA WriteFailsKeeps ==
    ASSUME TypeInv, NEW h \in Seq(Segment), NEW w \in Seq(Nat),
           NEW b \in Nat, NEW left \in Nat, NEW ahead \in Nat, NEW at \in Nat, NEW done \in Nat,
           Explained(h, b, left, ahead, w, at, done),
           NEW s \in Sender, WriteFails(s)
    PROVE  StreamInv'
  <1>1. PICK x \in SendState : x = sending[s] /\ x.advance = 0 /\ x.left # <<>>
    BY Types DEF WriteFails, Writing
  <1>2. Sending(s)
    BY <1>1, SendFields DEF Sending
  <1>3. /\ \A t \in Sender : Sending(t) => t = s
        /\ left = Len(x.left) /\ ahead = 0
        /\ (txSequence + ahead) % Modulus = (b + Len(h) + 1) % Modulus
    BY <1>1, <1>2 DEF Explained, Outgoing
  <1>4. sending'[s] = NotSending /\ \A t \in Sender \ {s} : sending'[t] = sending[t]
    BY Types DEF WriteFails
  <1>5. \A t \in Sender : ~Sending(t)'
    BY <1>3, <1>4 DEF Sending
  <1>6. PICK m, z, u, f \in Nat : Laid(h, w, left, at, done, m, z, u, f)
    BY Places
  <1>7. Outgoing(h, b, 0, 0)'
    <2>1. txSequence' = txSequence /\ 0 <= Len(h)
      BY <1>6 DEF WriteFails, Laid
    <2> QED
      BY <1>3, <1>5, <2>1 DEF Outgoing
  <1>8. OnTheWay(h, 0, w, at)'
    <2>1. \A k \in 1..z : w[k] + 0 <= m
      <3> TAKE k \in 1..z
      <3>1. PICK y \in Nat : y = w[k] /\ y <= m
        BY <1>6 DEF Laid
      <3> QED
        BY <3>1
    <2>2. wire' = wire /\ at + z + 0 <= m
      BY <1>6 DEF WriteFails, Laid
    <2> QED
      BY <1>6, <2>1, <2>2 DEF Explained, OnTheWay, Laid
  <1>9. budget'.losses = budget.losses - left /\ budget'.losses \in Nat
    <2>1. budget'.losses = budget.losses - left
      BY <1>1, <1>3, Spent DEF WriteFails
    <2>2. budget' \in [losses : 0..MaxLosses, resets : 0..MaxResets]
      BY <1>1, <1>3, Spent DEF WriteFails
    <2> QED
      BY <2>1, <2>2, Sizes
  <1>10. Missing(h, 0, w, at, done)'
    <2>1. place' = place /\ segment' = segment
      BY DEF WriteFails, readVars
    <2>2. Held' = f
      BY <1>6, <2>1 DEF Held, Laid
    <2>3. Used' = u + left
      <3>1. u = MaxLosses - budget.losses
        BY <1>6 DEF Used, Laid
      <3>2. budget.losses \in Nat
        BY Types
      <3>3. MaxLosses - (budget.losses - left) = (MaxLosses - budget.losses) + left
        BY <3>2, Sizes
      <3> QED
        BY <1>9, <3>1, <3>3 DEF Used
    <2>4. Len(h) <= done + Used' + Len(w) + 0 + Held'
      BY <1>6, <2>2, <2>3 DEF Laid
    <2> QED
      BY <2>1, <2>4 DEF Explained, Missing
  <1>11. Explained(h, b, 0, 0, w, at, done)'
    BY <1>7, <1>8, <1>10, Frames DEF Explained, WriteFails, readVars, rxVars
  <1> QED
    BY <1>11 DEF StreamInv

\* What is first on its way is taken from there, by the receiver or for good.
LEMMA FirstTaken ==
    ASSUME TypeInv, NEW h \in Seq(Segment), NEW w \in Seq(Nat),
           NEW b \in Nat, NEW left \in Nat, NEW ahead \in Nat, NEW at \in Nat, NEW done \in Nat,
           Explained(h, b, left, ahead, w, at, done),
           wire # <<>>, wire' = Tail(wire),
           NEW new \in Nat, new \in {at, w[1]}
    PROVE  \E v \in Seq(Nat) :
              /\ Len(w) \in Nat \ {0} /\ Len(v) = Len(w) - 1
              /\ OnTheWay(h, left, v, new)'
              /\ w[1] \in Nat /\ at < w[1] /\ Head(wire) = h[w[1]]
  <1>1. PICK m, z, u, f \in Nat : Laid(h, w, left, at, done, m, z, u, f)
    BY Places
  <1>2. PICK k \in Nat : z = k + 1 /\ Len(wire) = z
    <2>1. Len(wire) \in Nat \ {0}
      BY Types, Removed
    <2>2. Len(wire) = z
      BY <1>1 DEF Explained, OnTheWay, Laid
    <2> QED
      BY <2>1, <2>2
  <1>3. Len(w) = z /\ w # <<>>
    <2>1. w = <<>> <=> Len(w) = 0
      BY Nothing
    <2> QED
      BY <1>1, <1>2, <2>1 DEF Laid
  <1>4. PICK v \in Seq(Nat) : Len(v) = k /\ \A i \in 1..k : v[i] = w[i + 1]
    <2>1. /\ Tail(w) \in Seq(Nat)
          /\ Len(w) \in Nat \ {0} /\ Len(Tail(w)) = Len(w) - 1
          /\ Head(w) = w[1] /\ w[1] \in Nat
          /\ \A i \in 1..Len(Tail(w)) : Tail(w)[i] = w[i + 1]
      BY <1>3, Removed
    <2>2. Len(Tail(w)) = k
      BY <1>2, <1>3, <2>1
    <2> QED
      BY <2>1, <2>2
  <1>5. Head(wire) = wire[1] /\ Len(wire') = k /\ \A i \in 1..k : wire'[i] = wire[i + 1]
    <2>1. /\ Tail(wire) \in Seq(Segment)
          /\ Len(wire) \in Nat \ {0} /\ Len(Tail(wire)) = Len(wire) - 1
          /\ Head(wire) = wire[1] /\ wire[1] \in Segment
          /\ \A i \in 1..Len(Tail(wire)) : Tail(wire)[i] = wire[i + 1]
      BY Types, Removed
    <2> QED
      BY <1>2, <2>1
  <1>6. PICK x \in Nat : x = w[1] /\ at + 1 <= x /\ x + left <= m /\ wire[1] = h[x]
    <2>1. 1 \in 1..z
      BY <1>2
    <2> QED
      BY <1>1, <2>1 DEF Explained, OnTheWay, Laid
  <1>7. new <= x
    <2>1. x = w[1] /\ at <= x
      BY <1>6
    <2>2. new = at \/ new = w[1]
      OBVIOUS
    <2>3. CASE new = at
      BY <2>1, <2>3
    <2>4. CASE new = w[1]
      BY <2>1, <2>4
    <2> QED
      BY <2>2, <2>3, <2>4
  <1>8. \A i \in 1..k : x + i <= w[i + 1] /\ w[i + 1] \in Nat
    <2> TAKE i \in 1..k
    <2>1. i + 1 \in 1..z /\ 1 \in 1..z /\ 1 < i + 1 /\ (i + 1) - 1 = i
      BY <1>2
    <2>2. w[1] + ((i + 1) - 1) <= w[i + 1]
      BY <1>1, <2>1 DEF Explained, OnTheWay, Laid
    <2> QED
      BY <1>1, <1>6, <2>1, <2>2 DEF Laid
  <1>9. \A i \in 1..k : wire'[i] = h[v[i]] /\ new + i <= v[i] /\ v[i] + left <= m
    <2> TAKE i \in 1..k
    <2>1. i + 1 \in 1..z
      BY <1>2
    <2>2. wire[i + 1] = h[w[i + 1]]
      BY <1>1, <2>1 DEF Explained, OnTheWay, Laid
    <2>3. PICK y \in Nat : y = w[i + 1] /\ x + i <= y /\ y + left <= m
      BY <1>1, <1>8, <2>1 DEF Laid
    <2>4. new + i <= y
      BY <1>7, <2>3
    <2> QED
      BY <1>4, <1>5, <2>2, <2>3, <2>4
  <1>10. \A i, j \in 1..k : i < j => v[i] + (j - i) <= v[j]
    <2> TAKE i, j \in 1..k
    <2> HAVE i < j
    <2>1. i + 1 \in 1..z /\ j + 1 \in 1..z /\ i + 1 < j + 1 /\ (j + 1) - (i + 1) = j - i
      BY <1>2
    <2>2. w[i + 1] + ((j + 1) - (i + 1)) <= w[j + 1]
      BY <1>1, <2>1 DEF Explained, OnTheWay, Laid
    <2> QED
      BY <1>4, <2>1, <2>2
  <1>11. new + k + left <= m
    <2>1. CASE k = 0
      BY <1>6, <1>7, <2>1, SMTT(20)
    <2>2. CASE k > 0
      <3>1. k \in 1..k /\ k + 1 \in 1..z
        BY <1>2, <2>2
      <3>2. PICK y \in Nat : y = w[k + 1] /\ x + k <= y /\ y + left <= m
        BY <1>1, <1>8, <3>1 DEF Laid
      <3> QED
        BY <1>7, <3>2
    <2> QED
      BY <2>1, <2>2
  <1>12. OnTheWay(h, left, v, new)'
    BY <1>1, <1>4, <1>5, <1>9, <1>10, <1>11 DEF OnTheWay, Laid
  <1>13. Len(w) \in Nat \ {0} /\ Len(v) = Len(w) - 1
    BY <1>2, <1>3, <1>4
  <1> QED
    BY <1>5, <1>6, <1>12, <1>13

LEMMA LoseSegmentKeeps ==
    ASSUME TypeInv, NEW h \in Seq(Segment), NEW w \in Seq(Nat),
           NEW b \in Nat, NEW left \in Nat, NEW ahead \in Nat, NEW at \in Nat, NEW done \in Nat,
           Explained(h, b, left, ahead, w, at, done),
           LoseSegment
    PROVE  StreamInv'
  <1>1. PICK v \in Seq(Nat) :
          /\ Len(w) \in Nat \ {0} /\ Len(v) = Len(w) - 1
          /\ OnTheWay(h, left, v, at)'
    <2>1. wire # <<>> /\ wire' = Tail(wire)
      BY DEF LoseSegment
    <2> QED
      BY <2>1, FirstTaken
  <1>2. PICK m, z, u, f \in Nat : Laid(h, w, left, at, done, m, z, u, f)
    BY Places
  <1>3. budget'.losses = budget.losses - 1
    BY Spent DEF LoseSegment
  <1>4. Missing(h, left, v, at, done)'
    <2>1. place' = place /\ segment' = segment
      BY DEF LoseSegment, readVars
    <2>2. Held' = f
      BY <1>2, <2>1 DEF Held, Laid
    <2>3. Used' = u + 1
      <3>1. u = MaxLosses - budget.losses
        BY <1>2 DEF Used, Laid
      <3>2. budget.losses \in Nat
        BY Types
      <3>3. MaxLosses - (budget.losses - 1) = (MaxLosses - budget.losses) + 1
        BY <3>2, Sizes
      <3> QED
        BY <1>3, <3>1, <3>3 DEF Used
    <2>4. Len(h) <= done + Used' + Len(v) + left + Held'
      BY <1>1, <1>2, <2>2, <2>3 DEF Laid
    <2> QED
      BY <2>1, <2>4 DEF Explained, Missing
  <1>5. Explained(h, b, left, ahead, v, at, done)'
    BY <1>1, <1>4, Frames DEF Explained, LoseSegment, sendVars, readVars, rxVars
  <1> QED
    BY <1>5 DEF StreamInv

LEMMA TakeSegmentKeeps ==
    ASSUME TypeInv, NEW h \in Seq(Segment), NEW w \in Seq(Nat),
           NEW b \in Nat, NEW left \in Nat, NEW ahead \in Nat, NEW at \in Nat, NEW done \in Nat,
           Explained(h, b, left, ahead, w, at, done),
           TakeSegment
    PROVE  StreamInv'
  <1>1. PICK m, z, u, f \in Nat : Laid(h, w, left, at, done, m, z, u, f)
    BY Places
  <1>2. wire # <<>> /\ wire' = Tail(wire)
    BY DEF TakeSegment
  <1>3. PICK new \in Nat : new = w[1]
    <2>1. Len(wire) \in Nat \ {0}
      BY <1>2, Types, Removed
    <2>2. Len(wire) = z
      BY <1>1 DEF Explained, OnTheWay, Laid
    <2>3. 1 \in 1..z
      BY <2>1, <2>2
    <2> QED
      BY <1>1, <2>3 DEF Laid
  <1>4. PICK v \in Seq(Nat) :
          /\ Len(w) \in Nat \ {0} /\ Len(v) = Len(w) - 1
          /\ OnTheWay(h, left, v, new)'
          /\ w[1] \in Nat /\ at < w[1] /\ Head(wire) = h[w[1]]
    BY <1>2, <1>3, FirstTaken
  <1>5. Missing(h, left, v, new, done)'
    <2>1. place' = "received" /\ segment' = h[new] /\ budget' = budget /\ place = "idle"
      BY <1>3, <1>4 DEF TakeSegment
    <2>2. f = 0 /\ Held' = 1 /\ Used' = u
      BY <1>1, <2>1 DEF Held, Used, Laid
    <2>3. Len(h) <= done + Used' + Len(v) + left + Held'
      BY <1>1, <1>4, <2>2 DEF Laid
    <2>4. done < new
      BY <1>1, <1>3, <1>4 DEF Laid
    <2> QED
      BY <2>1, <2>3, <2>4 DEF Missing
  <1>6. Assembled(h, b, done)'
    BY DEF Explained, Assembled, Pieces, TakeSegment, rxVars
  <1>7. Explained(h, b, left, ahead, v, new, done)'
    BY <1>4, <1>5, <1>6, Frames DEF Explained, TakeSegment, sendVars, rxVars
  <1> QED
    BY <1>7 DEF StreamInv

LEMMA ProcessDiscardsKeeps ==
    ASSUME TypeInv, NEW h \in Seq(Segment), NEW w \in Seq(Nat),
           NEW b \in Nat, NEW left \in Nat, NEW ahead \in Nat, NEW at \in Nat, NEW done \in Nat,
           Explained(h, b, left, ahead, w, at, done),
           ProcessDiscards
    PROVE  StreamInv'
  <1>1. PICK m, z, u, f \in Nat : Laid(h, w, left, at, done, m, z, u, f)
    BY Places
  <1>2. /\ place = "received" /\ place' = "idle" /\ ~inProgress'
        /\ budget' = budget /\ received' = received /\ count' = count
    BY Types DEF ProcessDiscards, Dropped, Clear, rxVars, sendVars
  <1>3. done < at
    BY <1>2 DEF Explained, Missing
  <1>4. Missing(h, left, w, at, at)'
    <2>1. f = 1 /\ Held' = 0 /\ Used' = u
      BY <1>1, <1>2 DEF Held, Used, Laid
    <2>2. Len(h) <= at + Used' + Len(w) + left + Held'
      BY <1>1, <1>3, <2>1 DEF Laid
    <2> QED
      BY <1>2, <2>2 DEF Missing
  <1>5. Assembled(h, b, at)'
    BY <1>2 DEF Assembled
  <1>6. HandedUp(h, at)'
    <2>1. \A l \in 1..Len(h) : l > at => l > done
      BY <1>1, <1>3 DEF Laid
    <2> QED
      BY <1>2, <2>1 DEF Explained, HandedUp, Whole
  <1>7. Explained(h, b, left, ahead, w, at, at)'
    BY <1>4, <1>5, <1>6, Frames DEF Explained, ProcessDiscards, Dropped, sendVars
  <1> QED
    BY <1>7 DEF StreamInv

\* A segment with the number expected that is not the first of a message is the one
\* after that processed last: between the two fewer are missing than there are numbers.
LEMMA NextOne ==
    ASSUME MaxLosses < Modulus,
           TypeInv, NEW h \in Seq(Segment), NEW w \in Seq(Nat),
           NEW b \in Nat, NEW left \in Nat, NEW ahead \in Nat, NEW at \in Nat, NEW done \in Nat,
           Explained(h, b, left, ahead, w, at, done),
           place = "received", inProgress, segment.seq = expectedSeq
    PROVE  at = done + 1
  <1>1. PICK m, z, u, f \in Nat : Laid(h, w, left, at, done, m, z, u, f)
    BY Places
  <1>2. /\ done < at /\ segment = h[at]
        /\ expectedSeq = (b + done + 1) % Modulus
    BY DEF Explained, Missing, Assembled
  <1>3. segment.seq = (b + at) % Modulus
    <2>1. at \in 1..Len(h)
      BY <1>1, <1>2 DEF Laid
    <2>2. Element(h[at], b + at)
      BY <2>1 DEF Explained, Stream
    <2> QED
      BY <1>2, <2>2 DEF Element
  <1>4. at <= done + Modulus
    <2>1. f = 1
      BY <1>1 DEF Held, Laid
    <2>2. at <= done + u + 1
      BY <1>1, <2>1 DEF Laid
    <2> QED
      BY <1>1, <2>2, Sizes DEF Laid
  <1>5. PICK x, y \in Nat : x = b + done + 1 /\ y = b + at
    OBVIOUS
  <1>6. x < y => y >= x + Modulus
    BY <1>2, <1>3, <1>5, Cycle, Sizes
  <1> QED
    BY <1>2, <1>4, <1>5, <1>6, Sizes

LEMMA ProcessAcceptsKeeps ==
    ASSUME MaxLosses < Modulus,
           TypeInv, NEW h \in Seq(Segment), NEW w \in Seq(Nat),
           NEW b \in Nat, NEW left \in Nat, NEW ahead \in Nat, NEW at \in Nat, NEW done \in Nat,
           Explained(h, b, left, ahead, w, at, done),
           ProcessAccepts
    PROVE  StreamInv'
  <1>1. PICK m, z, u, f \in Nat : Laid(h, w, left, at, done, m, z, u, f)
    BY Places
  <1>2. /\ place = "received" /\ place' = "accepted" /\ inProgress'
        /\ segment.seq = Expected /\ buffer' = Kept /\ expectedSeq' = Expected
        /\ segment' = segment /\ budget' = budget /\ received' = received /\ count' = count
    BY DEF ProcessAccepts, Accepting, sendVars
  <1>3. done < at /\ segment = h[at] /\ at \in 1..m
    BY <1>1, <1>2 DEF Explained, Missing, Laid
  <1>4. PICK x \in Segment : x = h[at] /\ Element(x, b + at)
    BY <1>1, <1>3 DEF Explained, Stream, Laid
  <1>5. Missing(h, left, w, at, at)'
    <2>1. f = 1 /\ Held' = 0 /\ Used' = u
      BY <1>1, <1>2 DEF Held, Used, Laid
    <2>2. Len(h) <= at + Used' + Len(w) + left + Held'
      BY <1>1, <1>3, <2>1 DEF Laid
    <2> QED
      BY <1>2, <1>3, <2>2 DEF Missing
  <1>6. expectedSeq' = (b + at) % Modulus
    BY <1>2, <1>3, <1>4 DEF Element
  <1>7. Len(buffer') = x.data.index - 1
        /\ \A i \in 1..(x.data.index - 1) :
               buffer'[i] = [message |-> x.data.message, index |-> i]
    <2>1. CASE x.fir
      <3>1. x.data.index = 1
        BY <1>4, <2>1 DEF Element
      <3>2. buffer' = <<>>
        BY <1>2, <1>3, <1>4, <2>1 DEF Kept
      <3> QED
        BY <3>1, <3>2, Empty
    <2>2. CASE ~x.fir
      <3>1. inProgress /\ buffer' = buffer /\ segment.seq = expectedSeq
        BY <1>2, <1>3, <1>4, <2>2 DEF Kept, Expected, ProcessAccepts
      <3>2. at = done + 1
        BY <1>2, <3>1, NextOne
      <3>3. done > 0 /\ done \in 1..m
        BY <1>1, <3>1 DEF Laid
      <3>4. PICK y \in Segment : y = h[done] /\ ~y.fin /\ Pieces(y.data.message, y.data.index)
        BY <1>1, <1>2, <3>1, <3>3 DEF Explained, Assembled, Laid
      <3>5. Continues(y, x)
        BY <1>1, <1>3, <1>4, <3>2, <3>3, <3>4 DEF Explained, Stream, Laid
      <3>6. PICK c, e \in Nat : c = y.data.message /\ e = y.data.index
        BY SegmentFields
      <3>7. x.data.message = c /\ x.data.index = e + 1
        BY <3>4, <3>5, <3>6 DEF Continues
      <3>8. x.data.index - 1 = e
        BY <3>7
      <3>9. Len(buffer) = e /\ \A i \in 1..e : buffer[i] = [message |-> c, index |-> i]
        BY <3>4, <3>6 DEF Pieces
      <3> QED
        BY <3>1, <3>7, <3>8, <3>9
    <2> QED
      BY <2>1, <2>2
  <1>8. Assembled(h, b, at)'
    BY <1>2, <1>4, <1>6, <1>7 DEF Assembled, Pieces
  <1>9. HandedUp(h, at)'
    <2>1. \A l \in 1..Len(h) : l > at => l > done
      BY <1>1, <1>3 DEF Laid
    <2>2. at \in 1..Len(h) /\ at > done
      BY <1>1, <1>3 DEF Laid
    <2> QED
      BY <1>2, <2>1, <2>2 DEF Explained, HandedUp, Whole
  <1>10. Explained(h, b, left, ahead, w, at, at)'
    BY <1>5, <1>8, <1>9, Frames DEF Explained, ProcessAccepts, Accepting, sendVars
  <1> QED
    BY <1>10 DEF StreamInv

\* The buffer and the segment accepted.
Run(m, n) == [i \in 1..n |-> [message |-> m, index |-> i]]

LEMMA OneMore ==
    ASSUME TypeInv, NEW p \in Piece, NEW m \in Nat, NEW n \in Nat \ {0},
           Pieces(m, n - 1), p.message = m, p.index = n
    PROVE  \E v \in Seq(Piece) : v = Append(buffer, p) /\ Len(v) = n /\ v = Run(m, n)
  <1>1. Len(buffer) = n - 1 /\ \A i \in 1..(n - 1) : buffer[i] = [message |-> m, index |-> i]
    BY DEF Pieces
  <1>2. PICK v \in Seq(Piece) :
          /\ v = Append(buffer, p) /\ Len(v) = n /\ v[n] = p
          /\ \A i \in 1..(n - 1) : v[i] = buffer[i]
    <2>1. /\ Append(buffer, p) \in Seq(Piece)
          /\ Len(buffer) \in Nat /\ Len(Append(buffer, p)) = Len(buffer) + 1
          /\ Append(buffer, p)[Len(buffer) + 1] = p
          /\ \A i \in 1..Len(buffer) : Append(buffer, p)[i] = buffer[i] /\ buffer[i] \in Piece
      BY Appended, Types
    <2>2. Len(buffer) + 1 = n
      BY <1>1
    <2> QED
      BY <1>1, <2>1, <2>2, ZenonT(30)
  <1>3. p = [message |-> m, index |-> n]
    BY DEF Piece
  <1>4. \A i \in 1..n : v[i] = [message |-> m, index |-> i]
    <2> TAKE i \in 1..n
    <2>1. i = n \/ i \in 1..(n - 1)
      OBVIOUS
    <2> QED
      BY <1>1, <1>2, <1>3, <2>1
  <1>5. v = [i \in 1..n |-> v[i]]
    <2>1. v \in [1..Len(v) -> Piece]
      BY LenProperties
    <2> QED
      BY <1>2, <2>1
  <1> QED
    BY <1>2, <1>4, <1>5 DEF Run

LEMMA ProcessStoresKeeps ==
    ASSUME TypeInv, NEW h \in Seq(Segment), NEW w \in Seq(Nat),
           NEW b \in Nat, NEW left \in Nat, NEW ahead \in Nat, NEW at \in Nat, NEW done \in Nat,
           Explained(h, b, left, ahead, w, at, done),
           ProcessStores
    PROVE  StreamInv'
  <1>1. PICK m, z, u, f \in Nat : Laid(h, w, left, at, done, m, z, u, f)
    BY Places
  <1>2. /\ place = "accepted" /\ place' = "idle" /\ budget' = budget /\ count' = count
    BY DEF ProcessStores, sendVars
  <1>3. done = at /\ done \in 1..m /\ segment = h[done]
    BY <1>1, <1>2 DEF Explained, Missing, Laid
  <1>4. PICK x \in Segment : x = h[done] /\ Element(x, b + done) /\ x = segment
    BY <1>1, <1>3 DEF Explained, Stream, Laid
  <1>5. PICK c \in Nat, e \in Nat \ {0} : c = x.data.message /\ e = x.data.index
    BY SegmentFields
  <1>6. inProgress /\ Pieces(c, e - 1) /\ expectedSeq = (b + done) % Modulus
    BY <1>2, <1>4, <1>5 DEF Explained, Assembled
  <1>7. PICK v \in Seq(Piece) :
          v = Append(buffer, segment.data) /\ Len(v) = e /\ v = Run(c, e)
    <2>1. PICK p \in Piece : p = segment.data /\ p.message = c /\ p.index = e
      BY <1>4, <1>5, SegmentFields
    <2>2. \E v \in Seq(Piece) : v = Append(buffer, p) /\ Len(v) = e /\ v = Run(c, e)
      BY <1>6, <2>1, OneMore
    <2> QED
      BY <2>1, <2>2
  <1>8. Missing(h, left, w, at, done)'
    <2>1. f = 0 /\ Held' = 0 /\ Used' = u
      BY <1>1, <1>2 DEF Held, Used, Laid
    <2>2. Len(h) <= done + Used' + Len(w) + left + Held'
      BY <1>1, <2>1 DEF Laid
    <2> QED
      BY <1>2, <1>3, <2>2 DEF Missing
  <1>9. CASE x.fin
    <2>1. ~inProgress' /\ received' = Append(received, v)
      BY <1>4, <1>7, <1>9 DEF ProcessStores, Clear
    <2>2. Assembled(h, b, done)'
      BY <1>2, <2>1 DEF Assembled
    <2>3. v = Whole(c) /\ c \in DOMAIN count
      BY <1>4, <1>5, <1>7, <1>9 DEF Element, Whole, Run
    <2>4. v[1].message = c
      <3>1. 1 \in 1..e
        OBVIOUS
      <3> QED
        BY <1>7, <3>1 DEF Run
    <2>5. \A l \in 1..Len(h) : l > done => c < h[l].data.message
      <3> TAKE l \in 1..Len(h)
      <3> HAVE l > done
      <3>1. PICK y \in Segment : y = h[l] /\ Element(y, b + l)
        BY <1>1 DEF Explained, Stream, Laid
      <3>2. Before(x, y)
        BY <1>1, <1>3, <1>4, <3>1 DEF Explained, Stream, Laid
      <3>3. PICK d, g \in Nat : d = y.data.message /\ g = y.data.index
        BY SegmentFields
      <3>4. c = d => g <= count[c] /\ e = count[c]
        BY <1>4, <1>5, <1>9, <3>1, <3>3 DEF Element
      <3>5. c < d \/ (c = d /\ e < g)
        BY <1>5, <3>2, <3>3 DEF Before
      <3>6. c < d
        BY <3>4, <3>5
      <3> QED
        BY <3>1, <3>3, <3>6
    <2>6. PICK n \in Nat :
            /\ n = Len(received) /\ DOMAIN received = 1..n /\ DOMAIN received' = 1..(n + 1)
            /\ received'[n + 1] = v
            /\ \A k \in 1..n : received'[k] = received[k]
      <3>1. received \in Seq(Seq(Piece)) /\ v \in Seq(Seq(Piece)) \cup Seq(Piece)
        BY Types
      <3>2. /\ Append(received, v) \in Seq(Seq(Piece))
            /\ Len(received) \in Nat /\ Len(Append(received, v)) = Len(received) + 1
            /\ Append(received, v)[Len(received) + 1] = v
            /\ \A i \in 1..Len(received) :
                  Append(received, v)[i] = received[i] /\ received[i] \in Seq(Piece)
        BY Types, Appended
      <3>3. DOMAIN received = 1..Len(received)
            /\ DOMAIN Append(received, v) = 1..(Len(received) + 1)
        BY Types, <3>2
      <3> QED
        BY <2>1, <3>2, <3>3
    <2>7. \A k \in 1..n : \E i \in DOMAIN count :
             /\ received[k] = Whole(i)
             /\ \A l \in 1..Len(h) : l > done => i < h[l].data.message
             /\ i < c /\ received[k][1].message = i
      <3> TAKE k \in 1..n
      <3>1. PICK i \in DOMAIN count :
              /\ received[k] = Whole(i)
              /\ \A l \in 1..Len(h) : l > done => i < h[l].data.message
              /\ inProgress => i < h[done].data.message
        BY <2>6 DEF Explained, HandedUp
      <3>2. count[i] \in 1..MaxSegments
        <4>1. \A j \in 1..Len(count) : count[j] \in 1..MaxSegments
          BY Types, Within
        <4>2. DOMAIN count = 1..Len(count)
          BY Types
        <4> QED
          BY <4>1, <4>2
      <3>3. 1 \in 1..count[i]
        BY <3>2, Sizes
      <3>4. received[k][1].message = i
        BY <3>1, <3>3 DEF Whole
      <3>5. i < c
        BY <1>4, <1>5, <1>6, <3>1
      <3> QED
        BY <3>1, <3>4, <3>5
    <2>8. \A k \in 1..(n + 1) : \E i \in DOMAIN count :
             /\ received'[k] = Whole(i)
             /\ \A l \in 1..Len(h) : l > done => i < h[l].data.message
      <3> TAKE k \in 1..(n + 1)
      <3>1. k = n + 1 \/ k \in 1..n
        OBVIOUS
      <3> QED
        BY <2>3, <2>5, <2>6, <2>7, <3>1
    <2>9. \A j, k \in 1..(n + 1) : j < k => received'[j][1].message < received'[k][1].message
      <3> TAKE j, k \in 1..(n + 1)
      <3> HAVE j < k
      <3>1. j \in 1..n /\ (k = n + 1 \/ k \in 1..n)
        OBVIOUS
      <3>2. CASE k = n + 1
        BY <2>4, <2>6, <2>7, <3>1, <3>2
      <3>3. CASE k \in 1..n
        <4>1. received[j][1].message < received[k][1].message
          BY <2>6, <3>1, <3>3 DEF Explained, HandedUp
        <4> QED
          BY <2>6, <3>1, <3>3, <4>1
      <3> QED
        BY <3>1, <3>2, <3>3
    <2>10. HandedUp(h, done)'
      BY <1>2, <2>1, <2>6, <2>8, <2>9 DEF HandedUp, Whole
    <2>11. Explained(h, b, left, ahead, w, at, done)'
      BY <1>8, <2>2, <2>10, Frames DEF Explained, ProcessStores, sendVars
    <2> QED
      BY <2>11 DEF StreamInv
  <1>10. CASE ~x.fin
    <2>1. /\ buffer' = v /\ expectedSeq' = (expectedSeq + 1) % Modulus
          /\ inProgress' = inProgress /\ received' = received
      BY <1>4, <1>7, <1>10 DEF ProcessStores
    <2>2. expectedSeq' = (b + done + 1) % Modulus
      <3>1. b + done \in Nat /\ (b + done) + 1 = b + done + 1
        OBVIOUS
      <3>2. (((b + done) % Modulus) + 1) % Modulus = ((b + done) + 1) % Modulus
        BY <3>1, AddCycle, Sizes
      <3> QED
        BY <1>6, <2>1, <3>1, <3>2
    <2>3. Pieces(c, e)'
      BY <1>7, <2>1 DEF Pieces, Run
    <2>4. done > 0
      BY <1>3
    <2>5. Assembled(h, b, done)'
      BY <1>2, <1>4, <1>5, <1>10, <2>2, <2>3, <2>4 DEF Assembled
    <2>6. Explained(h, b, left, ahead, w, at, done)'
      BY <1>8, <2>1, <2>5, Frames DEF Explained, ProcessStores, sendVars
    <2> QED
      BY <2>6 DEF StreamInv
  <1> QED
    BY <1>9, <1>10

LEMMA ResetReceiverKeeps ==
    ASSUME TypeInv, NEW h \in Seq(Segment), NEW w \in Seq(Nat),
           NEW b \in Nat, NEW left \in Nat, NEW ahead \in Nat, NEW at \in Nat, NEW done \in Nat,
           Explained(h, b, left, ahead, w, at, done),
           ResetReceiver, ~raced'
    PROVE  StreamInv'
  <1>1. place # "accepted" /\ place' = place /\ ~inProgress'
    BY DEF ResetReceiver, Clear, readVars
  <1>2. budget'.losses = budget.losses
    BY Spent DEF ResetReceiver
  <1>3. Assembled(h, b, done)'
    BY <1>1 DEF Assembled
  <1>4. received' = received /\ count' = count
    BY DEF ResetReceiver, sendVars
  <1>5. HandedUp(h, done)'
    BY <1>1, <1>4 DEF Explained, HandedUp, Whole
  <1>6. Explained(h, b, left, ahead, w, at, done)'
    BY <1>2, <1>3, <1>5, Frames DEF Explained, ResetReceiver, sendVars, readVars
  <1> QED
    BY <1>6 DEF StreamInv

\* Nothing is on its way: the numbers start again.
LEMMA StartAgain ==
    /\ Modulus - 1 \in Nat
    /\ (0 + 0) % Modulus = ((Modulus - 1) + 0 + 1) % Modulus
  <1>1. PICK k \in Nat : Modulus = k + 1
    <2>1. Modulus - 1 \in Nat /\ Modulus = (Modulus - 1) + 1
      BY Sizes
    <2> QED
      BY <2>1
  <1>2. (Modulus * 0 + 0) % Modulus = 0 /\ (Modulus * 1 + 0) % Modulus = 0
    <2>1. 0 \in 0..(Modulus - 1)
      BY Sizes
    <2> QED
      BY <2>1, Remainder, Sizes
  <1>3. Modulus * 0 + 0 = 0 + 0 /\ Modulus * 1 + 0 = (Modulus - 1) + 0 + 1
    BY <1>1
  <1> QED
    BY <1>1, <1>2, <1>3

LEMMA ResetSenderKeeps ==
    ASSUME TypeInv, NEW h \in Seq(Segment), NEW w \in Seq(Nat),
           NEW b \in Nat, NEW left \in Nat, NEW ahead \in Nat, NEW at \in Nat, NEW done \in Nat,
           Explained(h, b, left, ahead, w, at, done),
           ResetSender, ~raced'
    PROVE  StreamInv'
  <1>1. /\ ~inProgress' /\ place' = "idle" /\ wire' = <<>> /\ txSequence' = 0
        /\ \A s \in Sender : ~Sending(s)'
        /\ received' = received /\ count' = count
    BY Types DEF ResetSender, readVars, rxVars, Sending
  <1>2. PICK e \in Seq(Segment) : Len(e) = 0
    BY Empty
  <1>3. PICK v \in Seq(Nat) : Len(v) = 0
    BY Empty
  <1>4. Stream(e, Modulus - 1)'
    BY <1>2 DEF Stream
  <1>5. Outgoing(e, Modulus - 1, 0, 0)'
    BY <1>1, <1>2, StartAgain DEF Outgoing
  <1>6. OnTheWay(e, 0, v, 0)'
    BY <1>1, <1>2, <1>3, Empty DEF OnTheWay
  <1>7. Missing(e, 0, v, 0, 0)'
    <2>1. budget' \in [losses : 0..MaxLosses, resets : 0..MaxResets]
      BY Spent DEF ResetSender
    <2>2. Used' \in Nat
      <3>1. budget'.losses \in 0..MaxLosses
        BY <2>1
      <3> QED
        BY <3>1, Sizes DEF Used
    <2>3. Held' = 0
      BY <1>1 DEF Held
    <2>4. Len(e) <= 0 + Used' + Len(v) + 0 + Held'
      <3>1. PICK k \in Nat : k = Used'
        BY <2>2
      <3>2. 0 <= 0 + k + 0 + 0 + 0
        OBVIOUS
      <3> QED
        BY <1>2, <1>3, <2>3, <3>1, <3>2, Zenon
    <2> QED
      BY <1>1, <2>4 DEF Missing
  <1>8. Assembled(e, Modulus - 1, 0)'
    BY <1>1 DEF Assembled
  <1>9. HandedUp(e, 0)'
    <2>1. \A l \in 1..Len(e) : FALSE
      BY <1>2
    <2> QED
      BY <1>1, <2>1 DEF Explained, HandedUp, Whole
  <1>10. Explained(e, Modulus - 1, 0, 0, v, 0, 0)'
    BY <1>4, <1>5, <1>6, <1>7, <1>8, <1>9 DEF Explained
  <1> QED
    BY <1>10, StartAgain DEF StreamInv

LEMMA StreamInit ==
    ASSUME Init
    PROVE  StreamInv
  <1>1. /\ ~inProgress /\ place = "idle" /\ wire = <<>> /\ txSequence = 0 /\ received = <<>>
        /\ \A s \in Sender : ~Sending(s)
    BY DEF Init, Sending
  <1>2. PICK e \in Seq(Segment) : Len(e) = 0
    BY Empty
  <1>3. PICK v \in Seq(Nat) : Len(v) = 0
    BY Empty
  <1>4. Stream(e, Modulus - 1)
    BY <1>2 DEF Stream
  <1>5. Outgoing(e, Modulus - 1, 0, 0)
    BY <1>1, <1>2, StartAgain DEF Outgoing
  <1>6. OnTheWay(e, 0, v, 0)
    BY <1>1, <1>2, <1>3, Empty DEF OnTheWay
  <1>7. Missing(e, 0, v, 0, 0)
    <2>1. Used = 0 /\ Held = 0
      BY Sizes DEF Init, Used, Held
    <2> QED
      BY <1>1, <1>2, <1>3, <2>1 DEF Missing
  <1>8. Assembled(e, Modulus - 1, 0)
    BY <1>1 DEF Assembled
  <1>9. HandedUp(e, 0)
    <2>1. DOMAIN received = {}
      BY <1>1
    <2> QED
      BY <2>1 DEF HandedUp
  <1>10. Explained(e, Modulus - 1, 0, 0, v, 0, 0)
    BY <1>4, <1>5, <1>6, <1>7, <1>8, <1>9 DEF Explained
  <1> QED
    BY <1>10, StartAgain DEF StreamInv

LEMMA StreamNext ==
    ASSUME MaxLosses < Modulus, TypeInv, ~raced => StreamInv, [Next]_vars, ~raced'
    PROVE  StreamInv'
  <1>1. ~raced
    <2>1. CASE UNCHANGED vars
      BY <2>1 DEF vars
    <2>2. CASE Next
      BY <2>2 DEF Next, Send, Receive, SendReads, SendAdvances, WriteSegment, WriteFails,
                  LoseSegment, TakeSegment, ProcessDiscards, ProcessAccepts, ProcessStores,
                  Dropped, Accepting, ResetReceiver, ResetSender
    <2> QED
      BY <2>1, <2>2
  <1>2. PICK h \in Seq(Segment), w \in Seq(Nat), b, left, ahead, at, done \in Nat :
          Explained(h, b, left, ahead, w, at, done)
    BY <1>1 DEF StreamInv
  <1>3. ASSUME NEW s \in Sender, SendReads(s) PROVE StreamInv'
    BY <1>2, <1>3, SendReadsKeeps
  <1>4. ASSUME NEW s \in Sender, SendAdvances(s) PROVE StreamInv'
    BY <1>2, <1>4, SendAdvancesKeeps
  <1>5. ASSUME NEW s \in Sender, WriteSegment(s) PROVE StreamInv'
    BY <1>2, <1>5, WriteSegmentKeeps
  <1>6. ASSUME NEW s \in Sender, WriteFails(s) PROVE StreamInv'
    BY <1>2, <1>6, WriteFailsKeeps
  <1>7. CASE LoseSegment
    BY <1>2, <1>7, LoseSegmentKeeps
  <1>8. CASE TakeSegment
    BY <1>2, <1>8, TakeSegmentKeeps
  <1>9. CASE ProcessDiscards
    BY <1>2, <1>9, ProcessDiscardsKeeps
  <1>10. CASE ProcessAccepts
    BY <1>2, <1>10, ProcessAcceptsKeeps
  <1>11. CASE ProcessStores
    BY <1>2, <1>11, ProcessStoresKeeps
  <1>12. CASE ResetReceiver
    BY <1>2, <1>12, ResetReceiverKeeps
  <1>13. CASE ResetSender
    BY <1>2, <1>13, ResetSenderKeeps
  <1>14. CASE UNCHANGED vars
    <2>1. Explained(h, b, left, ahead, w, at, done)'
      BY <1>2, <1>14, Frames DEF Explained, vars, sendVars, readVars, rxVars
    <2> QED
      BY <1>2, <2>1 DEF StreamInv
  <1> QED
    BY <1>3, <1>4, <1>5, <1>6, <1>7, <1>8, <1>9, <1>10, <1>11, <1>12, <1>13, <1>14
    DEF Next, Send, Receive

\* What Layer.Receive returns are the messages that were sent, whole and in order, for
\* any numbers of senders, segments and messages, as long as fewer segments are lost than
\* there are sequence numbers: with that many lost the next number would look expected.
THEOREM MessagesAreWhole ==
    ASSUME MaxLosses < Modulus
    PROVE  Spec => []WholeMessages
  <1> DEFINE Inv == TypeInv /\ (~raced => StreamInv)
  <1>1. Init => Inv
    BY TypeInit, StreamInit
  <1>2. Inv /\ [Next]_vars => Inv'
    BY TypeNext, StreamNext
  <1>3. Inv => WholeMessages
    BY DEF StreamInv, Explained, HandedUp, WholeMessages
  <1> HIDE DEF Inv
  <1> QED
    BY <1>1, <1>2, <1>3, PTL DEF Spec

-----------------------------------------------------------------------------
(* The layer implements LinkService, one way.                              *)

\* The messages that Layer.Receive returned, by their numbers.
Numbered == [k \in DOMAIN received |-> received[k][1].message]

Offered == [s \in {"sender", "receiver"} |-> IF s = "sender" THEN Len(count) ELSE 0]
HandedOver == [s \in {"sender", "receiver"} |-> IF s = "sender" THEN <<>> ELSE Numbered]

Service == INSTANCE LinkService WITH
    Master <- "sender", Outstation <- "receiver",
    offered <- Offered, delivered <- HandedOver

\* What a step does to what LinkService sees.
LEMMA MessagesMove ==
    ASSUME [Next]_vars
    PROVE  \/ UNCHANGED <<count, received>>
           \/ (\E n : count' = Append(count, n)) /\ UNCHANGED received
           \/ UNCHANGED count /\ \E x : received' = Append(received, x)
  <1> USE DEF sendVars, readVars, rxVars
  <1>1. ASSUME NEW s \in Sender, Send(s)
        PROVE  \/ UNCHANGED <<count, received>>
               \/ (\E n : count' = Append(count, n)) /\ UNCHANGED received
    BY <1>1 DEF Send, SendReads, SendAdvances, WriteSegment, WriteFails
  <1>2. CASE Receive
    BY <1>2 DEF Receive, TakeSegment, ProcessDiscards, ProcessAccepts, ProcessStores, Dropped, Accepting
  <1>3. CASE LoseSegment \/ ResetReceiver \/ ResetSender
    BY <1>3 DEF LoseSegment, ResetReceiver, ResetSender
  <1>4. CASE UNCHANGED vars
    BY <1>4 DEF vars
  <1> QED
    BY <1>1, <1>2, <1>3, <1>4 DEF Next

LEMMA NumberedIsMessage ==
    ASSUME TypeInv, WholeMessages, ~raced, NEW k \in DOMAIN received
    PROVE  \E m \in 1..Len(count) : received[k][1].message = m
  <1>1. PICK m \in DOMAIN count : received[k] = Whole(m)
    BY DEF WholeMessages
  <1>2. count[m] \in 1..MaxSegments /\ m \in 1..Len(count)
    <2>1. \A j \in 1..Len(count) : count[j] \in 1..MaxSegments
      BY Types, Within
    <2>2. DOMAIN count = 1..Len(count)
      BY Types
    <2> QED
      BY <1>1, <2>1, <2>2
  <1>3. 1 \in 1..count[m]
    BY <1>2, Sizes
  <1>4. received[k][1].message = m
    BY <1>1, <1>3 DEF Whole
  <1> QED
    BY <1>2, <1>4

LEMMA ServiceStep ==
    ASSUME TypeInv, TypeInv', WholeMessages, WholeMessages', ~raced, ~raced', [Next]_vars
    PROVE  [Service!Next]_<<Offered, HandedOver>>
  <1>1. CASE UNCHANGED <<count, received>>
    BY <1>1 DEF Offered, HandedOver, Numbered
  <1>2. ASSUME NEW n, count' = Append(count, n), UNCHANGED received, count \in Seq(1..MaxSegments)
        PROVE  Service!Offer("sender")
    <2>1. Len(count') = Len(count) + 1
      BY <1>2
    <2>2. Offered' = [Offered EXCEPT !["sender"] = @ + 1]
      BY <2>1 DEF Offered
    <2>3. HandedOver' = HandedOver
      BY <1>2 DEF HandedOver, Numbered
    <2> QED
      BY <2>2, <2>3 DEF Service!Offer
  <1>3. ASSUME NEW x, received' = Append(received, x), UNCHANGED count
        PROVE  Service!Deliver("receiver")
    <2>1. PICK n \in Nat :
            /\ n = Len(received) /\ DOMAIN received = 1..n /\ DOMAIN received' = 1..(n + 1)
            /\ received'[n + 1] = x
            /\ \A k \in 1..n : received'[k] = received[k]
      <3>1. received \in Seq(Seq(Piece)) /\ received' \in Seq(Seq(Piece))
        BY Types DEF TypeInv, TypeOK
      <3>2. PICK P : P = Seq(Piece)
        OBVIOUS
      <3>3. received \in Seq(P) /\ received' \in Seq(P)
        BY <3>1, <3>2
      <3> QED
        BY <1>3, <3>3
    <2>2. n + 1 \in DOMAIN received'
      BY <2>1
    <2>3. PICK m \in 1..Len(count) : x[1].message = m
      <3>1. PICK m \in DOMAIN count : x = Whole(m)
        <4>1. \A k \in DOMAIN received' : \E m \in DOMAIN count' :
                 received'[k] = [i \in 1..count'[m] |-> [message |-> m, index |-> i]]
          BY DEF WholeMessages, Whole
        <4>2. PICK m \in DOMAIN count' :
                 received'[n + 1] = [i \in 1..count'[m] |-> [message |-> m, index |-> i]]
          BY <2>2, <4>1
        <4> QED
          BY <1>3, <2>1, <4>2 DEF Whole
      <3>2. count[m] \in 1..MaxSegments /\ m \in 1..Len(count)
        <4>1. \A j \in 1..Len(count) : count[j] \in 1..MaxSegments
          BY Types, Within
        <4>2. DOMAIN count = 1..Len(count)
          BY Types
        <4> QED
          BY <3>1, <4>1, <4>2
      <3>3. 1 \in 1..count[m]
        BY <3>2, Sizes
      <3> QED
        BY <3>1, <3>2, <3>3 DEF Whole
    <2>4. PICK v \in Seq(Nat) : v = Numbered /\ Len(v) = n /\ \A k \in 1..n : v[k] < m
      <3>1. \A k \in 1..n : received[k][1].message \in Nat /\ received[k][1].message < m
        <4> TAKE k \in 1..n
        <4>1. k \in DOMAIN received' /\ n + 1 \in DOMAIN received' /\ k < n + 1 /\ k \in DOMAIN received
          BY <2>1
        <4>2. received'[k][1].message < received'[n + 1][1].message
          BY <4>1 DEF WholeMessages
        <4>3. \E j \in 1..Len(count) : received[k][1].message = j
          BY <4>1, NumberedIsMessage
        <4> QED
          BY <2>1, <2>3, <4>1, <4>2, <4>3
      <3>2. [k \in 1..n |-> received[k][1].message] \in Seq(Nat)
        BY <3>1
      <3>3. Numbered = [k \in 1..n |-> received[k][1].message]
        BY <2>1 DEF Numbered
      <3>4. /\ Len([k \in 1..n |-> received[k][1].message]) = n
            /\ \A i \in 1..n : [k \in 1..n |-> received[k][1].message][i] = received[i][1].message
        BY <2>1
      <3> QED
        BY <3>1, <3>2, <3>3, <3>4
    <2>5. Numbered' = Append(v, m)
      <3>1. Numbered' = [k \in 1..(n + 1) |-> received'[k][1].message]
        BY <2>1 DEF Numbered
      <3>2. \A k \in 1..(n + 1) : received'[k][1].message = IF k = n + 1 THEN m ELSE v[k]
        <4> TAKE k \in 1..(n + 1)
        <4>1. k = n + 1 \/ (k \in 1..n /\ k # n + 1)
          BY <2>1
        <4>2. k \in 1..n => v[k] = received[k][1].message
          BY <2>1, <2>4 DEF Numbered
        <4> QED
          BY <2>1, <2>3, <4>1, <4>2
      <3>3. Append(v, m) = [k \in 1..(n + 1) |-> IF k = n + 1 THEN m ELSE v[k]]
        <4>1. PICK u \in Seq(Nat) :
                /\ u = Append(v, m) /\ Len(u) = n + 1 /\ u[n + 1] = m
                /\ \A k \in 1..n : u[k] = v[k]
          <5>1. m \in Nat
            BY <2>3, Types
          <5>2. PICK l \in Nat : l = m
            BY <5>1
          <5>3. /\ Append(v, l) \in Seq(Nat) /\ Len(Append(v, l)) = Len(v) + 1
                /\ Append(v, l)[Len(v) + 1] = l
                /\ \A i \in 1..Len(v) : Append(v, l)[i] = v[i]
            BY Appended
          <5> QED
            BY <2>4, <5>2, <5>3
        <4>2. u = [k \in 1..(n + 1) |-> u[k]]
          <5>1. u \in [1..Len(u) -> Nat]
            BY LenProperties
          <5> QED
            BY <4>1, <5>1
        <4>3. \A k \in 1..(n + 1) : u[k] = IF k = n + 1 THEN m ELSE v[k]
          <5> TAKE k \in 1..(n + 1)
          <5>1. k = n + 1 \/ (k \in 1..n /\ k # n + 1)
            BY <2>1
          <5> QED
            BY <4>1, <5>1
        <4> QED
          BY <4>1, <4>2, <4>3
      <3> QED
        BY <3>1, <3>2, <3>3
    <2>6. m \in (Service!LastOf(v) + 1)..Len(count)
      <3>1. m \in 1..Len(count) /\ Len(count) \in Nat
        BY <2>3, Types
      <3>2. CASE v = <<>>
        BY <3>1, <3>2 DEF Service!LastOf
      <3>3. CASE v # <<>>
        <4>1. n \in 1..n /\ v[n] \in Nat
          BY <2>1, <2>4, <3>3
        <4>2. PICK y \in Nat : y = v[n] /\ y < m /\ y = Service!LastOf(v)
          BY <2>4, <3>3, <4>1 DEF Service!LastOf
        <4>3. m \in (y + 1)..Len(count)
          BY <3>1, <4>2
        <4> QED
          BY <4>2, <4>3
      <3> QED
        BY <3>2, <3>3
    <2>7. HandedOver["receiver"] = v /\ Offered["sender"] = Len(count)
      BY <2>4 DEF HandedOver, Offered
    <2>8. HandedOver' = [HandedOver EXCEPT !["receiver"] = Append(@, m)]
      BY <2>4, <2>5 DEF HandedOver
    <2>9. Offered' = Offered
      BY <1>3 DEF Offered
    <2> QED
      BY <2>6, <2>7, <2>8, <2>9 DEF Service!Deliver, Service!Peer
  <1>4. "sender" \in Service!Station /\ "receiver" \in Service!Station
    BY DEF Service!Station
  <1>5. Service!Offer("sender") \/ Service!Deliver("receiver") => Service!Next
    BY <1>4 DEF Service!Next
  <1>6. \/ UNCHANGED <<count, received>>
        \/ (\E n : count' = Append(count, n)) /\ UNCHANGED received
        \/ UNCHANGED count /\ \E x : received' = Append(received, x)
    BY MessagesMove
  <1>7. count \in Seq(1..MaxSegments)
    BY Types
  <1> QED
    BY <1>1, <1>2, <1>3, <1>5, <1>6, <1>7

\* What the two ends promise.
DeliveryService == Service!Spec

\* As long as no connection comes or goes in the middle of a message, one goroutine sends
\* at a time and fewer segments are lost than there are sequence numbers, the two Layers
\* keep the promise of LinkService one way (SendAPDU, Layer.Receive, Reassembler.Process):
\* the messages Receive returns were sent, in order and each at most once.
THEOREM ImplementsService ==
    ASSUME MaxLosses < Modulus
    PROVE  Spec /\ []~raced => DeliveryService
  <1>1. Init => Service!Init
    <2> SUFFICES ASSUME Init PROVE Service!Init
      OBVIOUS
    <2>1. count = <<>> /\ received = <<>> /\ Len(count) = 0
      BY DEF Init
    <2>2. Numbered = <<>>
      BY <2>1 DEF Numbered
    <2> QED
      BY <2>1, <2>2 DEF Service!Init, Service!Station, Offered, HandedOver
  <1>2. TypeInv /\ TypeInv' /\ WholeMessages /\ WholeMessages' /\ ~raced /\ (~raced)' /\ [Next]_vars
           => [Service!Next]_<<Offered, HandedOver>>
    BY ServiceStep
  <1>3. Init => TypeInv
    BY TypeInit
  <1>4. TypeInv /\ [Next]_vars => TypeInv'
    BY TypeNext
  <1> QED
    BY <1>1, <1>2, <1>3, <1>4, MessagesAreWhole, PTL DEF Spec, DeliveryService, Service!Spec
=================================================================================
