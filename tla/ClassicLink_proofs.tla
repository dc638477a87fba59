----------------------------- MODULE ClassicLink_proofs -----------------------------
(***************************************************************************)
(* Theorems about ClassicLink, for any number of callers and calls, any    *)
(* losses and retries, and queues of any size.                             *)
(***************************************************************************)
EXTENDS ClassicLink, Integers, TLAPS

LEMMA Appended ==
    ASSUME NEW S, NEW s \in Seq(S), NEW x \in S, NEW t, t = Append(s, x)
    PROVE  /\ t \in Seq(S) /\ Len(t) = Len(s) + 1 /\ Len(s) \in Nat
           /\ DOMAIN s = 1..Len(s) /\ DOMAIN t = 1..Len(t)
           /\ t[Len(t)] = x /\ \A i \in 1..Len(s) : t[i] = s[i]
  OBVIOUS

LEMMA Removed ==
    ASSUME NEW S, NEW s \in Seq(S), s # <<>>, NEW t, t = Tail(s)
    PROVE  /\ t \in Seq(S) /\ Len(t) = Len(s) - 1 /\ Len(s) \in Nat \ {0}
           /\ DOMAIN s = 1..Len(s) /\ DOMAIN t = 1..Len(t)
           /\ Head(s) = s[1] /\ s[1] \in S /\ \A i \in 1..Len(t) : t[i] = s[i + 1]
  OBVIOUS

LEMMA Claims ==
    /\ DOMAIN Claiming = {"Reset", "Test", "Data"}
    /\ Claiming["Reset"] = "ResetPending" /\ Claiming["Test"] = "TestPending"
    /\ Claiming["Data"] = "WaitACK"
  BY DEF Claiming

LEMMA Frames ==
    /\ PrimaryFn = {"Reset", "Test", "Data", "Process", "Status", "Unconfirmed"}
    /\ \A fn \in PrimaryFn, bit \in BOOLEAN, n \in Nat :
          /\ Primary(fn, bit, n) \in PrimaryFrame
          /\ Primary(fn, bit, n).fn = fn /\ Primary(fn, bit, n).n = n
          /\ Primary(fn, bit, n).fcb = bit
    /\ NoFrame \in PrimaryFrame
    /\ NotCalling.place = "idle" /\ NotCalling.frame = NoFrame
    /\ NotCalling \in [place : Place \cup {"idle"}, frame : PrimaryFrame, read : Nat,
                       copy : PrimaryFrame]
  <1>1. PrimaryFn = {"Reset", "Test", "Data", "Process", "Status", "Unconfirmed"}
    BY Claims DEF PrimaryFn
  <1> QED
    BY <1>1 DEF Primary, PrimaryFrame, NoFrame, NotCalling, Place

-----------------------------------------------------------------------------
(* Types.                                                                  *)

CallRecord == [place : Place \cup {"idle"}, frame : PrimaryFrame, read : Nat,
               copy : PrimaryFrame]

LEMMA TypeInit == Init => TypeOK
  <1> SUFFICES ASSUME Init PROVE TypeOK
    OBVIOUS
  <1>1. call \in [Caller -> CallRecord]
    BY Frames DEF Init, CallRecord
  <1>2. budget \in [data : 0..MaxData, unsolicited : 0..MaxUnsolicited,
                    failures : 0..MaxFailures, stops : 0..MaxStops]
    BY ClassicLinkAssumption DEF Init
  <1>3. /\ responses \in Seq(SecondaryFn) /\ toOutstation \in Seq(PrimaryFrame)
        /\ toMaster \in Seq(SecondaryFn) /\ delivered \in Seq(Nat)
        /\ Len(responses) = 0 /\ Len(toOutstation) = 0 /\ Len(toMaster) = 0
    BY DEF Init
  <1>4. 0 <= ResponseSize /\ 0 <= SendSize
    BY ClassicLinkAssumption
  <1> QED
    BY <1>1, <1>2, <1>3, <1>4, Frames DEF Init, TypeOK, CallRecord

BudgetType == [data : 0..MaxData, unsolicited : 0..MaxUnsolicited,
               failures : 0..MaxFailures, stops : 0..MaxStops]

LEMMA Spending ==
    ASSUME TypeOK, NEW what \in {"data", "unsolicited", "failures", "stops"}, Spend(what)
    PROVE  budget' \in BudgetType
  BY ClassicLinkAssumption, SMTT(20) DEF TypeOK, Spend, BudgetType

LEMMA CallTypes ==
    ASSUME TypeOK, NEW c \in Caller
    PROVE  /\ call[c] \in CallRecord
           /\ \A p \in Place : [call EXCEPT ![c].place = p] \in [Caller -> CallRecord]
           /\ \A p \in Place, n \in Nat :
                 [call EXCEPT ![c].place = p, ![c].read = n] \in [Caller -> CallRecord]
           /\ \A p \in Place, f \in PrimaryFrame :
                 [call EXCEPT ![c].place = p, ![c].copy = f] \in [Caller -> CallRecord]
           /\ [call EXCEPT ![c] = NotCalling] \in [Caller -> CallRecord]
           /\ \A f \in PrimaryFrame :
                 [call EXCEPT ![c] = [NotCalling EXCEPT !.place = "begun", !.frame = f]]
                     \in [Caller -> CallRecord]
  <1>1. call \in [Caller -> CallRecord]
    BY DEF TypeOK, CallRecord
  <1>2. /\ call[c] \in CallRecord
        /\ \A p \in Place : [call[c] EXCEPT !.place = p] \in CallRecord
        /\ \A p \in Place, n \in Nat : [call[c] EXCEPT !.place = p, !.read = n] \in CallRecord
        /\ \A p \in Place, f \in PrimaryFrame :
              [call[c] EXCEPT !.place = p, !.copy = f] \in CallRecord
    BY <1>1 DEF CallRecord
  <1>3. /\ NotCalling \in CallRecord
        /\ \A f \in PrimaryFrame :
              [NotCalling EXCEPT !.place = "begun", !.frame = f] \in CallRecord
    <2>1. NotCalling \in CallRecord /\ "begun" \in Place
      BY Frames DEF CallRecord, Place
    <2> QED
      BY <2>1 DEF CallRecord
  <1>4. \A x \in CallRecord : [call EXCEPT ![c] = x] \in [Caller -> CallRecord]
    BY <1>1
  <1>5. /\ \A p \in Place : [call EXCEPT ![c].place = p] \in [Caller -> CallRecord]
        /\ \A p \in Place, n \in Nat :
              [call EXCEPT ![c].place = p, ![c].read = n] \in [Caller -> CallRecord]
        /\ \A p \in Place, f \in PrimaryFrame :
              [call EXCEPT ![c].place = p, ![c].copy = f] \in [Caller -> CallRecord]
    <2>1. \A p \in Place : [call EXCEPT ![c].place = p] = [call EXCEPT ![c] = [call[c] EXCEPT !.place = p]]
      BY <1>1
    <2>2. \A p \in Place, n \in Nat :
            [call EXCEPT ![c].place = p, ![c].read = n]
                = [call EXCEPT ![c] = [call[c] EXCEPT !.place = p, !.read = n]]
      BY <1>1
    <2>3. \A p \in Place, f \in PrimaryFrame :
            [call EXCEPT ![c].place = p, ![c].copy = f]
                = [call EXCEPT ![c] = [call[c] EXCEPT !.place = p, !.copy = f]]
      BY <1>1
    <2> QED
      BY <1>2, <1>4, <2>1, <2>2, <2>3, ZenonT(30)
  <1> QED
    BY <1>2, <1>3, <1>4, <1>5

LEMMA ConcludeTypes ==
    ASSUME TypeOK, NEW c \in Caller, NEW ok \in BOOLEAN, Conclude(c, ok)
    PROVE  /\ call' \in [Caller -> CallRecord]
           /\ state' \in {"Idle", "ResetPending", "TestPending", "WaitACK", "Error"}
           /\ fcb' \in BOOLEAN
           /\ succeeded' \subseteq Nat
           /\ UNCHANGED <<stopped, toMaster, outVars, budget, issued>>
  <1>1. call[c].frame \in PrimaryFrame /\ call[c].frame.n \in Nat
    BY DEF TypeOK, PrimaryFrame
  <1>2. call' \in [Caller -> CallRecord]
    BY CallTypes DEF Conclude
  <1>3. state' \in {"Idle", "ResetPending", "TestPending", "WaitACK", "Error"}
    BY DEF Conclude, TypeOK
  <1>4. fcb' \in BOOLEAN
    BY DEF Conclude, TypeOK
  <1>5. succeeded' \subseteq Nat
    BY <1>1 DEF Conclude, TypeOK
  <1> QED
    BY <1>2, <1>3, <1>4, <1>5 DEF Conclude

\* What is sent fits, and is a frame.
LEMMA TransmitTypes ==
    ASSUME TypeOK, NEW f \in PrimaryFrame, Transmit(f)
    PROVE  toOutstation' \in Seq(PrimaryFrame) /\ Len(toOutstation') <= SendSize
  BY ClassicLinkAssumption, Appended DEF TypeOK, Transmit

LEMMA AnswerTypes ==
    ASSUME TypeOK, NEW fn \in SecondaryFn, toMaster' = Append(toMaster, fn),
           Len(toMaster) < SendSize
    PROVE  toMaster' \in Seq(SecondaryFn) /\ Len(toMaster') <= SendSize
  BY ClassicLinkAssumption, Appended DEF TypeOK

LEMMA TakeTypes ==
    ASSUME TypeOK, toOutstation # <<>>, toOutstation' = Tail(toOutstation)
    PROVE  /\ toOutstation' \in Seq(PrimaryFrame) /\ Len(toOutstation') <= SendSize
           /\ Head(toOutstation) \in PrimaryFrame
           /\ Head(toOutstation).n \in Nat /\ Head(toOutstation).fcb \in BOOLEAN
  <1>1. toOutstation \in Seq(PrimaryFrame) /\ Len(toOutstation) <= SendSize
    BY DEF TypeOK
  <1>2. /\ toOutstation' \in Seq(PrimaryFrame) /\ Head(toOutstation) \in PrimaryFrame
        /\ Len(toOutstation') = Len(toOutstation) - 1
    BY <1>1, Removed
  <1>3. Len(toOutstation) \in Nat /\ SendSize \in Nat
    BY <1>1, ClassicLinkAssumption
  <1> QED
    BY <1>1, <1>2, <1>3 DEF PrimaryFrame

LEMMA CallerTypes ==
    ASSUME TypeOK, NEW c \in Caller, Calling(c) \/ GoesOn(c)
    PROVE  TypeOK'
  <1> USE DEF CallRecord, sharedVars, outVars, ghostVars
  <1>1. call[c].frame \in PrimaryFrame /\ call[c].copy \in PrimaryFrame /\ call[c].read \in Nat
    BY DEF TypeOK
  <1>2. budget \in BudgetType
    BY DEF TypeOK, BudgetType
  <1>3. CASE SendConfirmedUserData(c)
    <2>1. issued + 1 \in Nat /\ (~fcb) \in BOOLEAN
      BY DEF TypeOK
    <2>2. Primary("Data", ~fcb, issued + 1) \in PrimaryFrame
      BY <2>1, Frames
    <2>3. call' \in [Caller -> CallRecord]
      BY <1>3, <2>2, CallTypes DEF SendConfirmedUserData, Begins
    <2>4. budget' \in BudgetType
      BY <1>3, Spending DEF SendConfirmedUserData
    <2>5. state' = "WaitACK" /\ fcb' \in BOOLEAN /\ issued' \in Nat
      BY <1>3, <2>1, Claims DEF SendConfirmedUserData
    <2> QED
      BY <1>3, <2>3, <2>4, <2>5 DEF SendConfirmedUserData, Begins, TypeOK, BudgetType
  <1>4. ASSUME NEW op \in {"Reset", "Test"}, Claim(c, op) PROVE TypeOK'
    <2>1. Primary(op, FALSE, 0) \in PrimaryFrame
      BY Frames
    <2>2. call' \in [Caller -> CallRecord]
      BY <1>4, <2>1, CallTypes DEF Claim, Begins
    <2>3. budget' \in BudgetType
      BY <1>2, <1>4 DEF Claim
    <2>4. state' \in {"ResetPending", "TestPending"}
      BY <1>4, Claims DEF Claim
    <2> QED
      BY <1>4, <2>2, <2>3, <2>4 DEF Claim, Begins, TypeOK, BudgetType
  <1>5. ASSUME NEW op \in {"Process", "Status"}, Share(c, op) PROVE TypeOK'
    <2>1. Primary(op, FALSE, 0) \in PrimaryFrame
      BY Frames
    <2>2. call' \in [Caller -> CallRecord]
      BY <1>5, <2>1, CallTypes DEF Share, Begins
    <2>3. budget' \in BudgetType
      BY <1>2, <1>5 DEF Share
    <2> QED
      BY <1>5, <2>2, <2>3 DEF Share, Begins, TypeOK, BudgetType
  <1>6. CASE SendUnconfirmedUserData(c)
    <2>1. Primary("Unconfirmed", FALSE, 0) \in PrimaryFrame
      BY Frames
    <2>2. toOutstation' \in Seq(PrimaryFrame) /\ Len(toOutstation') <= SendSize
      BY <1>6, <2>1, TransmitTypes DEF SendUnconfirmedUserData
    <2>3. budget' \in BudgetType
      BY <1>2, <1>6 DEF SendUnconfirmedUserData
    <2> QED
      BY <1>6, <2>2, <2>3 DEF SendUnconfirmedUserData, TypeOK, BudgetType
  <1>7. CASE StartSending(c)
    <2>1. call' \in [Caller -> CallRecord]
      BY <1>7, CallTypes DEF StartSending, Move, Place
    <2>2. shared' \in BOOLEAN
      BY <1>7 DEF StartSending
    <2> QED
      BY <1>1, <1>7, <2>1, <2>2 DEF StartSending, TypeOK
  <1>8. CASE Send(c)
    <2>1. call' \in [Caller -> CallRecord]
      BY <1>8, CallTypes DEF Send, Move, Place
    <2>2. toOutstation' \in Seq(PrimaryFrame) /\ Len(toOutstation') <= SendSize
      BY <1>1, <1>8, TransmitTypes DEF Send
    <2> QED
      BY <1>8, <2>1, <2>2 DEF Send, TypeOK
  <1>9. CASE SendNot(c) \/ WaitNot(c)
    <2>1. Conclude(c, FALSE)
      BY <1>9 DEF SendNot, WaitNot
    <2>2. UNCHANGED <<lastSent, retryCount, responses, toOutstation, early, shared>>
      BY <1>9 DEF SendNot, WaitNot
    <2> QED
      BY <2>1, <2>2, ConcludeTypes DEF TypeOK
  <1>10. CASE TakeResponse(c)
    <2>1. /\ responses # <<>> /\ responses' = Tail(responses)
          /\ UNCHANGED <<lastSent, retryCount, toOutstation, early, shared>>
      BY <1>10 DEF TakeResponse
    <2>2. responses' \in Seq(SecondaryFn) /\ Len(responses') <= ResponseSize
      <3>1. responses \in Seq(SecondaryFn) /\ Len(responses) <= ResponseSize
        BY DEF TypeOK
      <3>2. /\ responses' \in Seq(SecondaryFn) /\ Len(responses') = Len(responses) - 1
            /\ Len(responses) \in Nat /\ ResponseSize \in Nat
        BY <2>1, <3>1, Removed, ClassicLinkAssumption
      <3> QED
        BY <3>1, <3>2
    <2>3. CASE Head(responses) = "Nack"
      <3>1. call' = [call EXCEPT ![c].place = "refused", ![c].read = retryCount]
        BY <1>10, <2>3 DEF TakeResponse
      <3>2. call' \in [Caller -> CallRecord]
        BY <3>1, CallTypes DEF Place, TypeOK
      <3> QED
        BY <1>10, <2>1, <2>2, <2>3, <3>2 DEF TakeResponse, TypeOK
    <2>4. CASE Head(responses) # "Nack"
      <3>1. Conclude(c, TRUE)
        BY <1>10, <2>4 DEF TakeResponse
      <3> QED
        BY <2>1, <2>2, <3>1, ConcludeTypes DEF TypeOK
    <2> QED
      BY <2>3, <2>4
  <1>11. CASE Timeout(c)
    <2>1. call' \in [Caller -> CallRecord]
      BY <1>11, CallTypes DEF Timeout, Place, TypeOK
    <2>2. early' \in BOOLEAN
      BY <1>11 DEF Timeout
    <2> QED
      BY <1>11, <2>1, <2>2 DEF Timeout, TypeOK
  <1>12. CASE CountTimeout(c)
    <2>1. /\ retryCount' \in Nat
          /\ UNCHANGED <<lastSent, responses, toOutstation, early, shared>>
      BY <1>1, <1>12 DEF CountTimeout, Incremented
    <2>2. CASE retryCount' > MaxRetries
      <3>1. Conclude(c, FALSE)
        BY <1>12, <2>2 DEF CountTimeout
      <3> QED
        BY <2>1, <3>1, ConcludeTypes DEF TypeOK
    <2>3. CASE ~(retryCount' > MaxRetries)
      <3>1. call' \in [Caller -> CallRecord]
        <4>1. call' = [call EXCEPT ![c].place = "sending"]
          BY <1>12, <2>3 DEF CountTimeout, Move
        <4>2. "sending" \in Place
          BY DEF Place
        <4> QED
          BY <4>1, <4>2, CallTypes
      <3> QED
        BY <1>12, <2>1, <2>3, <3>1 DEF CountTimeout, TypeOK
    <2> QED
      BY <2>2, <2>3
  <1>13. CASE CountRefusal(c)
    <2>1. /\ retryCount' \in Nat
          /\ UNCHANGED <<lastSent, responses, toOutstation, early, shared>>
      BY <1>1, <1>13 DEF CountRefusal, Incremented
    <2>2. CASE retryCount' > MaxRetries
      <3>1. Conclude(c, FALSE)
        BY <1>13, <2>2 DEF CountRefusal
      <3> QED
        BY <2>1, <3>1, ConcludeTypes DEF TypeOK
    <2>3. CASE ~(retryCount' > MaxRetries)
      <3>1. lastSent \in PrimaryFrame
        BY DEF TypeOK
      <3>2. call' \in [Caller -> CallRecord]
        <4>1. call' = [call EXCEPT ![c].place = "resending", ![c].copy = lastSent]
          BY <1>13, <2>3 DEF CountRefusal
        <4>2. "resending" \in Place
          BY DEF Place
        <4> QED
          BY <3>1, <4>1, <4>2, CallTypes
      <3> QED
        BY <1>13, <2>1, <2>3, <3>2 DEF CountRefusal, TypeOK
    <2> QED
      BY <2>2, <2>3
  <1>14. CASE Resend(c)
    <2>1. toOutstation' \in Seq(PrimaryFrame) /\ Len(toOutstation') <= SendSize
      BY <1>1, <1>14, TransmitTypes DEF Resend
    <2>2. Conclude(c, TRUE) /\ UNCHANGED <<lastSent, retryCount, responses, early, shared>>
      BY <1>14 DEF Resend
    <2> QED
      BY <2>1, <2>2, ConcludeTypes DEF TypeOK
  <1> QED
    BY <1>3, <1>4, <1>5, <1>6, <1>7, <1>8, <1>9, <1>10, <1>11, <1>12, <1>13, <1>14
    DEF Calling, GoesOn

LEMMA OtherTypes ==
    ASSUME TypeOK, Stop \/ OutstationHandles \/ SendUnsolicitedData \/ MasterReceives \/ LoseRequest \/ LoseResponse
    PROVE  TypeOK'
  <1> USE DEF CallRecord, sharedVars, outVars, ghostVars, ElseUnchanged
  <1>1. CASE Stop
    <2>1. budget' \in BudgetType
      BY <1>1, Spending DEF Stop
    <2> QED
      BY <1>1, <2>1 DEF Stop, TypeOK, BudgetType
  <1>2. ASSUME NEW fn \in PrimaryFn, Take(fn)
        PROVE  /\ toOutstation' \in Seq(PrimaryFrame) /\ Len(toOutstation') <= SendSize
               /\ Head(toOutstation).n \in Nat /\ Head(toOutstation).fcb \in BOOLEAN
    BY <1>2, TakeTypes DEF Take
  <1>3. ASSUME NEW fn \in SecondaryFn, Answer(fn)
        PROVE  toMaster' \in Seq(SecondaryFn) /\ Len(toMaster') <= SendSize /\ online' \in BOOLEAN
    BY <1>3, AnswerTypes DEF Answer
  <1>4. CASE HandleResetLink
    <2>1. /\ toOutstation' \in Seq(PrimaryFrame) /\ Len(toOutstation') <= SendSize
          /\ toMaster' \in Seq(SecondaryFn) /\ Len(toMaster') <= SendSize /\ online' \in BOOLEAN
      BY <1>2, <1>3, <1>4, Frames DEF HandleResetLink, SecondaryFn
    <2> QED
      BY <1>4, <2>1 DEF HandleResetLink, TypeOK
  <1>5. CASE HandleOther
    <2>1. PICK fn \in {"Process", "Test", "Status"} :
            Take(fn) /\ Answer(IF fn = "Status" THEN "LinkStatus" ELSE "Ack")
      BY <1>5 DEF HandleOther
    <2>2. toOutstation' \in Seq(PrimaryFrame) /\ Len(toOutstation') <= SendSize
      BY <1>2, <2>1, Frames
    <2>3. toMaster' \in Seq(SecondaryFn) /\ Len(toMaster') <= SendSize /\ online' \in BOOLEAN
      BY <1>3, <2>1 DEF SecondaryFn
    <2> QED
      BY <1>5, <2>2, <2>3 DEF HandleOther, TypeOK
  <1>6. CASE HandleDuplicate \/ HandleConfirmedUserData \/ CallbackFails
    <2>1. Take("Data") /\ (Answer("Ack") \/ Answer("Nack"))
      BY <1>6 DEF HandleDuplicate, HandleConfirmedUserData, CallbackFails
    <2>2. /\ toOutstation' \in Seq(PrimaryFrame) /\ Len(toOutstation') <= SendSize
          /\ Head(toOutstation).n \in Nat /\ Head(toOutstation).fcb \in BOOLEAN
      BY <1>2, <2>1, Frames
    <2>3. toMaster' \in Seq(SecondaryFn) /\ Len(toMaster') <= SendSize /\ online' \in BOOLEAN
      BY <1>3, <2>1 DEF SecondaryFn
    <2>4. lastFCB' \in SUBSET BOOLEAN
      BY <1>6, <2>2 DEF HandleDuplicate, HandleConfirmedUserData, CallbackFails, TypeOK
    <2>5. delivered' \in Seq(Nat)
      <3>1. delivered \in Seq(Nat)
        BY DEF TypeOK
      <3>2. delivered' = delivered \/ delivered' = Append(delivered, Head(toOutstation).n)
        BY <1>6 DEF HandleDuplicate, HandleConfirmedUserData, CallbackFails
      <3>3. Append(delivered, Head(toOutstation).n) \in Seq(Nat)
        BY <2>2, <3>1
      <3> QED
        BY <3>1, <3>2, <3>3
    <2>6. budget' \in BudgetType
      <3>1. budget \in BudgetType
        BY DEF TypeOK, BudgetType
      <3> QED
        BY <1>6, <3>1, Spending DEF HandleDuplicate, HandleConfirmedUserData, CallbackFails
    <2>7. UNCHANGED <<sharedVars, responses, stopped, call, ghostVars>>
      BY <1>6 DEF HandleDuplicate, HandleConfirmedUserData, CallbackFails
    <2> QED
      BY <2>2, <2>3, <2>4, <2>5, <2>6, <2>7 DEF TypeOK, BudgetType
  <1>7. CASE HandleUnconfirmedUserData
    <2>1. toOutstation' \in Seq(PrimaryFrame) /\ Len(toOutstation') <= SendSize
      BY <1>2, <1>7, Frames DEF HandleUnconfirmedUserData
    <2>2. budget' \in BudgetType
      <3>1. budget \in BudgetType
        BY DEF TypeOK, BudgetType
      <3> QED
        BY <1>7, <3>1, Spending DEF HandleUnconfirmedUserData
    <2>3. online' \in BOOLEAN
      BY <1>7 DEF HandleUnconfirmedUserData
    <2> QED
      BY <1>7, <2>1, <2>2, <2>3 DEF HandleUnconfirmedUserData, TypeOK, BudgetType
  <1>8. CASE SendUnsolicitedData
    <2>1. budget' \in BudgetType
      BY <1>8, Spending DEF SendUnsolicitedData
    <2>2. toMaster' \in Seq(SecondaryFn) /\ Len(toMaster') <= SendSize
      BY <1>8, AnswerTypes DEF SendUnsolicitedData, SecondaryFn
    <2> QED
      BY <1>8, <2>1, <2>2 DEF SendUnsolicitedData, TypeOK, BudgetType
  <1>9. ASSUME toMaster # <<>>, toMaster' = Tail(toMaster)
        PROVE  /\ toMaster' \in Seq(SecondaryFn) /\ Len(toMaster') <= SendSize
               /\ Head(toMaster) \in SecondaryFn
    <2>1. toMaster \in Seq(SecondaryFn) /\ Len(toMaster) <= SendSize
      BY DEF TypeOK
    <2>2. /\ toMaster' \in Seq(SecondaryFn) /\ Len(toMaster') = Len(toMaster) - 1
          /\ Len(toMaster) \in Nat /\ SendSize \in Nat /\ Head(toMaster) \in SecondaryFn
      BY <1>9, <2>1, Removed, ClassicLinkAssumption
    <2> QED
      BY <2>1, <2>2
  <1>10. CASE MasterReceives
    <2>1. toMaster' \in Seq(SecondaryFn) /\ Len(toMaster') <= SendSize /\ Head(toMaster) \in SecondaryFn
      BY <1>9, <1>10 DEF MasterReceives
    <2>2. responses \in Seq(SecondaryFn) /\ Len(responses) <= ResponseSize /\ ResponseSize \in Nat
      BY ClassicLinkAssumption DEF TypeOK
    <2>3. \/ responses' = responses
          \/ responses' = Append(responses, Head(toMaster)) /\ Len(responses) # ResponseSize
      BY <1>10 DEF MasterReceives
    <2>4. responses' \in Seq(SecondaryFn) /\ Len(responses') <= ResponseSize
      BY <2>1, <2>2, <2>3, Appended
    <2> QED
      BY <1>10, <2>1, <2>4 DEF MasterReceives, TypeOK
  <1>11. CASE LoseRequest
    <2>1. toOutstation' \in Seq(PrimaryFrame) /\ Len(toOutstation') <= SendSize
      BY <1>11, TakeTypes DEF LoseRequest
    <2> QED
      BY <1>11, <2>1 DEF LoseRequest, TypeOK
  <1>12. CASE LoseResponse
    <2>1. toMaster' \in Seq(SecondaryFn) /\ Len(toMaster') <= SendSize
      BY <1>9, <1>12 DEF LoseResponse
    <2> QED
      BY <1>12, <2>1 DEF LoseResponse, TypeOK
  <1> QED
    BY <1>1, <1>4, <1>5, <1>6, <1>7, <1>8, <1>10, <1>11, <1>12 DEF OutstationHandles

LEMMA TypeStep == TypeOK /\ [Next]_vars => TypeOK'
  <1>1. TypeOK /\ UNCHANGED vars => TypeOK'
    BY DEF vars, sharedVars, outVars, ghostVars, TypeOK
  <1> QED
    BY <1>1, CallerTypes, OtherTypes DEF Next

\* Every variable of both ends keeps its type, and no queue exceeds its size.
THEOREM TypeCorrect == Spec => []TypeOK
  BY TypeInit, TypeStep, PTL DEF Spec

-----------------------------------------------------------------------------
(* What AtMostOnce rests on.                                               *)

Active(c) == call[c].place # "idle"
Past(c) == call[c].place \notin {"idle", "begun"}
IsData(frame) == frame.fn = "Data"
NoReset(s, i, j) == \A k \in DOMAIN s : i <= k /\ k <= j => s[k].fn # "Reset"

\* At most one call claims the link.
ClaimInv ==
    /\ \A c \in Caller : Active(c) /\ call[c].frame.fn \in DOMAIN Claiming =>
          state = Claiming[call[c].frame.fn]
    /\ \A c, d \in Caller :
          /\ Active(c) /\ call[c].frame.fn \in DOMAIN Claiming
          /\ Active(d) /\ call[d].frame.fn \in DOMAIN Claiming
          => c = d

\* What a lone call sends once more is its own frame.
OwnFrame ==
    \A c \in Caller :
        /\ Past(c) => lastSent = call[c].frame
        /\ call[c].place = "resending" => call[c].copy = call[c].frame

\* Confirmed data is numbered in the order of the calls.
NumbersInv ==
    /\ \A i \in DOMAIN toOutstation : IsData(toOutstation[i]) => toOutstation[i].n <= issued
    /\ \A k \in DOMAIN delivered : delivered[k] <= issued
    /\ \A c \in Caller : Active(c) /\ IsData(call[c].frame) => call[c].frame.n = issued

\* Data is on its way in order, a repetition has the same bit, and no reset is in between.
OnTheWay ==
    \A i, j \in DOMAIN toOutstation :
        i < j /\ IsData(toOutstation[i]) /\ IsData(toOutstation[j]) =>
            /\ toOutstation[i].n <= toOutstation[j].n
            /\ toOutstation[i].n = toOutstation[j].n =>
                  toOutstation[i].fcb = toOutstation[j].fcb /\ NoReset(toOutstation, i, j)

\* Data that was handed over and is on its way again will be recognised.
Recognised ==
    \A k \in DOMAIN delivered : \A i \in DOMAIN toOutstation :
        IsData(toOutstation[i]) =>
            /\ delivered[k] <= toOutstation[i].n
            /\ delivered[k] = toOutstation[i].n =>
                  lastFCB = {toOutstation[i].fcb} /\ NoReset(toOutstation, 1, i)

\* So will the data of a call that may send it again.
Repeatable ==
    \A c \in Caller : Active(c) /\ IsData(call[c].frame) =>
        /\ \A i \in DOMAIN toOutstation :
              IsData(toOutstation[i]) /\ toOutstation[i].n = issued =>
                  /\ toOutstation[i].fcb = call[c].frame.fcb
                  /\ NoReset(toOutstation, i, Len(toOutstation))
        /\ \A k \in DOMAIN delivered : delivered[k] = issued =>
              lastFCB = {call[c].frame.fcb} /\ NoReset(toOutstation, 1, Len(toOutstation))

Increasing == \A i, j \in DOMAIN delivered : i < j => delivered[i] < delivered[j]

LoneInv ==
    ~shared => OwnFrame /\ NumbersInv /\ OnTheWay /\ Recognised /\ Repeatable /\ Increasing

\* Facts about the wire in one place.
LEMMA WireFacts ==
    ASSUME TypeOK
    PROVE  /\ DOMAIN toOutstation = 1..Len(toOutstation) /\ Len(toOutstation) \in Nat
           /\ \A i \in DOMAIN toOutstation :
                 toOutstation[i].n \in Nat /\ toOutstation[i].fcb \in BOOLEAN
           /\ DOMAIN delivered = 1..Len(delivered) /\ Len(delivered) \in Nat
           /\ \A k \in DOMAIN delivered : delivered[k] \in Nat
           /\ issued \in Nat
  <1>1. toOutstation \in Seq(PrimaryFrame) /\ delivered \in Seq(Nat) /\ issued \in Nat
    BY DEF TypeOK
  <1>2. \A f \in PrimaryFrame : f.n \in Nat /\ f.fcb \in BOOLEAN
    BY DEF PrimaryFrame
  <1>3. \A i \in DOMAIN toOutstation : toOutstation[i] \in PrimaryFrame
    BY <1>1
  <1> QED
    BY <1>1, <1>2, <1>3

\* No confirmed data is begun.
DataGoesOn ==
    \A d \in Caller : call'[d].place # "idle" /\ IsData(call'[d].frame) =>
        call[d].place # "idle" /\ call'[d].frame = call[d].frame

LEMMA QuietStep ==
    ASSUME OnTheWay, Recognised, Repeatable, Increasing, DataGoesOn,
           UNCHANGED <<toOutstation, delivered, issued, lastFCB>>
    PROVE  OnTheWay' /\ Recognised' /\ Repeatable' /\ Increasing'
  <1>1. OnTheWay' /\ Increasing'
    BY DEF OnTheWay, Increasing, NoReset, IsData
  <1>2. Recognised'
    BY DEF Recognised, NoReset, IsData
  <1>3. Repeatable'
    BY DEF Repeatable, DataGoesOn, Active, NoReset, IsData
  <1> QED
    BY <1>1, <1>2, <1>3

\* The first frame leaves the wire.
LEMMA Shift ==
    ASSUME TypeOK, toOutstation # <<>>, NEW v, v = Tail(toOutstation)
    PROVE  /\ 1 \in DOMAIN toOutstation /\ Head(toOutstation) = toOutstation[1]
           /\ Len(v) + 1 = Len(toOutstation) /\ Len(v) \in Int
           /\ \A i \in DOMAIN v : /\ i + 1 \in DOMAIN toOutstation /\ v[i] = toOutstation[i + 1]
                                  /\ i \in Int /\ 1 < i + 1
           /\ \A i, j \in Int : NoReset(toOutstation, i + 1, j + 1) => NoReset(v, i, j)
           /\ \A i, j, l \in Int : NoReset(toOutstation, l, j) /\ l <= i => NoReset(toOutstation, i, j)
  <1> DEFINE w == toOutstation
  <1>1. /\ DOMAIN w = 1..Len(w) /\ DOMAIN v = 1..Len(v) /\ Len(v) = Len(w) - 1
        /\ Len(w) \in Nat \ {0} /\ Head(w) = w[1] /\ \A i \in 1..Len(v) : v[i] = w[i + 1]
    BY Removed DEF TypeOK
  <1>2. ASSUME NEW i \in DOMAIN v
        PROVE  i + 1 \in DOMAIN w /\ v[i] = w[i + 1] /\ i \in Nat /\ 1 < i + 1
    BY <1>1
  <1>3. ASSUME NEW i \in Int, NEW j \in Int, NoReset(w, i + 1, j + 1) PROVE NoReset(v, i, j)
    <2>1. ASSUME NEW k \in DOMAIN v, i <= k, k <= j PROVE v[k].fn # "Reset"
      <3>1. k + 1 \in DOMAIN w /\ v[k] = w[k + 1] /\ i + 1 <= k + 1 /\ k + 1 <= j + 1
        BY <1>2, <2>1
      <3> QED
        BY <1>3, <3>1 DEF NoReset
    <2> QED
      BY <2>1 DEF NoReset
  <1>4. ASSUME NEW i \in Int, NEW j \in Int, NEW l \in Int, NoReset(w, l, j), l <= i PROVE NoReset(w, i, j)
    <2>1. \A k \in DOMAIN w : k \in Int
      BY <1>1
    <2> QED
      BY <1>4, <2>1 DEF NoReset
  <1>5. 1 \in DOMAIN w /\ Len(v) + 1 = Len(w) /\ Len(v) \in Int
    BY <1>1
  <1> QED
    BY <1>1, <1>2, <1>3, <1>4, <1>5

LEMMA WireShifts ==
    ASSUME TypeOK, OnTheWay, toOutstation # <<>>, toOutstation' = Tail(toOutstation)
    PROVE  OnTheWay'
  <1> DEFINE w == toOutstation
             v == toOutstation'
  <1> SUFFICES ASSUME NEW i \in DOMAIN v, NEW j \in DOMAIN v, i < j, IsData(v[i]), IsData(v[j])
               PROVE  /\ v[i].n <= v[j].n
                      /\ v[i].n = v[j].n => v[i].fcb = v[j].fcb /\ NoReset(v, i, j)
    BY DEF OnTheWay
  <1>1. /\ i + 1 \in DOMAIN w /\ j + 1 \in DOMAIN w /\ v[i] = w[i + 1] /\ v[j] = w[j + 1]
        /\ i \in Int /\ j \in Int
        /\ NoReset(w, i + 1, j + 1) => NoReset(v, i, j)
    BY Shift
  <1>2. i + 1 < j + 1
    BY <1>1
  <1> QED
    BY <1>1, <1>2 DEF OnTheWay

\* Of the data on its way that a call may repeat, it still has the right bit.
LEMMA CallShifts ==
    ASSUME TypeOK, Repeatable, toOutstation # <<>>, toOutstation' = Tail(toOutstation),
           NEW c \in Caller, Active(c), IsData(call[c].frame), NEW i \in DOMAIN toOutstation',
           IsData(toOutstation'[i]), toOutstation'[i].n = issued
    PROVE  toOutstation'[i].fcb = call[c].frame.fcb /\ NoReset(toOutstation', i, Len(toOutstation'))
  <1> DEFINE w == toOutstation
             v == toOutstation'
  <1>1. /\ i + 1 \in DOMAIN w /\ v[i] = w[i + 1] /\ Len(v) + 1 = Len(w)
        /\ NoReset(w, i + 1, Len(v) + 1) => NoReset(v, i, Len(v))
    BY Shift
  <1>2. w[i + 1].fcb = call[c].frame.fcb /\ NoReset(w, i + 1, Len(w))
    BY <1>1 DEF Repeatable
  <1> QED
    BY <1>1, <1>2

\* A frame leaves the wire.  The validator's bit stays, or is changed for a reset or for
\* data it does not know.
LEMMA FrameLeaves ==
    ASSUME TypeOK, OnTheWay, Recognised, Repeatable, Increasing, DataGoesOn,
           toOutstation # <<>>, toOutstation' = Tail(toOutstation),
           UNCHANGED <<delivered, issued>>, NumbersInv,
           \/ lastFCB' = lastFCB
           \/ Head(toOutstation).fn = "Reset"
           \/ IsData(Head(toOutstation)) /\ Head(toOutstation).fcb \notin lastFCB
    PROVE  OnTheWay' /\ Recognised' /\ Repeatable' /\ Increasing'
  <1> DEFINE w == toOutstation
             v == toOutstation'
  <1>1. Head(w) = w[1] /\ Len(v) + 1 = Len(w) /\ Len(v) \in Int
    BY Shift
  <1>2. ASSUME NEW i \in DOMAIN v
        PROVE  i + 1 \in DOMAIN w /\ v[i] = w[i + 1] /\ i \in Int /\ 1 < i + 1
    BY Shift
  <1>3. ASSUME NEW i \in Int, NEW j \in Int, NoReset(w, i + 1, j + 1) PROVE NoReset(v, i, j)
    BY <1>3, Shift
  <1>4. 1 \in DOMAIN w
    BY Shift
  <1>5. ASSUME NEW i \in Int, NEW j \in Int, NEW l \in Int, NoReset(w, l, j), l <= i PROVE NoReset(w, i, j)
    BY <1>5, Shift
  <1>6. OnTheWay'
    BY WireShifts
  \* Data that was handed over is still behind a frame that changes the bit only if
  \* that frame is a repetition.
  <1>7. ASSUME NEW k \in DOMAIN delivered, NEW i \in DOMAIN v, IsData(v[i]), delivered[k] = v[i].n
        PROVE  lastFCB' = lastFCB
    <2>1. lastFCB = {w[i + 1].fcb} /\ NoReset(w, 1, i + 1)
      BY <1>2, <1>7 DEF Recognised
    <2>2. Head(w).fn # "Reset"
      BY <1>1, <1>2, <1>4, <2>1 DEF NoReset
    <2>3. ASSUME IsData(w[1]) PROVE w[1].fcb = w[i + 1].fcb
      <3>1. w[1].n <= w[i + 1].n /\ delivered[k] <= w[1].n
        BY <1>2, <1>4, <1>7, <2>3 DEF OnTheWay, Recognised
      <3>2. w[1].n = w[i + 1].n
        BY <1>2, <1>4, <1>7, <3>1, WireFacts
      <3> QED
        BY <1>2, <1>4, <1>7, <2>3, <3>2 DEF OnTheWay
    <2> QED
      BY <1>1, <2>1, <2>2, <2>3
  <1>8. Recognised'
    <2> SUFFICES ASSUME NEW k \in DOMAIN delivered, NEW i \in DOMAIN v, IsData(v[i])
                 PROVE  /\ delivered[k] <= v[i].n
                        /\ delivered[k] = v[i].n => lastFCB' = {v[i].fcb} /\ NoReset(v, 1, i)
      BY DEF Recognised
    <2>1. delivered[k] <= v[i].n
      BY <1>2 DEF Recognised
    <2>2. ASSUME delivered[k] = v[i].n PROVE lastFCB' = {v[i].fcb} /\ NoReset(v, 1, i)
      <3>1. lastFCB = {v[i].fcb} /\ NoReset(w, 1, i + 1)
        BY <1>2, <2>2 DEF Recognised
      <3>2. NoReset(w, 1 + 1, i + 1)
        BY <1>2, <1>5, <3>1
      <3> QED
        BY <1>2, <1>3, <1>7, <2>2, <3>1, <3>2
    <2> QED
      BY <2>1, <2>2
  <1>9. Repeatable'
    <2> SUFFICES ASSUME NEW c \in Caller, Active(c), IsData(call[c].frame)
                 PROVE  /\ \A i \in DOMAIN v : IsData(v[i]) /\ v[i].n = issued =>
                              v[i].fcb = call[c].frame.fcb /\ NoReset(v, i, Len(v))
                        /\ \A k \in DOMAIN delivered : delivered[k] = issued =>
                              lastFCB' = {call[c].frame.fcb} /\ NoReset(v, 1, Len(v))
      BY DEF Repeatable, DataGoesOn, Active
    <2>1. Len(v) + 1 = Len(w) /\ Len(v) \in Int
      BY <1>1
    <2>2. ASSUME NEW i \in DOMAIN v, IsData(v[i]), v[i].n = issued
          PROVE  v[i].fcb = call[c].frame.fcb /\ NoReset(v, i, Len(v))
      BY <2>2, CallShifts
    <2>3. ASSUME NEW k \in DOMAIN delivered, delivered[k] = issued
          PROVE  lastFCB' = {call[c].frame.fcb} /\ NoReset(v, 1, Len(v))
      <3>1. lastFCB = {call[c].frame.fcb} /\ NoReset(w, 1, Len(v) + 1)
        BY <2>1, <2>3 DEF Repeatable
      <3>2. NoReset(w, 1 + 1, Len(v) + 1)
        BY <1>5, <2>1, <3>1
      <3>3. NoReset(v, 1, Len(v))
        BY <1>3, <2>1, <3>2
      <3>4. Head(w).fn # "Reset"
        BY <1>1, <1>4, <2>1, <3>1 DEF NoReset
      <3>5. IsData(w[1]) => w[1].fcb = call[c].frame.fcb
        <4>1. IsData(w[1]) => w[1].n = issued
          BY <1>4, <2>3, NumbersInv, WireFacts DEF Recognised, NumbersInv
        <4> QED
          BY <1>4, <4>1 DEF Repeatable
      <3> QED
        BY <1>1, <3>1, <3>3, <3>4, <3>5
    <2> QED
      BY <2>2, <2>3
  <1> QED
    BY <1>6, <1>8, <1>9 DEF Increasing

\* The first data of a number is handed over.
LEMMA HandOver ==
    ASSUME TypeOK, OnTheWay, Recognised, Repeatable, Increasing, NumbersInv, DataGoesOn,
           toOutstation # <<>>, toOutstation' = Tail(toOutstation), UNCHANGED issued,
           IsData(Head(toOutstation)), Head(toOutstation).fcb \notin lastFCB,
           lastFCB' = {Head(toOutstation).fcb},
           delivered' = Append(delivered, Head(toOutstation).n)
    PROVE  OnTheWay' /\ Recognised' /\ Repeatable' /\ Increasing'
  <1> DEFINE w == toOutstation
             v == toOutstation'
             h == toOutstation[1]
             m == Len(delivered) + 1
  <1>1. /\ Head(w) = h /\ 1 \in DOMAIN w /\ Len(v) + 1 = Len(w) /\ Len(v) \in Int
        /\ h.n \in Nat /\ h.n <= issued /\ issued \in Nat
    BY Shift, WireFacts DEF NumbersInv
  <1>2. /\ DOMAIN delivered = 1..Len(delivered) /\ DOMAIN delivered' = 1..m
        /\ Len(delivered) \in Nat /\ delivered'[m] = h.n
        /\ \A k \in DOMAIN delivered : delivered'[k] = delivered[k]
    BY <1>1, Appended, SMTT(20) DEF TypeOK
  <1>3. ASSUME NEW k \in DOMAIN delivered' PROVE k \in DOMAIN delivered \/ k = m
    BY <1>2
  <1>4. ASSUME NEW k \in DOMAIN delivered
        PROVE  delivered[k] \in Nat /\ delivered[k] < h.n /\ delivered'[k] = delivered[k]
    <2>1. delivered[k] <= h.n /\ (delivered[k] = h.n => lastFCB = {h.fcb})
      BY <1>1 DEF Recognised
    <2>2. delivered[k] \in Nat
      BY WireFacts
    <2> QED
      BY <1>1, <1>2, <2>1, <2>2
  <1>5. ASSUME NEW i \in DOMAIN v, IsData(v[i])
        PROVE  /\ v[i].n \in Nat /\ h.n <= v[i].n
               /\ v[i].n = h.n => v[i].fcb = h.fcb /\ NoReset(v, 1, i)
    <2>1. /\ i + 1 \in DOMAIN w /\ v[i] = w[i + 1] /\ i \in Int /\ 1 < i + 1
          /\ NoReset(w, 1 + 1, i + 1) => NoReset(v, 1, i)
          /\ NoReset(w, 1, i + 1) => NoReset(w, 1 + 1, i + 1)
      <3>1. i + 1 \in DOMAIN w /\ v[i] = w[i + 1] /\ i \in Int /\ 1 < i + 1
        BY Shift
      <3>2. i + 1 \in Int /\ 1 \in Int /\ 1 + 1 \in Int /\ 1 <= 1 + 1
        BY <3>1
      <3> QED
        BY <3>1, <3>2, Shift
    <2>2. /\ h.n <= w[i + 1].n
          /\ h.n = w[i + 1].n => h.fcb = w[i + 1].fcb /\ NoReset(w, 1, i + 1)
      BY <1>1, <1>5, <2>1 DEF OnTheWay
    <2> QED
      BY <2>1, <2>2, WireFacts
  <1>6. Recognised'
    <2> SUFFICES ASSUME NEW k \in DOMAIN delivered', NEW i \in DOMAIN v, IsData(v[i])
                 PROVE  /\ delivered'[k] <= v[i].n
                        /\ delivered'[k] = v[i].n => lastFCB' = {v[i].fcb} /\ NoReset(v, 1, i)
      BY DEF Recognised
    <2>1. CASE k \in DOMAIN delivered
      BY <1>1, <1>4, <1>5, <2>1
    <2>2. CASE k = m
      BY <1>1, <1>2, <1>5, <2>2
    <2> QED
      BY <1>3, <2>1, <2>2
  <1>7. Repeatable'
    <2> SUFFICES ASSUME NEW c \in Caller, Active(c), IsData(call[c].frame)
                 PROVE  /\ \A i \in DOMAIN v : IsData(v[i]) /\ v[i].n = issued =>
                              v[i].fcb = call[c].frame.fcb /\ NoReset(v, i, Len(v))
                        /\ \A k \in DOMAIN delivered' : delivered'[k] = issued =>
                              lastFCB' = {call[c].frame.fcb} /\ NoReset(v, 1, Len(v))
      BY ZenonT(30) DEF Repeatable, DataGoesOn, Active
    <2>1. ASSUME NEW i \in DOMAIN v, IsData(v[i]), v[i].n = issued
          PROVE  v[i].fcb = call[c].frame.fcb /\ NoReset(v, i, Len(v))
      BY <2>1, CallShifts
    <2>2. ASSUME NEW k \in DOMAIN delivered', delivered'[k] = issued
          PROVE  lastFCB' = {call[c].frame.fcb} /\ NoReset(v, 1, Len(v))
      <3>1. k \notin DOMAIN delivered
        BY <1>1, <1>4, <2>2
      <3>2. h.n = issued
        BY <1>2, <1>3, <2>2, <3>1
      <3>3. h.fcb = call[c].frame.fcb /\ NoReset(w, 1, Len(w))
        BY <1>1, <3>2 DEF Repeatable
      <3>4. NoReset(w, 1 + 1, Len(v) + 1)
        <4>1. Len(w) \in Int /\ 1 \in Int /\ 1 + 1 \in Int /\ 1 <= 1 + 1
          BY <1>1
        <4> QED
          BY <1>1, <3>3, <4>1, Shift
      <3>5. NoReset(v, 1, Len(v))
        <4>1. 1 \in Int /\ Len(v) \in Int
          BY <1>1
        <4>2. NoReset(w, 1 + 1, Len(v) + 1) => NoReset(v, 1, Len(v))
          BY <4>1, Shift
        <4> QED
          BY <3>4, <4>2
      <3> QED
        BY <1>1, <3>3, <3>5
    <2> QED
      BY <2>1, <2>2
  <1>8. Increasing'
    <2> SUFFICES ASSUME NEW i \in DOMAIN delivered', NEW j \in DOMAIN delivered', i < j
                 PROVE  delivered'[i] < delivered'[j]
      BY DEF Increasing
    <2>1. i \in DOMAIN delivered
      BY <1>2
    <2>2. CASE j \in DOMAIN delivered
      BY <1>4, <2>1, <2>2 DEF Increasing
    <2>3. CASE j = m
      BY <1>2, <1>4, <2>1, <2>3
    <2> QED
      BY <1>3, <2>2, <2>3
  <1> QED
    BY <1>6, <1>7, <1>8, WireShifts

\* A frame is sent: one that does not matter, or that of a call.
LEMMA FrameSent ==
    ASSUME TypeOK, OnTheWay, Recognised, Repeatable, Increasing, NumbersInv, ClaimInv, DataGoesOn,
           NEW f \in PrimaryFrame, toOutstation' = Append(toOutstation, f),
           UNCHANGED <<delivered, issued, lastFCB>>,
           \/ f.fn \notin {"Data", "Reset"}
           \/ \E c \in Caller : Active(c) /\ f = call[c].frame
    PROVE  OnTheWay' /\ Recognised' /\ Repeatable' /\ Increasing'
  <1> DEFINE w == toOutstation
             v == toOutstation'
             m == Len(toOutstation) + 1
  <1>1. /\ DOMAIN w = 1..Len(w) /\ DOMAIN v = 1..m /\ Len(w) \in Nat /\ Len(v) = m
        /\ v[m] = f /\ \A i \in DOMAIN w : v[i] = w[i]
    BY Appended DEF TypeOK
  <1>2. ASSUME NEW i \in DOMAIN v
        PROVE  (i \in DOMAIN w /\ v[i] = w[i] /\ i < m) \/ (i = m /\ v[i] = f)
    BY <1>1
  <1>3. ASSUME NEW i \in Int, NEW j \in DOMAIN w, NoReset(w, i, j) PROVE NoReset(v, i, j)
    <2>1. ASSUME NEW k \in DOMAIN v, i <= k, k <= j PROVE v[k].fn # "Reset"
      <3>1. k \in DOMAIN w /\ v[k] = w[k]
        BY <1>1, <2>1
      <3> QED
        BY <1>3, <2>1, <3>1 DEF NoReset
    <2> QED
      BY <2>1 DEF NoReset
  <1>4. ASSUME NEW i \in Int, NoReset(w, i, Len(w)), f.fn # "Reset" PROVE NoReset(v, i, m)
    <2>1. ASSUME NEW k \in DOMAIN v, i <= k PROVE v[k].fn # "Reset"
      <3>1. CASE k \in DOMAIN w
        BY <1>1, <1>4, <2>1, <3>1 DEF NoReset
      <3>2. CASE k = m
        BY <1>1, <1>4, <3>2
      <3> QED
        BY <1>2, <3>1, <3>2
    <2> QED
      BY <2>1 DEF NoReset
  \* Data that is sent is that of the one call that claims the link, and while it
  \* does no reset is sent.
  <1>5. ASSUME NEW c \in Caller, Active(c), IsData(call[c].frame)
        PROVE  /\ f.fn # "Reset" /\ call[c].frame.n = issued
               /\ IsData(f) => f = call[c].frame
    <2>1. call[c].frame.n = issued
      BY <1>5 DEF NumbersInv
    <2>2. CASE f.fn \notin {"Data", "Reset"}
      BY <2>1, <2>2 DEF IsData
    <2>3. ASSUME NEW d \in Caller, Active(d), f = call[d].frame
          PROVE  f.fn # "Reset" /\ (IsData(f) => f = call[c].frame)
      <3>1. f.fn \in {"Data", "Reset"} => d = c
        BY <1>5, <2>3, Claims DEF ClaimInv, IsData
      <3> QED
        BY <1>5, <2>3, <3>1 DEF IsData
    <2> QED
      BY <2>1, <2>2, <2>3
  <1>6. ASSUME IsData(f)
        PROVE  \E c \in Caller : Active(c) /\ IsData(call[c].frame) /\ f = call[c].frame
    BY <1>6 DEF IsData
  <1>7. OnTheWay'
    <2> SUFFICES ASSUME NEW i \in DOMAIN v, NEW j \in DOMAIN v, i < j, IsData(v[i]), IsData(v[j])
                 PROVE  /\ v[i].n <= v[j].n
                        /\ v[i].n = v[j].n => v[i].fcb = v[j].fcb /\ NoReset(v, i, j)
      BY DEF OnTheWay
    <2>1. i \in DOMAIN w /\ v[i] = w[i] /\ i \in Int
      BY <1>1
    <2>2. CASE j \in DOMAIN w
      <3>1. v[j] = w[j]
        BY <1>1, <2>2
      <3>2. /\ w[i].n <= w[j].n
            /\ w[i].n = w[j].n => w[i].fcb = w[j].fcb /\ NoReset(w, i, j)
        BY <2>1, <2>2, <3>1 DEF OnTheWay
      <3> QED
        BY <1>3, <2>1, <2>2, <3>1, <3>2
    <2>3. CASE j = m
      <3>1. v[j] = f
        BY <1>1, <2>3
      <3>2. PICK c \in Caller : Active(c) /\ IsData(call[c].frame) /\ f = call[c].frame
        BY <1>6, <3>1
      <3>3. f.n = issued /\ f.fn # "Reset"
        BY <1>5, <3>2
      <3>4. w[i].n <= issued
        BY <2>1 DEF NumbersInv
      <3>5. w[i].n = issued => w[i].fcb = f.fcb /\ NoReset(w, i, Len(w))
        BY <2>1, <3>2 DEF Repeatable
      <3> QED
        BY <1>4, <2>1, <2>3, <3>1, <3>3, <3>4, <3>5
    <2> QED
      BY <1>2, <2>2, <2>3
  <1>8. Recognised'
    <2> SUFFICES ASSUME NEW k \in DOMAIN delivered, NEW i \in DOMAIN v, IsData(v[i])
                 PROVE  /\ delivered[k] <= v[i].n
                        /\ delivered[k] = v[i].n => lastFCB = {v[i].fcb} /\ NoReset(v, 1, i)
      BY DEF Recognised
    <2>1. CASE i \in DOMAIN w
      <3>1. v[i] = w[i]
        BY <1>1, <2>1
      <3>2. /\ delivered[k] <= w[i].n
            /\ delivered[k] = w[i].n => lastFCB = {w[i].fcb} /\ NoReset(w, 1, i)
        BY <2>1, <3>1 DEF Recognised
      <3> QED
        BY <1>3, <2>1, <3>1, <3>2
    <2>2. CASE i = m
      <3>1. v[i] = f
        BY <1>1, <2>2
      <3>2. PICK c \in Caller : Active(c) /\ IsData(call[c].frame) /\ f = call[c].frame
        BY <1>6, <3>1
      <3>3. f.n = issued /\ f.fn # "Reset" /\ delivered[k] <= issued
        BY <1>5, <3>2 DEF NumbersInv
      <3>4. delivered[k] = issued => lastFCB = {f.fcb} /\ NoReset(w, 1, Len(w))
        BY <3>2 DEF Repeatable
      <3> QED
        BY <1>4, <2>2, <3>1, <3>3, <3>4
    <2> QED
      BY <1>2, <2>1, <2>2
  <1>9. Repeatable'
    <2> SUFFICES ASSUME NEW c \in Caller, Active(c), IsData(call[c].frame)
                 PROVE  /\ \A i \in DOMAIN v : IsData(v[i]) /\ v[i].n = issued =>
                              v[i].fcb = call[c].frame.fcb /\ NoReset(v, i, m)
                        /\ \A k \in DOMAIN delivered : delivered[k] = issued =>
                              lastFCB = {call[c].frame.fcb} /\ NoReset(v, 1, m)
      BY <1>1 DEF Repeatable, DataGoesOn, Active
    <2>1. f.fn # "Reset" /\ (IsData(f) => f = call[c].frame)
      BY <1>5
    <2>2. ASSUME NEW i \in DOMAIN v, IsData(v[i]), v[i].n = issued
          PROVE  v[i].fcb = call[c].frame.fcb /\ NoReset(v, i, m)
      <3>1. CASE i \in DOMAIN w
        <4>1. v[i] = w[i] /\ i \in Int
          BY <1>1, <3>1
        <4>2. w[i].fcb = call[c].frame.fcb /\ NoReset(w, i, Len(w))
          BY <2>2, <3>1, <4>1 DEF Repeatable
        <4> QED
          BY <1>4, <2>1, <4>1, <4>2
      <3>2. CASE i = m
        <4>1. v[i] = f /\ i \in Int
          BY <1>1, <3>2
        <4>2. NoReset(w, i, Len(w))
          BY <1>1, <3>2 DEF NoReset
        <4> QED
          BY <1>4, <2>1, <2>2, <4>1, <4>2
      <3> QED
        BY <1>2, <3>1, <3>2
    <2>3. ASSUME NEW k \in DOMAIN delivered, delivered[k] = issued
          PROVE  lastFCB = {call[c].frame.fcb} /\ NoReset(v, 1, m)
      <3>1. lastFCB = {call[c].frame.fcb} /\ NoReset(w, 1, Len(w))
        BY <2>3 DEF Repeatable
      <3> QED
        BY <1>4, <2>1, <3>1
    <2> QED
      BY <2>2, <2>3
  <1>10. Increasing'
    BY DEF Increasing
  <1> QED
    BY <1>7, <1>8, <1>9, <1>10

-----------------------------------------------------------------------------
(* The steps.                                                              *)

\* Calls go on or end, and none begins.
CallsGoOn ==
    \A d \in Caller : call'[d].place # "idle" =>
        call[d].place # "idle" /\ call'[d].frame = call[d].frame

\* Steps of the outstation, of the wire and of Stop leave the calls alone.
Aside ==
    UNCHANGED <<state, call, lastSent, issued, shared>>

LEMMA AsideSteps ==
    ASSUME Stop \/ OutstationHandles \/ SendUnsolicitedData \/ MasterReceives \/ LoseRequest \/ LoseResponse
    PROVE  Aside
  BY DEF Stop, OutstationHandles, HandleResetLink, HandleOther, HandleDuplicate,
         HandleConfirmedUserData, CallbackFails, HandleUnconfirmedUserData, SendUnsolicitedData,
         MasterReceives, LoseRequest, LoseResponse, ElseUnchanged, sharedVars, ghostVars, Aside

\* What a caller's step does with its own call; the other calls stay.
LEMMA CallSteps ==
    ASSUME TypeOK, NEW c \in Caller, GoesOn(c)
    PROVE  /\ call[c].place # "idle"
           /\ CallsGoOn
           /\ \A d \in Caller : d # c => call'[d] = call[d]
           /\ \/ call'[c].place # "idle" /\ state' = state
              \/ /\ call'[c].place = "idle"
                 /\ call[c].frame.fn \notin DOMAIN Claiming => state' = state
           /\ UNCHANGED <<issued, delivered, lastFCB>>
           /\ shared => shared'
  <1>1. /\ call \in [Caller -> CallRecord]
        /\ \A p \in Place : p # "idle"
    BY DEF TypeOK, CallRecord, Place
  <1>2. ASSUME NEW ok \in BOOLEAN, Conclude(c, ok)
        PROVE  /\ call'[c].place = "idle" /\ \A d \in Caller : d # c => call'[d] = call[d]
               /\ CallsGoOn /\ (call[c].frame.fn \notin DOMAIN Claiming => state' = state)
               /\ UNCHANGED <<issued, delivered, lastFCB>>
    <2>1. call' = [call EXCEPT ![c] = NotCalling] /\ UNCHANGED <<issued, delivered, lastFCB>>
      BY <1>2 DEF Conclude, outVars
    <2>2. call'[c].place = "idle" /\ \A d \in Caller : d # c => call'[d] = call[d]
      BY <1>1, <2>1, Frames
    <2>3. call[c].frame.fn \notin DOMAIN Claiming => state' = state
      BY <1>2 DEF Conclude
    <2> QED
      BY <2>1, <2>2, <2>3 DEF CallsGoOn
  <1>3. ASSUME NEW p \in Place, NEW r, NEW f, call[c].place # "idle",
               \/ call' = [call EXCEPT ![c].place = p]
               \/ call' = [call EXCEPT ![c].place = p, ![c].read = r]
               \/ call' = [call EXCEPT ![c].place = p, ![c].copy = f]
        PROVE  /\ call'[c].place # "idle" /\ \A d \in Caller : d # c => call'[d] = call[d]
               /\ CallsGoOn
    <2>1. call'[c].place = p /\ call'[c].frame = call[c].frame /\ \A d \in Caller : d # c => call'[d] = call[d]
      BY <1>1, <1>3 DEF CallRecord
    <2> QED
      BY <1>1, <1>3, <2>1 DEF CallsGoOn
  <1>4. call[c].place # "idle"
    BY DEF GoesOn, StartSending, Send, SendNot, WaitNot, TakeResponse, Timeout, CountTimeout,
           CountRefusal, Resend
  <1> USE DEF Place, outVars, ghostVars, sharedVars
  <1>5. CASE StartSending(c)
    <2>1. /\ call' = [call EXCEPT ![c].place = "sending"] /\ state' = state
          /\ UNCHANGED <<issued, delivered, lastFCB>> /\ (shared => shared')
      BY <1>5 DEF StartSending, Move
    <2> QED
      BY <1>3, <1>4, <2>1
  <1>6. CASE Send(c)
    <2>1. /\ call' = [call EXCEPT ![c].place = "waiting"] /\ state' = state
          /\ UNCHANGED <<issued, delivered, lastFCB>> /\ shared' = shared
      BY <1>6 DEF Send, Move
    <2> QED
      BY <1>3, <1>4, <2>1
  <1>7. CASE Timeout(c)
    <2>1. /\ call' = [call EXCEPT ![c].place = "timedOut", ![c].read = retryCount]
          /\ state' = state /\ UNCHANGED <<issued, delivered, lastFCB>> /\ shared' = shared
      BY <1>7 DEF Timeout
    <2> QED
      BY <1>3, <1>4, <2>1
  <1>8. CASE SendNot(c) \/ WaitNot(c) \/ Resend(c)
    <2>1. (Conclude(c, FALSE) \/ Conclude(c, TRUE)) /\ shared' = shared
      BY <1>8 DEF SendNot, WaitNot, Resend
    <2> QED
      BY <1>2, <1>4, <2>1
  <1>9. CASE TakeResponse(c)
    <2>1. shared' = shared
      BY <1>9 DEF TakeResponse
    <2>2. CASE Conclude(c, TRUE)
      BY <1>2, <1>4, <2>1, <2>2
    <2>3. CASE ~Conclude(c, TRUE)
      <3>1. /\ call' = [call EXCEPT ![c].place = "refused", ![c].read = retryCount]
            /\ state' = state /\ UNCHANGED <<issued, delivered, lastFCB>>
        BY <1>9, <2>3 DEF TakeResponse
      <3> QED
        BY <1>3, <1>4, <2>1, <3>1
    <2> QED
      BY <2>2, <2>3
  <1>10. CASE CountTimeout(c)
    <2>1. shared' = shared
      BY <1>10 DEF CountTimeout
    <2>2. CASE Conclude(c, FALSE)
      BY <1>2, <1>4, <2>1, <2>2
    <2>3. CASE ~Conclude(c, FALSE)
      <3>1. /\ call' = [call EXCEPT ![c].place = "sending"]
            /\ state' = state /\ UNCHANGED <<issued, delivered, lastFCB>>
        BY <1>10, <2>3 DEF CountTimeout, Move
      <3> QED
        BY <1>3, <1>4, <2>1, <3>1
    <2> QED
      BY <2>2, <2>3
  <1>11. CASE CountRefusal(c)
    <2>1. shared' = shared
      BY <1>11 DEF CountRefusal
    <2>2. CASE Conclude(c, FALSE)
      BY <1>2, <1>4, <2>1, <2>2
    <2>3. CASE ~Conclude(c, FALSE)
      <3>1. /\ call' = [call EXCEPT ![c].place = "resending", ![c].copy = lastSent]
            /\ state' = state /\ UNCHANGED <<issued, delivered, lastFCB>>
        BY <1>11, <2>3 DEF CountRefusal
      <3> QED
        BY <1>3, <1>4, <2>1, <3>1
    <2> QED
      BY <2>2, <2>3
  <1> QED
    BY <1>5, <1>6, <1>7, <1>8, <1>9, <1>10, <1>11 DEF GoesOn

\* A call that begins.
LEMMA CallBegins ==
    ASSUME TypeOK, NEW c \in Caller, Calling(c)
    PROVE  \/ /\ SendUnconfirmedUserData(c)
              /\ UNCHANGED <<state, call, lastSent, issued, shared>>
           \/ /\ call[c].place = "idle" /\ state = "Idle"
              /\ call'[c].place = "begun"
              /\ call'[c].frame.fn \in {"Data", "Reset", "Test", "Process", "Status"}
              /\ call'[c].frame.fn \in DOMAIN Claiming => state' = Claiming[call'[c].frame.fn]
              /\ call'[c].frame.fn \notin DOMAIN Claiming => state' = state
              /\ \/ ~IsData(call'[c].frame) /\ issued' = issued
                 \/ IsData(call'[c].frame) /\ issued' = issued + 1 /\ call'[c].frame.n = issued + 1
              /\ \A d \in Caller : d # c => call'[d] = call[d]
              /\ UNCHANGED <<lastSent, toOutstation, delivered, lastFCB, shared>>
  <1> USE DEF outVars, ghostVars, sharedVars
  <1>1. ASSUME NEW f \in PrimaryFrame, Begins(c, f)
        PROVE  /\ call'[c].place = "begun" /\ call'[c].frame = f
               /\ \A d \in Caller : d # c => call'[d] = call[d]
               /\ UNCHANGED <<lastSent, toOutstation, delivered, lastFCB, shared>>
    <2>1. call \in [Caller -> CallRecord]
      BY DEF TypeOK, CallRecord
    <2>2. call' = [call EXCEPT ![c] = [NotCalling EXCEPT !.place = "begun", !.frame = f]]
      BY <1>1 DEF Begins
    <2>3. call'[c] = [NotCalling EXCEPT !.place = "begun", !.frame = f]
          /\ \A d \in Caller : d # c => call'[d] = call[d]
      BY <2>1, <2>2
    <2>4. call'[c].place = "begun" /\ call'[c].frame = f
      BY <2>3 DEF NotCalling
    <2>5. UNCHANGED <<lastSent, toOutstation, delivered, lastFCB, shared>>
      BY <1>1 DEF Begins
    <2> QED
      BY <2>3, <2>4, <2>5
  <1>2. CASE SendUnconfirmedUserData(c)
    BY <1>2 DEF SendUnconfirmedUserData
  <1>3. CASE SendConfirmedUserData(c)
    <2> DEFINE f == Primary("Data", ~fcb, issued + 1)
    <2>1. (~fcb) \in BOOLEAN /\ issued + 1 \in Nat
      BY DEF TypeOK
    <2>2. f \in PrimaryFrame
      BY <2>1, Frames, ZenonT(30)
    <2>4. f.fn = "Data" /\ f.n = issued + 1
      BY DEF Primary
    <2>3. Begins(c, f) /\ state' = Claiming["Data"] /\ issued' = issued + 1
          /\ call[c].place = "idle" /\ state = "Idle"
      BY <1>3 DEF SendConfirmedUserData, MayCall
    <2> HIDE DEF f
    <2> QED
      BY <1>1, <2>2, <2>3, <2>4, Claims DEF IsData
  <1>4. ASSUME NEW op \in {"Reset", "Test"}, Claim(c, op)
        PROVE  /\ call[c].place = "idle" /\ state = "Idle" /\ call'[c].place = "begun"
               /\ call'[c].frame.fn = op /\ state' = Claiming[op] /\ issued' = issued
               /\ \A d \in Caller : d # c => call'[d] = call[d]
               /\ UNCHANGED <<lastSent, toOutstation, delivered, lastFCB, shared>>
    <2> DEFINE f == Primary(op, FALSE, 0)
    <2>1. f \in PrimaryFrame /\ f.fn = op
      <3>1. f \in PrimaryFrame
        BY Frames
      <3>2. f.fn = op
        BY DEF Primary
      <3> QED
        BY <3>1, <3>2
    <2>2. Begins(c, f) /\ state' = Claiming[op] /\ issued' = issued
          /\ call[c].place = "idle" /\ state = "Idle"
      BY <1>4 DEF Claim, MayCall
    <2> HIDE DEF f
    <2> QED
      BY <1>1, <2>1, <2>2
  <1>5. ASSUME NEW op \in {"Process", "Status"}, Share(c, op)
        PROVE  /\ call[c].place = "idle" /\ state = "Idle" /\ call'[c].place = "begun"
               /\ call'[c].frame.fn = op /\ state' = state /\ issued' = issued
               /\ \A d \in Caller : d # c => call'[d] = call[d]
               /\ UNCHANGED <<lastSent, toOutstation, delivered, lastFCB, shared>>
    <2> DEFINE f == Primary(op, FALSE, 0)
    <2>1. f \in PrimaryFrame /\ f.fn = op
      <3>1. f \in PrimaryFrame
        BY Frames
      <3>2. f.fn = op
        BY DEF Primary
      <3> QED
        BY <3>1, <3>2
    <2>2. Begins(c, f) /\ state' = state /\ issued' = issued
          /\ call[c].place = "idle" /\ state = "Idle"
      BY <1>5 DEF Share, MayCall
    <2> HIDE DEF f
    <2> QED
      BY <1>1, <2>1, <2>2
  <1>6. ASSUME NEW op \in {"Reset", "Test"}, Claim(c, op)
        PROVE  call'[c].frame.fn \in DOMAIN Claiming /\ ~IsData(call'[c].frame)
    BY <1>4, <1>6, Claims DEF IsData
  <1>7. ASSUME NEW op \in {"Process", "Status"}, Share(c, op)
        PROVE  call'[c].frame.fn \notin DOMAIN Claiming /\ ~IsData(call'[c].frame)
    BY <1>5, <1>7, Claims DEF IsData
  <1> QED
    BY <1>2, <1>3, <1>4, <1>5, <1>6, <1>7 DEF Calling

LEMMA ClaimStep ==
    ASSUME TypeOK, ClaimInv, [Next]_vars
    PROVE  ClaimInv'
  <1> DEFINE Holds(d) == call[d].place # "idle" /\ call[d].frame.fn \in DOMAIN Claiming
             Holding(d) == call'[d].place # "idle" /\ call'[d].frame.fn \in DOMAIN Claiming
  <1>1. /\ \A d \in Caller : Holds(d) => state = Claiming[call[d].frame.fn]
        /\ \A d, e \in Caller : Holds(d) /\ Holds(e) => d = e
    BY DEF ClaimInv, Active
  <1>2. SUFFICES /\ \A d \in Caller : Holding(d) => state' = Claiming[call'[d].frame.fn]
                 /\ \A d, e \in Caller : Holding(d) /\ Holding(e) => d = e
    BY DEF ClaimInv, Active
  <1>3. CASE UNCHANGED <<state, call>>
    BY <1>1, <1>3
  <1>4. ASSUME NEW c \in Caller, GoesOn(c)
        PROVE  /\ \A d \in Caller : Holding(d) => state' = Claiming[call'[d].frame.fn]
               /\ \A d, e \in Caller : Holding(d) /\ Holding(e) => d = e
    <2>1. \A d \in Caller : Holding(d) => Holds(d) /\ call'[d].frame = call[d].frame
      BY <1>4, CallSteps DEF CallsGoOn
    <2>2. ASSUME NEW d \in Caller, Holding(d) PROVE state' = state
      <3>1. Holds(d)
        BY <2>1, <2>2
      <3>2. Holds(c) => d = c
        BY <1>1, <3>1
      <3>3. call[c].place # "idle"
        BY <1>4, CallSteps
      <3>4. \/ call'[c].place # "idle" /\ state' = state
            \/ call'[c].place = "idle" /\ (call[c].frame.fn \notin DOMAIN Claiming => state' = state)
        BY <1>4, CallSteps
      <3> QED
        BY <2>2, <3>2, <3>3, <3>4
    <2> QED
      BY <1>1, <2>1, <2>2
  <1>5. ASSUME NEW c \in Caller, Calling(c)
        PROVE  /\ \A d \in Caller : Holding(d) => state' = Claiming[call'[d].frame.fn]
               /\ \A d, e \in Caller : Holding(d) /\ Holding(e) => d = e
    <2>1. CASE UNCHANGED <<state, call>>
      BY <1>3, <2>1
    <2>2. CASE ~UNCHANGED <<state, call>>
      <3>1. /\ state = "Idle"
            /\ call'[c].frame.fn \in DOMAIN Claiming => state' = Claiming[call'[c].frame.fn]
            /\ \A d \in Caller : d # c => call'[d] = call[d]
        BY <1>5, <2>2, CallBegins
      <3>2. \A d \in Caller : ~Holds(d)
        BY <1>1, <3>1, Claims
      <3>3. \A d \in Caller : Holding(d) => d = c
        BY <3>1, <3>2
      <3> QED
        BY <3>1, <3>3
    <2> QED
      BY <2>1, <2>2
  <1>6. CASE Stop \/ OutstationHandles \/ SendUnsolicitedData \/ MasterReceives \/ LoseRequest \/ LoseResponse
    BY <1>3, <1>6, AsideSteps DEF Aside
  <1>7. CASE UNCHANGED vars
    BY <1>3, <1>7 DEF vars, sharedVars
  <1> QED
    BY <1>4, <1>5, <1>6, <1>7 DEF Next

\* What a caller sends is its frame, and its own frame when it sends it once more.
LEMMA Sends ==
    ASSUME TypeOK, NEW c \in Caller, GoesOn(c)
    PROVE  \/ toOutstation' = toOutstation
           \/ \E f \in {call[c].frame, call[c].copy} :
                 /\ f \in PrimaryFrame /\ toOutstation' = Append(toOutstation, f)
                 /\ call[c].place # "resending" => f = call[c].frame
  <1>1. call[c].frame \in PrimaryFrame /\ call[c].copy \in PrimaryFrame
    BY DEF TypeOK
  <1>2. CASE Send(c)
    BY <1>1, <1>2 DEF Send, Transmit
  <1>3. CASE Resend(c)
    BY <1>1, <1>3 DEF Resend, Transmit
  <1>4. CASE StartSending(c) \/ SendNot(c) \/ WaitNot(c) \/ TakeResponse(c)
             \/ Timeout(c) \/ CountTimeout(c) \/ CountRefusal(c)
    BY <1>4 DEF StartSending, SendNot, WaitNot, TakeResponse, Timeout, CountTimeout, CountRefusal
  <1> QED
    BY <1>2, <1>3, <1>4 DEF GoesOn

LEMMA OwnFrameStep ==
    ASSUME TypeOK, [Next]_vars, ~shared', ~shared => OwnFrame
    PROVE  OwnFrame'
  <1> DEFINE Good(d) == /\ call'[d].place \notin {"idle", "begun"} => lastSent' = call'[d].frame
                        /\ call'[d].place = "resending" => call'[d].copy = call'[d].frame
  <1>1. SUFFICES \A d \in Caller : Good(d)
    BY DEF OwnFrame, Past
  <1>2. CASE UNCHANGED <<call, lastSent, shared>>
    BY <1>2 DEF OwnFrame, Past
  <1>3. ASSUME NEW c \in Caller, GoesOn(c) PROVE \A d \in Caller : Good(d)
    <2>1. ~shared /\ OwnFrame /\ \A d \in Caller : d # c => call'[d] = call[d]
      BY <1>3, CallSteps
    <2>2. call \in [Caller -> CallRecord]
      BY DEF TypeOK, CallRecord
    <2>3. CASE StartSending(c)
      <3>1. /\ lastSent' = call[c].frame /\ call' = [call EXCEPT ![c].place = "sending"]
            /\ \A d \in Caller \ {c} : call[d].place = "idle"
        BY <2>3 DEF StartSending, Move
      <3>2. call'[c].frame = call[c].frame /\ call'[c].place = "sending"
        BY <2>2, <3>1 DEF CallRecord
      <3> QED
        BY <2>1, <3>1, <3>2
    <2>4. ASSUME lastSent' = lastSent, Good(c) PROVE \A d \in Caller : Good(d)
      BY <2>1, <2>4 DEF OwnFrame, Past
    <2>5. ASSUME NEW ok \in BOOLEAN, Conclude(c, ok) PROVE Good(c)
      <3>1. call'[c] = NotCalling
        BY <2>2, <2>5 DEF Conclude
      <3> QED
        BY <3>1, Frames
    <2>6. ASSUME NEW p \in Place, NEW r, Past(c), lastSent' = lastSent, p # "resending",
                 \/ call' = [call EXCEPT ![c].place = p]
                 \/ call' = [call EXCEPT ![c].place = p, ![c].read = r]
          PROVE  Good(c)
      <3>1. call'[c].place = p /\ call'[c].frame = call[c].frame
        BY <2>2, <2>6 DEF CallRecord
      <3> QED
        BY <2>1, <2>6, <3>1 DEF OwnFrame
    <2>7. CASE Send(c)
      <3>1. /\ call' = [call EXCEPT ![c].place = "waiting"] /\ lastSent' = lastSent
            /\ Past(c) /\ "waiting" \in Place
        BY <2>7 DEF Send, Move, sharedVars, Past, Place
      <3> QED
        BY <2>4, <2>6, <3>1
    <2>8. CASE Timeout(c)
      <3>1. /\ call' = [call EXCEPT ![c].place = "timedOut", ![c].read = retryCount]
            /\ lastSent' = lastSent /\ Past(c) /\ "timedOut" \in Place
        BY <2>8 DEF Timeout, sharedVars, Past, Place
      <3> QED
        BY <2>4, <2>6, <3>1
    <2>9. CASE SendNot(c) \/ WaitNot(c) \/ Resend(c)
      <3>1. (Conclude(c, FALSE) \/ Conclude(c, TRUE)) /\ lastSent' = lastSent
        BY <2>9 DEF SendNot, WaitNot, Resend
      <3> QED
        BY <2>4, <2>5, <3>1
    <2>10. CASE TakeResponse(c)
      <3>1. lastSent' = lastSent /\ Past(c)
        BY <2>10 DEF TakeResponse, Past
      <3>2. CASE Conclude(c, TRUE)
        BY <2>4, <2>5, <3>1, <3>2
      <3>3. CASE ~Conclude(c, TRUE)
        <4>1. call' = [call EXCEPT ![c].place = "refused", ![c].read = retryCount] /\ "refused" \in Place
          BY <2>10, <3>3 DEF TakeResponse, Place
        <4> QED
          BY <2>4, <2>6, <3>1, <4>1
      <3> QED
        BY <3>2, <3>3
    <2>11. CASE CountTimeout(c)
      <3>1. lastSent' = lastSent /\ Past(c)
        BY <2>11 DEF CountTimeout, Past
      <3>2. CASE Conclude(c, FALSE)
        BY <2>4, <2>5, <3>1, <3>2
      <3>3. CASE ~Conclude(c, FALSE)
        <4>1. call' = [call EXCEPT ![c].place = "sending"] /\ "sending" \in Place
          BY <2>11, <3>3 DEF CountTimeout, Move, Place
        <4> QED
          BY <2>4, <2>6, <3>1, <4>1
      <3> QED
        BY <3>2, <3>3
    <2>12. CASE CountRefusal(c)
      <3>1. lastSent' = lastSent /\ Past(c)
        BY <2>12 DEF CountRefusal, Past
      <3>2. CASE Conclude(c, FALSE)
        BY <2>4, <2>5, <3>1, <3>2
      <3>3. CASE ~Conclude(c, FALSE)
        <4>1. call' = [call EXCEPT ![c].place = "resending", ![c].copy = lastSent]
          BY <2>12, <3>3 DEF CountRefusal
        <4>2. call'[c].frame = call[c].frame /\ call'[c].copy = lastSent
          BY <2>2, <4>1 DEF CallRecord
        <4>3. lastSent = call[c].frame
          BY <2>1, <3>1 DEF OwnFrame
        <4> QED
          BY <2>4, <3>1, <4>2, <4>3
      <3> QED
        BY <3>2, <3>3
    <2> QED
      BY <1>3, <2>3, <2>7, <2>8, <2>9, <2>10, <2>11, <2>12 DEF GoesOn
  <1>4. ASSUME NEW c \in Caller, Calling(c) PROVE \A d \in Caller : Good(d)
    <2>1. CASE UNCHANGED <<call, lastSent, shared>>
      BY <1>2, <2>1
    <2>2. CASE ~UNCHANGED <<call, lastSent, shared>>
      <3>1. /\ call'[c].place = "begun" /\ UNCHANGED <<lastSent, shared>>
            /\ \A d \in Caller : d # c => call'[d] = call[d]
        BY <1>4, <2>2, CallBegins
      <3> QED
        BY <3>1 DEF OwnFrame, Past
    <2> QED
      BY <2>1, <2>2
  <1>5. CASE Stop \/ OutstationHandles \/ SendUnsolicitedData \/ MasterReceives \/ LoseRequest \/ LoseResponse
    BY <1>2, <1>5, AsideSteps DEF Aside
  <1>6. CASE UNCHANGED vars
    BY <1>2, <1>6 DEF vars, sharedVars, ghostVars
  <1> QED
    BY <1>3, <1>4, <1>5, <1>6 DEF Next

LEMMA NumbersStep ==
    ASSUME TypeOK, ClaimInv, NumbersInv, ~shared => OwnFrame, ~shared, [Next]_vars
    PROVE  NumbersInv'
  <1> DEFINE w == toOutstation
             v == toOutstation'
  <1>1. /\ \A i \in DOMAIN w : IsData(w[i]) => w[i].n <= issued
        /\ \A k \in DOMAIN delivered : delivered[k] <= issued
        /\ \A c \in Caller : call[c].place # "idle" /\ IsData(call[c].frame) => call[c].frame.n = issued
    BY DEF NumbersInv, Active
  <1>2. /\ \A i \in DOMAIN v : IsData(v[i]) => v[i].n <= issued'
        /\ \A k \in DOMAIN delivered' : delivered'[k] <= issued'
        /\ \A c \in Caller : call'[c].place # "idle" /\ IsData(call'[c].frame) =>
              call'[c].frame.n = issued'
        => NumbersInv'
    BY DEF NumbersInv, Active
  <1>3. issued \in Nat
    BY WireFacts
  <1>4. ASSUME NEW f \in PrimaryFrame, v = Append(w, f), IsData(f) => f.n <= issued
        PROVE  \A i \in DOMAIN v : IsData(v[i]) => v[i].n <= issued
    <2>1. /\ DOMAIN w = 1..Len(w) /\ DOMAIN v = 1..(Len(w) + 1) /\ Len(w) \in Nat
          /\ v[Len(w) + 1] = f /\ \A i \in DOMAIN w : v[i] = w[i]
      BY <1>4, Appended DEF TypeOK
    <2>2. \A i \in DOMAIN v : i \in DOMAIN w \/ i = Len(w) + 1
      BY <2>1
    <2> QED
      BY <1>1, <1>4, <2>1, <2>2
  <1>5. ASSUME w # <<>>, v = Tail(w)
        PROVE  \A i \in DOMAIN v : IsData(v[i]) => v[i].n <= issued
    BY <1>1, <1>5, Shift
  <1>6. ASSUME NEW c \in Caller, GoesOn(c) PROVE NumbersInv'
    <2>1. CallsGoOn /\ UNCHANGED <<issued, delivered>> /\ call[c].place # "idle"
      BY <1>6, CallSteps
    <2>2. \A i \in DOMAIN v : IsData(v[i]) => v[i].n <= issued
      <3>1. CASE v = w
        BY <1>1, <3>1
      <3>2. CASE v # w
        <4>1. PICK f \in {call[c].frame, call[c].copy} :
                /\ f \in PrimaryFrame /\ v = Append(w, f)
                /\ call[c].place # "resending" => f = call[c].frame
          BY <1>6, <3>2, Sends
        <4>2. f = call[c].frame
          BY <4>1 DEF OwnFrame
        <4>3. IsData(f) => f.n <= issued
          BY <1>1, <1>3, <2>1, <4>2
        <4> QED
          BY <1>4, <4>1, <4>3
      <3> QED
        BY <3>1, <3>2
    <2> QED
      BY <1>1, <1>2, <2>1, <2>2 DEF CallsGoOn
  <1>7. ASSUME NEW c \in Caller, Calling(c) PROVE NumbersInv'
    <2>1. CASE SendUnconfirmedUserData(c) /\ UNCHANGED <<state, call, lastSent, issued, shared>>
      <3>1. UNCHANGED <<call, issued, delivered>>
        BY <2>1 DEF SendUnconfirmedUserData, outVars
      <3>2. Primary("Unconfirmed", FALSE, 0) \in PrimaryFrame
        BY Frames
      <3>3. v = Append(w, Primary("Unconfirmed", FALSE, 0))
        BY <2>1 DEF SendUnconfirmedUserData, Transmit
      <3>4. ~IsData(Primary("Unconfirmed", FALSE, 0))
        BY DEF Primary, IsData
      <3> QED
        BY <1>1, <1>2, <1>4, <3>1, <3>2, <3>3, <3>4
    <2>2. CASE ~(SendUnconfirmedUserData(c) /\ UNCHANGED <<state, call, lastSent, issued, shared>>)
      <3>1. /\ state = "Idle" /\ UNCHANGED <<toOutstation, delivered>>
            /\ \A d \in Caller : d # c => call'[d] = call[d]
            /\ \/ ~IsData(call'[c].frame) /\ issued' = issued
               \/ IsData(call'[c].frame) /\ issued' = issued + 1 /\ call'[c].frame.n = issued + 1
        BY <1>7, <2>2, CallBegins
      <3>2. \A d \in Caller : ~(call[d].place # "idle" /\ IsData(call[d].frame))
        BY <3>1, Claims DEF ClaimInv, Active, IsData
      <3>3. /\ \A i \in DOMAIN w : IsData(w[i]) => w[i].n <= issued'
            /\ \A k \in DOMAIN delivered : delivered[k] <= issued'
        BY <1>1, <1>3, <3>1, WireFacts
      <3> QED
        BY <1>1, <1>2, <3>1, <3>2, <3>3
    <2> QED
      BY <2>1, <2>2
  <1>8. CASE Stop \/ SendUnsolicitedData \/ MasterReceives \/ LoseResponse
    <2>1. UNCHANGED <<toOutstation, delivered, issued, call>>
      BY <1>8 DEF Stop, SendUnsolicitedData, MasterReceives, LoseResponse, ElseUnchanged, outVars, ghostVars
    <2> QED
      BY <1>1, <1>2, <2>1
  <1>9. CASE LoseRequest \/ OutstationHandles
    <2>1. UNCHANGED <<issued, call>> /\ w # <<>> /\ v = Tail(w)
      BY <1>9 DEF LoseRequest, OutstationHandles, HandleResetLink, HandleOther, HandleDuplicate,
        HandleConfirmedUserData, CallbackFails, HandleUnconfirmedUserData, Take, ElseUnchanged, ghostVars
    <2>2. \/ delivered' = delivered
          \/ delivered' = Append(delivered, Head(w).n) /\ IsData(Head(w))
      BY <1>9 DEF LoseRequest, OutstationHandles, HandleResetLink, HandleOther, HandleDuplicate,
        HandleConfirmedUserData, CallbackFails, HandleUnconfirmedUserData, Take, IsData, outVars
    <2>3. IsData(Head(w)) => Head(w).n <= issued /\ Head(w).n \in Nat
      <3>1. 1 \in DOMAIN w /\ Head(w) = w[1]
        BY <2>1, Shift
      <3> QED
        BY <1>1, <3>1, WireFacts
    <2>4. \A k \in DOMAIN delivered' : delivered'[k] <= issued
      <3>1. CASE delivered' = delivered
        BY <1>1, <3>1
      <3>2. CASE delivered' = Append(delivered, Head(w).n) /\ IsData(Head(w))
        <4>1. /\ DOMAIN delivered = 1..Len(delivered) /\ DOMAIN delivered' = 1..(Len(delivered) + 1)
              /\ Len(delivered) \in Nat /\ delivered'[Len(delivered) + 1] = Head(w).n
              /\ \A k \in DOMAIN delivered : delivered'[k] = delivered[k]
          BY <2>3, <3>2, Appended DEF TypeOK
        <4>2. \A k \in DOMAIN delivered' : k \in DOMAIN delivered \/ k = Len(delivered) + 1
          BY <4>1
        <4> QED
          BY <1>1, <2>3, <3>2, <4>1, <4>2
      <3> QED
        BY <2>2, <3>1, <3>2
    <2> QED
      BY <1>1, <1>2, <1>5, <2>1, <2>4
  <1>10. CASE UNCHANGED vars
    BY <1>1, <1>2, <1>10 DEF vars, outVars, ghostVars
  <1> QED
    BY <1>6, <1>7, <1>8, <1>9, <1>10 DEF Next

LEMMA LoneStep ==
    ASSUME TypeOK, ClaimInv, LoneInv, [Next]_vars
    PROVE  LoneInv'
  <1>1. shared => shared'
    <2>1. ASSUME NEW c \in Caller, Calling(c) PROVE shared' = shared
      BY <2>1, CallBegins
    <2>2. ASSUME UNCHANGED vars PROVE shared' = shared
      BY <2>2 DEF vars, ghostVars
    <2> QED
      BY <2>1, <2>2, CallSteps, AsideSteps DEF Next, Aside
  <1> SUFFICES ASSUME ~shared' PROVE OwnFrame' /\ NumbersInv' /\ OnTheWay' /\ Recognised' /\ Repeatable' /\ Increasing'
    BY DEF LoneInv
  <1>2. ~shared /\ OwnFrame /\ NumbersInv /\ OnTheWay /\ Recognised /\ Repeatable /\ Increasing
    BY <1>1 DEF LoneInv
  <1>3. OwnFrame' /\ NumbersInv'
    BY <1>2, OwnFrameStep, NumbersStep
  <1>4. SUFFICES OnTheWay' /\ Recognised' /\ Repeatable' /\ Increasing'
    BY <1>3
  <1>5. UNCHANGED call => DataGoesOn
    BY DEF DataGoesOn
  <1>6. ASSUME NEW c \in Caller, GoesOn(c) PROVE OnTheWay' /\ Recognised' /\ Repeatable' /\ Increasing'
    <2>1. DataGoesOn /\ UNCHANGED <<issued, delivered, lastFCB>> /\ Active(c)
      BY <1>6, CallSteps DEF CallsGoOn, DataGoesOn, Active
    <2>2. CASE toOutstation' = toOutstation
      BY <1>2, <2>1, <2>2, QuietStep
    <2>3. CASE toOutstation' # toOutstation
      <3>1. PICK f \in {call[c].frame, call[c].copy} :
              /\ f \in PrimaryFrame /\ toOutstation' = Append(toOutstation, f)
              /\ call[c].place # "resending" => f = call[c].frame
        BY <1>6, <2>3, Sends
      <3>2. f = call[c].frame
        BY <1>2, <3>1 DEF OwnFrame
      <3> QED
        BY <1>2, <2>1, <3>1, <3>2, FrameSent
    <2> QED
      BY <2>2, <2>3
  <1>7. ASSUME NEW c \in Caller, Calling(c) PROVE OnTheWay' /\ Recognised' /\ Repeatable' /\ Increasing'
    <2>1. CASE SendUnconfirmedUserData(c) /\ UNCHANGED <<state, call, lastSent, issued, shared>>
      <3> DEFINE f == Primary("Unconfirmed", FALSE, 0)
      <3>1. UNCHANGED <<issued, delivered, lastFCB>> /\ DataGoesOn
        BY <1>5, <2>1 DEF SendUnconfirmedUserData, outVars
      <3>2. f \in PrimaryFrame
        BY Frames
      <3>3. toOutstation' = Append(toOutstation, f)
        BY <2>1 DEF SendUnconfirmedUserData, Transmit
      <3>4. f.fn \notin {"Data", "Reset"}
        BY DEF Primary
      <3> HIDE DEF f
      <3> QED
        BY <1>2, <3>1, <3>2, <3>3, <3>4, FrameSent
    <2>2. CASE ~(SendUnconfirmedUserData(c) /\ UNCHANGED <<state, call, lastSent, issued, shared>>)
      <3>1. /\ state = "Idle" /\ UNCHANGED <<toOutstation, delivered, lastFCB>>
            /\ \A d \in Caller : d # c => call'[d] = call[d]
            /\ \/ ~IsData(call'[c].frame) /\ issued' = issued
               \/ IsData(call'[c].frame) /\ issued' = issued + 1
        BY <1>7, <2>2, CallBegins
      <3>2. CASE ~IsData(call'[c].frame) /\ issued' = issued
        <4>1. DataGoesOn
          BY <3>1, <3>2 DEF DataGoesOn
        <4> QED
          BY <1>2, <3>1, <3>2, <4>1, QuietStep
      <3>3. CASE IsData(call'[c].frame) /\ issued' = issued + 1
        <4>1. \A d \in Caller : d # c => ~(call'[d].place # "idle" /\ IsData(call'[d].frame))
          BY <3>1, Claims DEF ClaimInv, Active, IsData
        <4>2. /\ \A i \in DOMAIN toOutstation : IsData(toOutstation[i]) => toOutstation[i].n # issued'
              /\ \A k \in DOMAIN delivered : delivered[k] # issued'
          BY <1>2, <3>3, WireFacts DEF NumbersInv
        <4>3. Repeatable'
          BY <3>1, <4>1, <4>2 DEF Repeatable, Active
        <4>4. OnTheWay' /\ Increasing'
          BY <1>2, <3>1 DEF OnTheWay, Increasing
        <4>5. Recognised'
          BY <1>2, <3>1 DEF Recognised
        <4> QED
          BY <4>3, <4>4, <4>5
      <3> QED
        BY <3>1, <3>2, <3>3
    <2> QED
      BY <2>1, <2>2
  <1>8. CASE Stop \/ SendUnsolicitedData \/ MasterReceives \/ LoseResponse
    <2>1. UNCHANGED <<toOutstation, delivered, issued, lastFCB, call>>
      BY <1>8 DEF Stop, SendUnsolicitedData, MasterReceives, LoseResponse, ElseUnchanged, outVars, ghostVars
    <2> QED
      BY <1>2, <1>5, <2>1, QuietStep
  <1>9. CASE HandleConfirmedUserData
    <2>1. /\ UNCHANGED <<issued, call>> /\ toOutstation # <<>> /\ toOutstation' = Tail(toOutstation)
          /\ IsData(Head(toOutstation)) /\ Head(toOutstation).fcb \notin lastFCB
          /\ lastFCB' = {Head(toOutstation).fcb}
          /\ delivered' = Append(delivered, Head(toOutstation).n)
      BY <1>9 DEF HandleConfirmedUserData, Take, IsDuplicate, IsData, ElseUnchanged, ghostVars
    <2> QED
      BY <1>2, <1>5, <2>1, HandOver
  <1>10. CASE LoseRequest \/ HandleResetLink \/ HandleOther \/ HandleDuplicate \/ CallbackFails
              \/ HandleUnconfirmedUserData
    <2>1. UNCHANGED <<issued, call, delivered>> /\ toOutstation # <<>> /\ toOutstation' = Tail(toOutstation)
      BY <1>10 DEF LoseRequest, HandleResetLink, HandleOther, HandleDuplicate,
        CallbackFails, HandleUnconfirmedUserData, Take, ElseUnchanged, ghostVars, outVars
    <2>2. \/ lastFCB' = lastFCB
          \/ Head(toOutstation).fn = "Reset"
          \/ IsData(Head(toOutstation)) /\ Head(toOutstation).fcb \notin lastFCB
      BY <1>10 DEF LoseRequest, HandleResetLink, HandleOther, HandleDuplicate, CallbackFails,
        HandleUnconfirmedUserData, Take, IsDuplicate, IsData, outVars
    <2> QED
      BY <1>2, <1>5, <2>1, <2>2, FrameLeaves
  <1>11. CASE UNCHANGED vars
    <2>1. UNCHANGED <<toOutstation, delivered, issued, lastFCB, call>>
      BY <1>11 DEF vars, outVars, ghostVars
    <2> QED
      BY <1>2, <1>5, <2>1, QuietStep
  <1> QED
    BY <1>6, <1>7, <1>8, <1>9, <1>10, <1>11 DEF Next, OutstationHandles

LEMMA LinkInit == Init => ClaimInv /\ LoneInv
  <1> SUFFICES ASSUME Init PROVE ClaimInv /\ LoneInv
    OBVIOUS
  <1>1. \A c \in Caller : call[c].place = "idle"
    BY Frames DEF Init
  <1>2. DOMAIN toOutstation = {} /\ DOMAIN delivered = {}
    BY DEF Init
  <1>3. ClaimInv
    BY <1>1 DEF ClaimInv, Active
  <1>4. OwnFrame /\ NumbersInv
    BY <1>1, <1>2 DEF OwnFrame, Past, NumbersInv, Active
  <1>5. OnTheWay /\ Recognised /\ Repeatable /\ Increasing
    BY <1>1, <1>2 DEF OnTheWay, Recognised, Repeatable, Increasing, Active
  <1> QED
    BY <1>3, <1>4, <1>5 DEF LoneInv

\* As long as no two calls run at once, no confirmed data is handed over twice or out of
\* order: for any number of callers, calls, retries, losses, resets and failing callbacks.
THEOREM AtMostOnceDelivery == Spec => []AtMostOnce
  <1>1. TypeOK /\ ClaimInv /\ LoneInv /\ [Next]_vars => ClaimInv' /\ LoneInv'
    BY ClaimStep, LoneStep
  <1>2. LoneInv => AtMostOnce
    BY DEF LoneInv, AtMostOnce, Increasing
  <1> QED
    BY <1>1, <1>2, LinkInit, TypeCorrect, PTL DEF Spec

\* At most one call claims the link at a time, and the state is the one it has set,
\* whatever calls that do not claim it run beside it.
THEOREM OneClaims == Spec => []ClaimInv
  <1>1. TypeOK /\ ClaimInv /\ [Next]_vars => ClaimInv'
    BY ClaimStep
  <1>2. Init => ClaimInv
    BY LinkInit
  <1> QED
    BY <1>1, <1>2, TypeCorrect, PTL DEF Spec
-----------------------------------------------------------------------------
(* What SuccessIsDelivery rests on.                                        *)

\* Where members of a set T are in a sequence.
Has(s, T) == \E i \in DOMAIN s : s[i] \in T
OnceIn(s, T) == \A i, j \in DOMAIN s : s[i] \in T /\ s[j] \in T => i = j

LEMMA AppendHas ==
    ASSUME NEW S, NEW s \in Seq(S), NEW x \in S, NEW t, t = Append(s, x), NEW T
    PROVE  /\ Has(t, T) <=> Has(s, T) \/ x \in T
           /\ OnceIn(s, T) /\ ~(Has(s, T) /\ x \in T) => OnceIn(t, T)
  <1>1. /\ DOMAIN s = 1..Len(s) /\ Len(s) \in Nat /\ DOMAIN t = 1..(Len(s) + 1)
        /\ t[Len(s) + 1] = x /\ \A i \in 1..Len(s) : t[i] = s[i]
    BY Appended
  <1>2. \A i \in DOMAIN t : i \in DOMAIN s \/ i = Len(s) + 1
    BY <1>1
  <1>3. Has(t, T) <=> Has(s, T) \/ x \in T
    BY <1>1, <1>2 DEF Has
  <1>4. OnceIn(s, T) /\ ~(Has(s, T) /\ x \in T) => OnceIn(t, T)
    BY <1>1, <1>2 DEF Has, OnceIn
  <1> QED
    BY <1>3, <1>4

LEMMA TailHas ==
    ASSUME NEW S, NEW s \in Seq(S), s # <<>>, NEW t, t = Tail(s), NEW T
    PROVE  /\ Head(s) \in S
           /\ Has(s, T) <=> Has(t, T) \/ Head(s) \in T
           /\ OnceIn(s, T) => OnceIn(t, T) /\ (Head(s) \in T => ~Has(t, T))
  <1>1. /\ DOMAIN s = 1..Len(s) /\ Len(s) \in Nat \ {0} /\ DOMAIN t = 1..(Len(s) - 1)
        /\ Head(s) = s[1] /\ Head(s) \in S /\ \A i \in 1..(Len(s) - 1) : t[i] = s[i + 1]
    BY Removed
  <1>2. ASSUME NEW i \in DOMAIN t PROVE i + 1 \in DOMAIN s /\ t[i] = s[i + 1] /\ i + 1 # 1
    BY <1>1
  <1>3. ASSUME NEW i \in DOMAIN s, i # 1 PROVE i - 1 \in DOMAIN t /\ t[i - 1] = s[i]
    BY <1>1, <1>3
  <1>4. 1 \in DOMAIN s
    BY <1>1
  <1>5. Has(s, T) <=> Has(t, T) \/ Head(s) \in T
    BY <1>1, <1>2, <1>3, <1>4 DEF Has
  <1>6. ASSUME OnceIn(s, T) PROVE OnceIn(t, T)
    <2>1. ASSUME NEW i \in DOMAIN t, NEW j \in DOMAIN t, t[i] \in T, t[j] \in T PROVE i = j
      <3>1. i + 1 = j + 1
        BY <1>2, <1>6, <2>1 DEF OnceIn
      <3> QED
        BY <1>1, <3>1
    <2> QED
      BY <2>1 DEF OnceIn
  <1>7. ASSUME OnceIn(s, T), Head(s) \in T PROVE ~Has(t, T)
    BY <1>1, <1>2, <1>4, <1>7 DEF OnceIn, Has
  <1> QED
    BY <1>1, <1>5, <1>6, <1>7

\* Nothing has happened that SuccessIsDelivery excludes.
Clean == ~shared /\ ~early /\ ~stopped /\ budget.failures = MaxFailures

\* The frames that are answered, and the answers.
Asking == {f \in PrimaryFrame : f.fn # "Unconfirmed"}
Answering == SecondaryFn \ {"Unsolicited"}

NothingDue == ~Has(toOutstation, Asking) /\ ~Has(toMaster, Answering) /\ responses = <<>>

\* The outstation has done what c asked for.
Answered(c) ==
    /\ IsData(call[c].frame) =>
          lastFCB \subseteq {call[c].frame.fcb} /\ call[c].frame.n \in Delivered
    /\ call[c].frame.fn = "Reset" => lastFCB = {}

\* c waits, and all there is, if it is not lost, is its frame or the answer to it.
Awaits(c) ==
    /\ call[c].place = "waiting"
    /\ \/ /\ OnceIn(toOutstation, Asking) /\ ~Has(toOutstation, Asking \ {call[c].frame})
          /\ ~Has(toMaster, Answering) /\ responses = <<>>
       \/ /\ ~Has(toOutstation, Asking) /\ responses = <<>>
          /\ OnceIn(toMaster, Answering) /\ ~Has(toMaster, {"Nack"})
          /\ Answered(c)
       \/ /\ ~Has(toOutstation, Asking) /\ ~Has(toMaster, Answering)
          /\ Tail(responses) = <<>> /\ Head(responses) # "Nack"
          /\ Answered(c)

DueInv == NothingDue \/ \E c \in Caller : Awaits(c)

\* One call sends at a time, and it is not refused.
PlacesInv ==
    /\ \A c, d \in Caller : Past(c) /\ Past(d) => c = d
    /\ \A c \in Caller : call[c].place \notin {"refused", "resending"}

\* Where the bit of the outstation is what the next data does not have.
BitInv ==
    /\ \A x, y \in lastFCB : x = y
    /\ state \in {"Idle", "TestPending"} => lastFCB \subseteq {fcb}
    /\ \A c \in Caller : Active(c) /\ IsData(call[c].frame) =>
          /\ fcb = call[c].frame.fcb
          /\ call[c].frame.fcb \in lastFCB => call[c].frame.n \in Delivered

CleanInv == Clean => DueInv /\ PlacesInv /\ BitInv /\ succeeded \subseteq Delivered

LEMMA CleanInit == Init => CleanInv
  <1> SUFFICES ASSUME Init PROVE CleanInv
    OBVIOUS
  <1>1. \A c \in Caller : call[c].place = "idle"
    BY Frames DEF Init
  <1>2. DOMAIN toOutstation = {} /\ DOMAIN toMaster = {} /\ responses = <<>>
    BY DEF Init
  <1>3. DueInv
    BY <1>2 DEF DueInv, NothingDue, Has
  <1>4. PlacesInv
    BY <1>1 DEF PlacesInv, Past
  <1>5. BitInv /\ succeeded \subseteq Delivered
    BY <1>1 DEF Init, BitInv, Active
  <1> QED
    BY <1>3, <1>4, <1>5 DEF CleanInv

\* A call that waits is the only one past its beginning; nothing is due while it does not.
LEMMA OneAwaits ==
    ASSUME DueInv, PlacesInv, NEW c \in Caller, Past(c)
    PROVE  /\ call[c].place = "waiting" => NothingDue \/ Awaits(c)
           /\ call[c].place # "waiting" => NothingDue
  <1>1. \A d \in Caller : Awaits(d) => Past(d)
    BY DEF Awaits, Past
  <1>2. \A d \in Caller : Awaits(d) => d = c
    BY <1>1 DEF PlacesInv
  <1> QED
    BY <1>2 DEF DueInv, Awaits

\* Nothing new is asked or answered, and who waits goes on waiting.
LEMMA DueKept ==
    ASSUME DueInv, UNCHANGED <<lastFCB, delivered, responses>>,
           \A c \in Caller : call[c].place = "waiting" => call'[c] = call[c],
           \A T \in SUBSET Asking : Has(toOutstation', T) => Has(toOutstation, T),
           OnceIn(toOutstation, Asking) => OnceIn(toOutstation', Asking),
           \A T \in SUBSET Answering : Has(toMaster', T) => Has(toMaster, T),
           OnceIn(toMaster, Answering) => OnceIn(toMaster', Answering)
    PROVE  DueInv'
  <1>1. NothingDue => NothingDue'
    BY DEF NothingDue
  <1>2. ASSUME NEW c \in Caller, Awaits(c) PROVE Awaits(c)'
    <2>1. call'[c] = call[c] /\ call[c].place = "waiting"
      BY <1>2 DEF Awaits
    <2>2. Answered(c) => Answered(c)'
      BY <2>1 DEF Answered, Delivered, IsData
    <2>3. Asking \ {call[c].frame} \in SUBSET Asking /\ {"Nack"} \in SUBSET Answering
      BY DEF Answering, SecondaryFn
    <2> QED
      BY <1>2, <2>1, <2>2, <2>3 DEF Awaits
  <1> QED
    BY <1>1, <1>2 DEF DueInv

\* The end of a call.
LEMMA ConcludeBits ==
    ASSUME TypeOK, ClaimInv, BitInv, succeeded \subseteq Delivered, NEW c \in Caller,
           Active(c), NEW ok \in BOOLEAN, Conclude(c, ok), ok => Answered(c)
    PROVE  BitInv' /\ succeeded' \subseteq Delivered'
  <1> DEFINE frame == call[c].frame
  <1>1. /\ UNCHANGED <<lastFCB, delivered>> /\ Delivered' = Delivered
        /\ state' = IF frame.fn \notin DOMAIN Claiming THEN state
                    ELSE IF ok THEN "Idle" ELSE "Error"
        /\ succeeded' = IF frame.fn = "Data" /\ ok THEN succeeded \cup {frame.n} ELSE succeeded
    BY DEF Conclude, outVars, Delivered
  <1>2. /\ frame.fn = "Reset" /\ ok => fcb' = FALSE
        /\ frame.fn # "Data" /\ ~(frame.fn = "Reset" /\ ok) => fcb' = fcb
        /\ frame.fn = "Data" /\ ok => fcb' = fcb
    BY DEF Conclude
  <1>3. call'[c].place = "idle" /\ \A d \in Caller : d # c => call'[d] = call[d]
    BY Frames DEF Conclude, TypeOK
  <1>4. frame.fn \in DOMAIN Claiming => state = Claiming[frame.fn]
    BY DEF ClaimInv
  <1>5. state' \in {"Idle", "TestPending"} => lastFCB \subseteq {fcb'}
    <2>1. CASE frame.fn \notin DOMAIN Claiming
      BY <1>1, <1>2, <2>1, Claims DEF BitInv
    <2>2. CASE frame.fn \in DOMAIN Claiming /\ ~ok
      BY <1>1, <2>2
    <2>3. CASE frame.fn = "Reset" /\ ok
      BY <2>3 DEF Answered
    <2>4. CASE frame.fn = "Test" /\ ok
      BY <1>2, <1>4, <2>4, Claims DEF BitInv
    <2>5. CASE frame.fn = "Data" /\ ok
      BY <1>2, <2>5 DEF BitInv, Answered, IsData
    <2> QED
      BY <2>1, <2>2, <2>3, <2>4, <2>5, Claims
  <1>6. ASSUME NEW d \in Caller, Active(d)', IsData(call'[d].frame)
        PROVE  /\ fcb' = call'[d].frame.fcb
               /\ call'[d].frame.fcb \in lastFCB => call'[d].frame.n \in Delivered
    <2>1. d # c /\ call'[d] = call[d] /\ Active(d) /\ IsData(call[d].frame)
      BY <1>3, <1>6 DEF Active
    <2>2. frame.fn \notin DOMAIN Claiming
      BY <2>1, Claims DEF ClaimInv, IsData
    <2>3. fcb' = fcb
      BY <1>2, <2>2, Claims
    <2> QED
      BY <2>1, <2>3 DEF BitInv
  <1>7. succeeded' \subseteq Delivered'
    BY <1>1 DEF Answered, IsData
  <1>8. \A x, y \in lastFCB' : x = y
    BY <1>1 DEF BitInv
  <1> QED
    BY <1>1, <1>5, <1>6, <1>7, <1>8 DEF BitInv

\* A step of a call that neither begins nor ends.
LEMMA MoveKeeps ==
    ASSUME TypeOK, PlacesInv, BitInv, NEW c \in Caller, Active(c),
           call'[c].place \in {"sending", "waiting", "timedOut"}, call'[c].frame = call[c].frame,
           \A d \in Caller : d # c => call'[d] = call[d],
           Past(c) \/ \A d \in Caller \ {c} : ~Past(d),
           UNCHANGED <<state, fcb, lastFCB, delivered>>
    PROVE  PlacesInv' /\ BitInv'
  <1>1. \A d \in Caller : d # c => ~Past(d)
    BY DEF PlacesInv
  <1>2. PlacesInv'
    BY <1>1 DEF PlacesInv, Past
  <1>3. BitInv'
    BY DEF BitInv, Active, IsData, Delivered
  <1> QED
    BY <1>2, <1>3

LEMMA CleanCall ==
    ASSUME TypeOK, ClaimInv, NEW c \in Caller, GoesOn(c), Clean, Clean',
           DueInv, PlacesInv, BitInv, succeeded \subseteq Delivered
    PROVE  DueInv' /\ PlacesInv' /\ BitInv' /\ succeeded' \subseteq Delivered'
  <1>1. call \in [Caller -> CallRecord]
    BY DEF TypeOK, CallRecord
  <1>2. Active(c) /\ UNCHANGED <<delivered, lastFCB>> /\ Delivered' = Delivered
    BY CallSteps DEF Active, Delivered
  <1>3. call[c].place \notin {"refused", "resending"}
    BY DEF PlacesInv
  <1>4. ~stopped /\ ~early' /\ ~shared'
    BY DEF Clean
  \* The call ends.
  <1>5. ASSUME NEW ok \in BOOLEAN, Conclude(c, ok), ok => Answered(c), NothingDue'
        PROVE  DueInv' /\ PlacesInv' /\ BitInv' /\ succeeded' \subseteq Delivered'
    <2>1. call'[c].place = "idle" /\ \A d \in Caller : d # c => call'[d] = call[d]
      BY <1>5, Frames DEF Conclude, TypeOK
    <2>2. PlacesInv'
      BY <2>1 DEF PlacesInv, Past
    <2>3. BitInv' /\ succeeded' \subseteq Delivered'
      BY <1>2, <1>5, ConcludeBits
    <2> QED
      BY <1>5, <2>2, <2>3 DEF DueInv
  <1>6. CASE StartSending(c)
    <2>1. /\ call[c].place = "begun" /\ call' = [call EXCEPT ![c].place = "sending"]
          /\ \A d \in Caller \ {c} : call[d].place = "idle"
          /\ UNCHANGED <<state, fcb, responses, toOutstation, toMaster, succeeded>>
      BY <1>4, <1>6 DEF StartSending, Move
    <2>2. call'[c].place = "sending" /\ call'[c].frame = call[c].frame
          /\ \A d \in Caller : d # c => call'[d] = call[d]
      BY <1>1, <2>1 DEF CallRecord
    <2>3. PlacesInv' /\ BitInv'
      BY <1>2, <2>1, <2>2, MoveKeeps DEF Past
    <2>4. \A d \in Caller : call[d].place # "waiting"
      BY <2>1
    <2>5. NothingDue'
      BY <2>1, <2>4 DEF DueInv, Awaits, NothingDue
    <2> QED
      BY <1>2, <2>1, <2>3, <2>5 DEF DueInv
  <1>7. CASE Send(c)
    <2>1. /\ call[c].place = "sending" /\ call' = [call EXCEPT ![c].place = "waiting"]
          /\ toOutstation' = Append(toOutstation, call[c].frame)
          /\ UNCHANGED <<state, fcb, responses, toMaster, succeeded>>
      BY <1>7 DEF Send, Move, Transmit, sharedVars, ghostVars
    <2>2. call'[c].place = "waiting" /\ call'[c].frame = call[c].frame
          /\ \A d \in Caller : d # c => call'[d] = call[d]
      BY <1>1, <2>1 DEF CallRecord
    <2>3. PlacesInv' /\ BitInv'
      BY <1>2, <2>1, <2>2, MoveKeeps DEF Past
    <2>4. NothingDue
      BY <2>1, OneAwaits DEF Past
    <2>5. call[c].frame \in PrimaryFrame /\ toOutstation \in Seq(PrimaryFrame)
      BY DEF TypeOK
    <2>6. ~Has(toOutstation, Asking \ {call[c].frame}) /\ OnceIn(toOutstation, Asking)
      BY <2>4 DEF NothingDue, Has, OnceIn
    <2>7. ~Has(toOutstation', Asking \ {call[c].frame}) /\ OnceIn(toOutstation', Asking)
      <3> DEFINE f == call[c].frame
      <3>0. toOutstation' = Append(toOutstation, f) /\ f \in PrimaryFrame
        BY <2>1, <2>5
      <3> HIDE DEF f
      <3>3. \A T :
              /\ Has(toOutstation', T) <=> Has(toOutstation, T) \/ f \in T
              /\ OnceIn(toOutstation, T) /\ ~(Has(toOutstation, T) /\ f \in T) =>
                    OnceIn(toOutstation', T)
        BY <2>5, <3>0, AppendHas
      <3>1. ~Has(toOutstation', Asking \ {call[c].frame})
        BY <2>6, <3>3 DEF f
      <3>2. OnceIn(toOutstation', Asking)
        BY <2>4, <2>6, <3>3 DEF NothingDue
      <3> QED
        BY <3>1, <3>2
    <2>8. Awaits(c)'
      BY <2>1, <2>2, <2>4, <2>7 DEF Awaits, NothingDue
    <2> QED
      BY <1>2, <2>1, <2>3, <2>8 DEF DueInv
  <1>8. CASE SendNot(c)
    <2>1. call[c].place = "sending" /\ Conclude(c, FALSE) /\ UNCHANGED <<responses, toOutstation>>
      BY <1>3, <1>8 DEF SendNot
    <2>2. UNCHANGED toMaster
      BY <2>1 DEF Conclude
    <2>3. NothingDue
      BY <2>1, OneAwaits DEF Past
    <2>4. NothingDue'
      BY <2>1, <2>2, <2>3 DEF NothingDue
    <2> QED
      BY <1>5, <2>1, <2>4
  <1>9. CASE WaitNot(c)
    BY <1>4, <1>9 DEF WaitNot
  <1>10. CASE TakeResponse(c)
    <2>1. /\ call[c].place = "waiting" /\ responses # <<>> /\ responses' = Tail(responses)
          /\ UNCHANGED toOutstation
      BY <1>10 DEF TakeResponse
    <2>2. Awaits(c)
      BY <2>1, OneAwaits DEF Past, NothingDue
    <2>3. /\ ~Has(toOutstation, Asking) /\ ~Has(toMaster, Answering)
          /\ Tail(responses) = <<>> /\ Head(responses) # "Nack" /\ Answered(c)
      BY <2>1, <2>2 DEF Awaits
    <2>4. Conclude(c, TRUE)
      BY <1>10, <2>3 DEF TakeResponse
    <2>5. NothingDue'
      BY <2>1, <2>3, <2>4 DEF NothingDue, Conclude
    <2> QED
      BY <1>5, <2>3, <2>4, <2>5
  <1>11. CASE Timeout(c)
    <2>1. /\ call[c].place = "waiting"
          /\ call' = [call EXCEPT ![c].place = "timedOut", ![c].read = retryCount]
          /\ early' = (early \/ ~Quiet)
          /\ UNCHANGED <<state, fcb, responses, toOutstation, toMaster, succeeded>>
      BY <1>11 DEF Timeout, sharedVars
    <2>2. call'[c].place = "timedOut" /\ call'[c].frame = call[c].frame
          /\ \A d \in Caller : d # c => call'[d] = call[d]
      BY <1>1, <2>1 DEF CallRecord
    <2>3. PlacesInv' /\ BitInv'
      BY <1>2, <2>1, <2>2, MoveKeeps DEF Past
    <2>4. toOutstation = <<>> /\ toMaster = <<>> /\ responses = <<>>
      BY <1>4, <2>1 DEF Quiet
    <2>5. NothingDue'
      BY <2>1, <2>4 DEF NothingDue, Has
    <2> QED
      BY <1>2, <2>1, <2>3, <2>5 DEF DueInv
  <1>12. CASE CountTimeout(c)
    <2>1. call[c].place = "timedOut" /\ UNCHANGED <<responses, toOutstation>>
      BY <1>12 DEF CountTimeout
    <2>2. NothingDue
      BY <2>1, OneAwaits DEF Past
    <2>3. CASE Conclude(c, FALSE)
      <3>1. NothingDue'
        BY <2>1, <2>2, <2>3 DEF NothingDue, Conclude
      <3> QED
        BY <1>5, <2>3, <3>1
    <2>4. CASE ~Conclude(c, FALSE)
      <3>1. /\ call' = [call EXCEPT ![c].place = "sending"]
            /\ UNCHANGED <<state, fcb, toMaster, succeeded>>
        BY <1>12, <2>4 DEF CountTimeout, Move
      <3>2. call'[c].place = "sending" /\ call'[c].frame = call[c].frame
            /\ \A d \in Caller : d # c => call'[d] = call[d]
        BY <1>1, <3>1 DEF CallRecord
      <3>3. PlacesInv' /\ BitInv'
        BY <1>2, <2>1, <3>1, <3>2, MoveKeeps DEF Past
      <3>4. NothingDue'
        BY <2>1, <2>2, <3>1 DEF NothingDue
      <3> QED
        BY <1>2, <3>1, <3>3, <3>4 DEF DueInv
    <2> QED
      BY <2>3, <2>4
  <1>13. CASE CountRefusal(c) \/ Resend(c)
    BY <1>3, <1>13 DEF CountRefusal, Resend
  <1> QED
    BY <1>6, <1>7, <1>8, <1>9, <1>10, <1>11, <1>12, <1>13 DEF GoesOn

\* A call that begins has found the link idle; its data has the other bit.
LEMMA CleanCalling ==
    ASSUME TypeOK, ClaimInv, NEW c \in Caller, Calling(c),
           DueInv, PlacesInv, BitInv, succeeded \subseteq Delivered
    PROVE  DueInv' /\ PlacesInv' /\ BitInv' /\ succeeded' \subseteq Delivered'
  <1>1. UNCHANGED <<lastFCB, delivered, responses, toMaster, succeeded>> /\ Delivered' = Delivered
    BY ZenonT(30) DEF Calling, SendConfirmedUserData, SendUnconfirmedUserData, Claim, Share, Begins,
           outVars, ghostVars, Delivered
  <1>2. CASE SendUnconfirmedUserData(c)
    <2> DEFINE f == Primary("Unconfirmed", FALSE, 0)
    <2>1. /\ toOutstation' = Append(toOutstation, f)
          /\ UNCHANGED <<state, fcb, call>>
      BY <1>2 DEF SendUnconfirmedUserData, Transmit, sharedVars
    <2>2. f \in PrimaryFrame /\ f \notin Asking
      BY Frames DEF Asking
    <2> HIDE DEF f
    <2>3. \A T :
            /\ Has(toOutstation', T) <=> Has(toOutstation, T) \/ f \in T
            /\ OnceIn(toOutstation, T) /\ ~(Has(toOutstation, T) /\ f \in T) =>
                  OnceIn(toOutstation', T)
      <3>1. toOutstation \in Seq(PrimaryFrame)
        BY DEF TypeOK
      <3> QED
        BY <2>1, <2>2, <3>1, AppendHas
    <2>4. DueInv'
      BY <1>1, <2>1, <2>2, <2>3, DueKept
    <2>5. PlacesInv' /\ BitInv'
      BY <1>1, <2>1 DEF PlacesInv, BitInv, Past, Active
    <2> QED
      BY <1>1, <2>4, <2>5
  <1>3. CASE ~SendUnconfirmedUserData(c)
    <2>1. /\ call[c].place = "idle" /\ state = "Idle" /\ call'[c].place = "begun"
          /\ call'[c].frame.fn \in {"Data", "Reset", "Test", "Process", "Status"}
          /\ call'[c].frame.fn \in DOMAIN Claiming => state' = Claiming[call'[c].frame.fn]
          /\ \A d \in Caller : d # c => call'[d] = call[d]
          /\ UNCHANGED toOutstation
      BY <1>3, CallBegins
    <2>2. \/ /\ IsData(call'[c].frame)
             /\ fcb' = (~fcb) /\ call'[c].frame.fcb = (~fcb)
          \/ ~IsData(call'[c].frame) /\ fcb' = fcb
      <3>1. CASE SendConfirmedUserData(c)
        <4> DEFINE f == Primary("Data", ~fcb, issued + 1)
        <4>1. f.fn = "Data" /\ f.fcb = (~fcb)
          BY DEF Primary
        <4>2. fcb' = (~fcb) /\ call' = [call EXCEPT ![c] = [NotCalling EXCEPT !.place = "begun", !.frame = f]]
          BY <3>1 DEF SendConfirmedUserData, Begins
        <4> HIDE DEF f
        <4>3. call'[c].frame = f
          BY <4>2 DEF TypeOK, NotCalling
        <4> QED
          BY <4>1, <4>2, <4>3 DEF IsData
      <3>2. ASSUME NEW op \in {"Reset", "Test", "Process", "Status"}, Claim(c, op) \/ Share(c, op)
            PROVE  ~IsData(call'[c].frame) /\ fcb' = fcb
        <4> DEFINE f == Primary(op, FALSE, 0)
        <4>1. f.fn = op
          BY DEF Primary
        <4>2. fcb' = fcb /\ call' = [call EXCEPT ![c] = [NotCalling EXCEPT !.place = "begun", !.frame = f]]
          BY <3>2 DEF Claim, Share, Begins
        <4> HIDE DEF f
        <4>3. call'[c].frame = f
          BY <4>2 DEF TypeOK, NotCalling
        <4> QED
          BY <4>1, <4>2, <4>3 DEF IsData
      <3> QED
        BY <1>3, <3>1, <3>2 DEF Calling
    <2>3. DueInv'
      BY <1>1, <2>1, DueKept
    <2>4. PlacesInv'
      BY <2>1 DEF PlacesInv, Past
    <2>5. lastFCB \subseteq {fcb} /\ fcb \in BOOLEAN
      BY <2>1 DEF BitInv, TypeOK
    <2>6. \A d \in Caller : Active(d) => ~IsData(call[d].frame)
      BY <2>1, Claims DEF ClaimInv, IsData
    <2>7. ASSUME NEW d \in Caller, Active(d)', IsData(call'[d].frame)
          PROVE  fcb' = call'[d].frame.fcb /\ call'[d].frame.fcb \notin lastFCB
      <3>1. d = c
        BY <2>1, <2>6, <2>7 DEF Active
      <3>2. fcb' = (~fcb) /\ call'[d].frame.fcb = (~fcb)
        BY <2>2, <2>7, <3>1
      <3> QED
        BY <2>5, <3>2
    <2>8. state' \in {"Idle", "TestPending"} => lastFCB \subseteq {fcb'}
      <3>1. CASE IsData(call'[c].frame)
        BY <2>1, <3>1, Claims DEF IsData
      <3>2. CASE ~IsData(call'[c].frame)
        BY <2>2, <2>5, <3>2
      <3> QED
        BY <3>1, <3>2
    <2>9. BitInv'
      BY <1>1, <2>7, <2>8 DEF BitInv
    <2> QED
      BY <1>1, <2>3, <2>4, <2>9
  <1> QED
    BY <1>2, <1>3

\* The outstation handles a frame that is answered: it is that of the call that waits.
LEMMA Handled ==
    ASSUME TypeOK, DueInv, PlacesInv, UNCHANGED <<call, responses>>,
           toOutstation # <<>>, toOutstation' = Tail(toOutstation),
           Head(toOutstation).fn # "Unconfirmed",
           NEW fn \in {"Ack", "LinkStatus"}, toMaster' = Append(toMaster, fn)
    PROVE  \E c \in Caller :
             /\ Past(c) /\ call[c].frame = Head(toOutstation)
             /\ Answered(c)' => DueInv'
  <1> DEFINE w == toOutstation
             v == toOutstation'
             h == Head(toOutstation)
  <1>1. \A T :
          /\ h \in PrimaryFrame
          /\ Has(w, T) <=> Has(v, T) \/ h \in T
          /\ OnceIn(w, T) => OnceIn(v, T) /\ (h \in T => ~Has(v, T))
    BY TailHas DEF TypeOK
  <1>2. h \in Asking
    BY <1>1 DEF Asking
  <1>3. fn \in SecondaryFn /\ toMaster \in Seq(SecondaryFn)
    BY DEF TypeOK, SecondaryFn
  <1>4. \A T :
          /\ Has(toMaster', T) <=> Has(toMaster, T) \/ fn \in T
          /\ OnceIn(toMaster, T) /\ ~(Has(toMaster, T) /\ fn \in T) => OnceIn(toMaster', T)
    BY <1>3, AppendHas
  <1> HIDE DEF h
  <1>5. Has(w, Asking)
    BY <1>1, <1>2
  <1>6. PICK c \in Caller : Awaits(c)
    BY <1>5 DEF DueInv, NothingDue
  <1>7. /\ call[c].place = "waiting" /\ OnceIn(w, Asking) /\ ~Has(w, Asking \ {call[c].frame})
        /\ ~Has(toMaster, Answering) /\ responses = <<>>
    BY <1>5, <1>6 DEF Awaits
  <1>8. h = call[c].frame
    BY <1>1, <1>2, <1>7
  <1>9. ~Has(v, Asking)
    BY <1>1, <1>2, <1>7
  <1>10. OnceIn(toMaster', Answering)
    <2>1. OnceIn(toMaster, Answering)
      BY <1>7 DEF Has, OnceIn
    <2> QED
      BY <1>4, <1>7, <2>1
  <1>11. ~Has(toMaster', {"Nack"})
    <2>1. ~Has(toMaster, {"Nack"})
      BY <1>7 DEF Has, Answering, SecondaryFn
    <2> QED
      BY <1>4, <2>1
  <1>12. Answered(c)' => Awaits(c)'
    BY <1>7, <1>9, <1>10, <1>11 DEF Awaits
  <1> QED
    BY <1>7, <1>8, <1>12 DEF Past, DueInv, h

\* A frame is lost, or is one that is not answered.
LEMMA FrameGone ==
    ASSUME TypeOK, DueInv, UNCHANGED <<call, responses, toMaster, lastFCB, delivered>>,
           toOutstation # <<>>, toOutstation' = Tail(toOutstation)
    PROVE  DueInv'
  <1>1. \A T :
          /\ Has(toOutstation, T) <=> Has(toOutstation', T) \/ Head(toOutstation) \in T
          /\ OnceIn(toOutstation, T) =>
                OnceIn(toOutstation', T) /\ (Head(toOutstation) \in T => ~Has(toOutstation', T))
    BY TailHas DEF TypeOK
  <1> QED
    BY <1>1, DueKept

LEMMA CleanOther ==
    ASSUME TypeOK, ClaimInv, Clean, Clean', DueInv, PlacesInv, BitInv,
           succeeded \subseteq Delivered,
           Stop \/ OutstationHandles \/ SendUnsolicitedData \/ MasterReceives
                \/ LoseRequest \/ LoseResponse
    PROVE  DueInv' /\ PlacesInv' /\ BitInv' /\ succeeded' \subseteq Delivered'
  <1> USE DEF ElseUnchanged, sharedVars, ghostVars, outVars
  <1>1. UNCHANGED <<state, fcb, call, succeeded>>
    BY DEF Stop, OutstationHandles, HandleResetLink, HandleOther, HandleDuplicate,
           HandleConfirmedUserData, CallbackFails, HandleUnconfirmedUserData,
           SendUnsolicitedData, MasterReceives, LoseRequest, LoseResponse
  <1>2. PlacesInv'
    BY <1>1 DEF PlacesInv, Past
  <1>3. ~stopped' /\ budget.failures = MaxFailures /\ budget'.failures = MaxFailures
        /\ MaxFailures \in Nat
    BY ClassicLinkAssumption DEF Clean
  <1>4. ~Spend("failures")
    BY <1>3 DEF Spend, TypeOK
  \* The outstation's bit and what it has handed over stay.
  <1>5. ASSUME UNCHANGED <<lastFCB, delivered>>
        PROVE  BitInv' /\ succeeded' \subseteq Delivered'
    BY <1>1, <1>5 DEF BitInv, Active, IsData, Delivered
  <1>6. CASE Stop
    BY <1>3, <1>6 DEF Stop
  <1>7. CASE HandleResetLink
    <2>1. /\ toOutstation # <<>> /\ toOutstation' = Tail(toOutstation)
          /\ Head(toOutstation).fn = "Reset" /\ toMaster' = Append(toMaster, "Ack")
          /\ UNCHANGED <<responses, delivered>> /\ lastFCB' = {}
      BY <1>7 DEF HandleResetLink, Take, Answer
    <2>2. PICK c \in Caller : /\ Past(c) /\ call[c].frame = Head(toOutstation)
                              /\ Answered(c)' => DueInv'
      BY <1>1, <2>1, Handled
    <2>3. Answered(c)'
      BY <1>1, <2>1, <2>2 DEF Answered, IsData
    <2>4. BitInv' /\ succeeded' \subseteq Delivered'
      BY <1>1, <2>1 DEF BitInv, Active, IsData, Delivered
    <2> QED
      BY <1>2, <2>2, <2>3, <2>4
  <1>8. CASE HandleOther
    <2>1. /\ toOutstation # <<>> /\ toOutstation' = Tail(toOutstation)
          /\ Head(toOutstation).fn \in {"Process", "Test", "Status"}
          /\ toMaster' = Append(toMaster, "Ack") \/ toMaster' = Append(toMaster, "LinkStatus")
          /\ UNCHANGED <<responses, delivered, lastFCB>>
      BY <1>8 DEF HandleOther, Take, Answer
    <2>2. PICK c \in Caller : /\ Past(c) /\ call[c].frame = Head(toOutstation)
                              /\ Answered(c)' => DueInv'
      BY <1>1, <2>1, Handled
    <2>3. Answered(c)'
      BY <1>1, <2>1, <2>2 DEF Answered, IsData
    <2> QED
      BY <1>2, <1>5, <2>1, <2>2, <2>3
  <1>9. CASE HandleDuplicate
    <2>1. /\ toOutstation # <<>> /\ toOutstation' = Tail(toOutstation)
          /\ Head(toOutstation).fn = "Data" /\ Head(toOutstation).fcb \in lastFCB
          /\ toMaster' = Append(toMaster, "Ack")
          /\ UNCHANGED <<responses, delivered, lastFCB>>
      BY <1>9 DEF HandleDuplicate, Take, Answer, IsDuplicate
    <2>2. PICK c \in Caller : /\ Past(c) /\ call[c].frame = Head(toOutstation)
                              /\ Answered(c)' => DueInv'
      BY <1>1, <2>1, Handled
    <2>3. call[c].frame.n \in Delivered
      BY <2>1, <2>2 DEF BitInv, Active, Past, IsData
    <2>4. lastFCB \subseteq {call[c].frame.fcb}
      BY <2>1, <2>2 DEF BitInv
    <2>5. Answered(c)'
      BY <1>1, <2>1, <2>2, <2>3, <2>4 DEF Answered, IsData, Delivered
    <2> QED
      BY <1>2, <1>5, <2>1, <2>2, <2>5
  <1>10. CASE HandleConfirmedUserData
    <2>1. /\ toOutstation # <<>> /\ toOutstation' = Tail(toOutstation)
          /\ Head(toOutstation).fn = "Data" /\ toMaster' = Append(toMaster, "Ack")
          /\ UNCHANGED responses /\ lastFCB' = {Head(toOutstation).fcb}
          /\ delivered' = Append(delivered, Head(toOutstation).n)
      BY <1>10 DEF HandleConfirmedUserData, Take, Answer
    <2>2. PICK c \in Caller : /\ Past(c) /\ call[c].frame = Head(toOutstation)
                              /\ Answered(c)' => DueInv'
      BY <1>1, <2>1, Handled
    <2>3. Delivered \subseteq Delivered' /\ call[c].frame.n \in Delivered'
      <3>1. call[c].frame.n \in Nat /\ delivered \in Seq(Nat)
        BY <2>1, <2>2, TakeTypes DEF TypeOK
      <3>2. /\ DOMAIN delivered = 1..Len(delivered) /\ Len(delivered) \in Nat
            /\ DOMAIN delivered' = 1..Len(delivered') /\ Len(delivered') = Len(delivered) + 1
            /\ delivered'[Len(delivered')] = call[c].frame.n
            /\ \A i \in 1..Len(delivered) : delivered'[i] = delivered[i]
        BY <2>1, <2>2, <3>1, Appended
      <3> QED
        BY <3>2 DEF Delivered
    <2>4. lastFCB' = {call[c].frame.fcb} /\ IsData(call[c].frame)
      BY <2>1, <2>2 DEF IsData
    <2>5. Active(c)
      BY <2>2 DEF Active, Past
    <2>6. Answered(c)'
      BY <1>1, <2>3, <2>4 DEF Answered, IsData
    <2>7. \A d \in Caller : Active(d) /\ IsData(call[d].frame) => d = c
      BY <2>4, <2>5, Claims DEF ClaimInv, IsData
    <2>8. state = "WaitACK"
      BY <2>4, <2>5, Claims DEF ClaimInv, IsData
    <2>9. BitInv'
      <3>1. \A d \in Caller : Active(d)' /\ IsData(call'[d].frame) =>
                d = c /\ fcb' = call'[d].frame.fcb
        BY <1>1, <2>7 DEF BitInv, Active
      <3> QED
        BY <1>1, <2>3, <2>4, <2>5, <2>8, <3>1 DEF BitInv
    <2> QED
      BY <1>1, <1>2, <2>2, <2>3, <2>6, <2>9
  <1>11. CASE CallbackFails
    BY <1>4, <1>11 DEF CallbackFails
  <1>12. CASE HandleUnconfirmedUserData \/ LoseRequest
    <2>1. /\ toOutstation # <<>> /\ toOutstation' = Tail(toOutstation)
          /\ UNCHANGED <<call, responses, toMaster, lastFCB, delivered>>
      BY <1>12 DEF HandleUnconfirmedUserData, LoseRequest, Take
    <2> QED
      BY <1>2, <1>5, <2>1, FrameGone
  <1>13. CASE SendUnsolicitedData
    <2>1. /\ toMaster' = Append(toMaster, "Unsolicited")
          /\ UNCHANGED <<call, responses, toOutstation, lastFCB, delivered>>
      BY <1>13 DEF SendUnsolicitedData
    <2>2. \A T :
            /\ Has(toMaster', T) <=> Has(toMaster, T) \/ "Unsolicited" \in T
            /\ OnceIn(toMaster, T) /\ ~(Has(toMaster, T) /\ "Unsolicited" \in T) =>
                  OnceIn(toMaster', T)
      <3>1. toMaster \in Seq(SecondaryFn) /\ "Unsolicited" \in SecondaryFn
        BY DEF TypeOK, SecondaryFn
      <3> QED
        BY <2>1, <3>1, AppendHas
    <2>3. "Unsolicited" \notin Answering
      BY DEF Answering
    <2>4. DueInv'
      BY <2>1, <2>2, <2>3, DueKept
    <2> QED
      BY <1>2, <1>5, <2>1, <2>4
  <1>14. ASSUME toMaster # <<>>, toMaster' = Tail(toMaster)
         PROVE  \A T :
                  /\ Has(toMaster, T) <=> Has(toMaster', T) \/ Head(toMaster) \in T
                  /\ OnceIn(toMaster, T) =>
                        OnceIn(toMaster', T) /\ (Head(toMaster) \in T => ~Has(toMaster', T))
    BY <1>14, TailHas DEF TypeOK
  <1>15. CASE LoseResponse
    <2>1. /\ toMaster # <<>> /\ toMaster' = Tail(toMaster)
          /\ UNCHANGED <<call, responses, toOutstation, lastFCB, delivered>>
      BY <1>15 DEF LoseResponse
    <2>2. DueInv'
      BY <1>14, <2>1, DueKept
    <2> QED
      BY <1>2, <1>5, <2>1, <2>2
  <1>16. CASE MasterReceives
    <2> DEFINE h == Head(toMaster)
    <2>1. /\ toMaster # <<>> /\ toMaster' = Tail(toMaster)
          /\ responses' = responses \/ (h # "Unsolicited" /\ responses' = Append(responses, h))
          /\ UNCHANGED <<call, toOutstation, lastFCB, delivered>>
      BY <1>16 DEF MasterReceives
    <2>2. DueInv'
      <3>1. CASE responses' = responses
        BY <1>14, <2>1, <3>1, DueKept
      <3>2. CASE h # "Unsolicited" /\ responses' = Append(responses, h)
        <4>1. h \in SecondaryFn
          BY <2>1, Removed DEF TypeOK
        <4> HIDE DEF h
        <4>2. Has(toMaster, Answering)
          BY <1>14, <2>1, <3>2, <4>1 DEF Answering, h
        <4>3. PICK c \in Caller : Awaits(c)
          BY <4>2 DEF DueInv, NothingDue
        <4>4. /\ call[c].place = "waiting" /\ ~Has(toOutstation, Asking) /\ responses = <<>>
              /\ OnceIn(toMaster, Answering) /\ ~Has(toMaster, {"Nack"}) /\ Answered(c)
          BY <4>2, <4>3 DEF Awaits
        <4>5. ~Has(toMaster', Answering)
          BY <1>14, <2>1, <3>2, <4>1, <4>4 DEF Answering, h
        <4>6. h # "Nack"
          BY <1>14, <2>1, <4>4 DEF h
        <4>7. Tail(responses') = <<>> /\ Head(responses') = h
          BY <3>2, <4>4
        <4>8. Answered(c)'
          BY <2>1, <4>4 DEF Answered, Delivered, IsData
        <4>9. Awaits(c)'
          BY <2>1, <4>4, <4>5, <4>6, <4>7, <4>8 DEF Awaits
        <4> QED
          BY <4>9 DEF DueInv
      <3> QED
        BY <2>1, <3>1, <3>2
    <2> QED
      BY <1>2, <1>5, <2>1, <2>2
  <1> QED
    BY <1>6, <1>7, <1>8, <1>9, <1>10, <1>11, <1>12, <1>13, <1>15, <1>16 DEF OutstationHandles

\* What SuccessIsDelivery excludes is not undone.
LEMMA CleanBefore ==
    ASSUME TypeOK, [Next]_vars, Clean'
    PROVE  Clean
  <1>1. ASSUME \/ budget' = budget
               \/ \E what \in {"data", "unsolicited", "failures", "stops"} : Spend(what)
        PROVE  budget'.failures = MaxFailures => budget.failures = MaxFailures
    BY <1>1, ClassicLinkAssumption DEF TypeOK, Spend
  <1>2. ASSUME NEW c \in Caller, GoesOn(c)
        PROVE  UNCHANGED <<budget, stopped>> /\ (early => early') /\ (shared => shared')
    <2>1. CASE StartSending(c)
      BY <2>1 DEF StartSending
    <2>2. CASE Send(c)
      BY <2>2 DEF Send, ghostVars
    <2>3. CASE Timeout(c)
      BY <2>3 DEF Timeout
    <2>4. ASSUME NEW ok, Conclude(c, ok)
          PROVE  UNCHANGED <<budget, stopped>>
      BY <2>4 DEF Conclude
    <2>5. CASE SendNot(c)
      <3>1. Conclude(c, FALSE) /\ UNCHANGED <<early, shared>>
        BY <2>5 DEF SendNot
      <3> QED
        BY <2>4, <3>1
    <2>6. CASE WaitNot(c)
      <3>1. Conclude(c, FALSE) /\ UNCHANGED <<early, shared>>
        BY <2>6 DEF WaitNot
      <3> QED
        BY <2>4, <3>1
    <2>7. CASE Resend(c)
      <3>1. Conclude(c, TRUE) /\ UNCHANGED <<early, shared>>
        BY <2>7 DEF Resend
      <3> QED
        BY <2>4, <3>1
    <2>8. CASE TakeResponse(c)
      <3>1. /\ Conclude(c, TRUE) \/ UNCHANGED <<budget, stopped>>
            /\ UNCHANGED <<early, shared>>
        BY <2>8 DEF TakeResponse
      <3> QED
        BY <2>4, <3>1
    <2>9. CASE CountTimeout(c)
      <3>1. /\ Conclude(c, FALSE) \/ UNCHANGED <<budget, stopped>>
            /\ UNCHANGED <<early, shared>>
        BY <2>9 DEF CountTimeout
      <3> QED
        BY <2>4, <3>1
    <2>10. CASE CountRefusal(c)
      <3>1. /\ Conclude(c, FALSE) \/ UNCHANGED <<budget, stopped>>
            /\ UNCHANGED <<early, shared>>
        BY <2>10 DEF CountRefusal
      <3> QED
        BY <2>4, <3>1
    <2> QED
      BY <1>2, <2>1, <2>2, <2>3, <2>5, <2>6, <2>7, <2>8, <2>9, <2>10 DEF GoesOn
  <1>4. ASSUME NEW c \in Caller, Calling(c)
        PROVE  (Spend("data") \/ UNCHANGED budget) /\ UNCHANGED <<stopped, early, shared>>
    BY <1>4 DEF Calling, SendConfirmedUserData, SendUnconfirmedUserData, Claim, Share, Begins,
                MayCall, ghostVars
  <1>5. ASSUME Stop \/ OutstationHandles \/ SendUnsolicitedData \/ MasterReceives
                    \/ LoseRequest \/ LoseResponse
        PROVE  /\ (stopped => stopped') /\ UNCHANGED <<early, shared>>
               /\ \/ budget' = budget
                  \/ \E what \in {"data", "unsolicited", "failures", "stops"} : Spend(what)
    BY <1>5 DEF Stop, OutstationHandles, HandleResetLink, HandleOther, HandleDuplicate,
           HandleConfirmedUserData, CallbackFails, HandleUnconfirmedUserData,
           SendUnsolicitedData, MasterReceives, LoseRequest, LoseResponse,
           ElseUnchanged, ghostVars
  <1>6. CASE UNCHANGED vars
    BY <1>6 DEF vars, ghostVars, Clean
  <1>7. CASE Next
    <2>1. \/ budget' = budget
          \/ \E what \in {"data", "unsolicited", "failures", "stops"} : Spend(what)
      BY <1>2, <1>4, <1>5, <1>7 DEF Next
    <2>2. (stopped => stopped') /\ (early => early') /\ (shared => shared')
      BY <1>2, <1>4, <1>5, <1>7 DEF Next
    <2> QED
      BY <1>1, <2>1, <2>2 DEF Clean
  <1> QED
    BY <1>6, <1>7

LEMMA CleanStep ==
    ASSUME TypeOK, ClaimInv, CleanInv, [Next]_vars
    PROVE  CleanInv'
  <1> SUFFICES ASSUME Clean'
               PROVE  DueInv' /\ PlacesInv' /\ BitInv' /\ succeeded' \subseteq Delivered'
    BY DEF CleanInv
  <1>1. Clean /\ DueInv /\ PlacesInv /\ BitInv /\ succeeded \subseteq Delivered
    BY CleanBefore DEF CleanInv
  <1>2. ASSUME NEW c \in Caller, Calling(c) \/ GoesOn(c)
        PROVE  DueInv' /\ PlacesInv' /\ BitInv' /\ succeeded' \subseteq Delivered'
    BY <1>1, <1>2, CleanCall, CleanCalling
  <1>3. CASE UNCHANGED vars
    <2>1. UNCHANGED <<call, responses, toOutstation, toMaster, lastFCB, delivered, state, fcb,
                      succeeded>>
      BY <1>3 DEF vars, sharedVars, outVars, ghostVars
    <2>2. DueInv'
      BY <1>1, <2>1, DueKept
    <2> QED
      BY <1>1, <2>1, <2>2 DEF PlacesInv, BitInv, Past, Active, Delivered
  <1> QED
    BY <1>1, <1>2, <1>3, CleanOther DEF Next

\* Data whose call returned nil was handed over, as long as no two calls run at once, no
\* timeout passes with the answer on its way, no callback fails and nobody calls Stop: for
\* any number of callers, calls, retries and losses, and any unsolicited data in between.
THEOREM SuccessIsDelivered == Spec => []SuccessIsDelivery
  <1>1. TypeOK /\ ClaimInv /\ CleanInv /\ [Next]_vars => CleanInv'
    BY CleanStep
  <1>2. CleanInv => SuccessIsDelivery
    BY DEF CleanInv, Clean, SuccessIsDelivery
  <1> QED
    BY <1>1, <1>2, CleanInit, TypeCorrect, OneClaims, PTL DEF Spec

-----------------------------------------------------------------------------
(* The link implements LinkService for calls that do not run at once.      *)

\* Confirmed data goes one way.
Offered == [s \in {"Master", "Outstation"} |-> IF s = "Master" THEN issued ELSE 0]
HandedOver == [s \in {"Master", "Outstation"} |-> IF s = "Master" THEN <<>> ELSE delivered]

Service == INSTANCE LinkService WITH
    Master <- "Master", Outstation <- "Outstation",
    offered <- Offered, delivered <- HandedOver

\* What a step does to the numbers LinkService sees.
NumbersMove ==
    \/ UNCHANGED <<issued, delivered>>
    \/ issued' = issued + 1 /\ UNCHANGED delivered
    \/ UNCHANGED issued /\ \E n : delivered' = Append(delivered, n)

LEMMA CallMoves ==
    ASSUME NEW c \in Caller, Calling(c) \/ GoesOn(c)
    PROVE  NumbersMove
  <1> USE DEF sharedVars, outVars, ghostVars
  <1>1. CASE SendConfirmedUserData(c)
    BY <1>1 DEF SendConfirmedUserData, Begins, NumbersMove
  <1>2. CASE SendUnconfirmedUserData(c)
    BY <1>2 DEF SendUnconfirmedUserData, NumbersMove
  <1>3. ASSUME NEW op, Claim(c, op) \/ Share(c, op) PROVE NumbersMove
    BY <1>3 DEF Claim, Share, Begins, NumbersMove
  <1>4. ASSUME NEW ok, Conclude(c, ok) PROVE UNCHANGED <<issued, delivered>>
    BY <1>4 DEF Conclude
  <1>5. CASE StartSending(c) \/ Send(c) \/ Timeout(c)
    BY <1>5 DEF StartSending, Send, Timeout, NumbersMove
  <1>6. CASE SendNot(c) \/ WaitNot(c) \/ Resend(c)
    BY <1>4, <1>6 DEF SendNot, WaitNot, Resend, NumbersMove
  <1>7. CASE TakeResponse(c) \/ CountTimeout(c) \/ CountRefusal(c)
    BY <1>4, <1>7 DEF TakeResponse, CountTimeout, CountRefusal, NumbersMove
  <1> QED
    BY <1>1, <1>2, <1>3, <1>5, <1>6, <1>7 DEF Calling, GoesOn

LEMMA OtherMoves ==
    ASSUME Stop \/ OutstationHandles \/ SendUnsolicitedData \/ MasterReceives \/ LoseRequest \/ LoseResponse
    PROVE  NumbersMove
  BY DEF Stop, OutstationHandles, HandleResetLink, HandleOther, HandleDuplicate,
         HandleConfirmedUserData, CallbackFails, HandleUnconfirmedUserData, SendUnsolicitedData,
         MasterReceives, LoseRequest, LoseResponse, ElseUnchanged, outVars, ghostVars, NumbersMove

\* Confirmed data has a number.
Positive ==
    /\ \A i \in DOMAIN toOutstation : IsData(toOutstation[i]) => toOutstation[i].n # 0
    /\ \A k \in DOMAIN delivered : delivered[k] # 0
    /\ \A c \in Caller : Active(c) /\ IsData(call[c].frame) => call[c].frame.n # 0

\* What a step does to the frames on their way to the outstation.
LEMMA RequestsMove ==
    ASSUME Stop \/ OutstationHandles \/ SendUnsolicitedData \/ MasterReceives \/ LoseRequest \/ LoseResponse
    PROVE  \/ UNCHANGED <<toOutstation, delivered>>
           \/ /\ toOutstation # <<>> /\ toOutstation' = Tail(toOutstation)
              /\ \/ delivered' = delivered
                 \/ /\ IsData(Head(toOutstation))
                    /\ delivered' = Append(delivered, Head(toOutstation).n)
  BY DEF Stop, OutstationHandles, HandleResetLink, HandleOther, HandleDuplicate, Take,
         HandleConfirmedUserData, CallbackFails, HandleUnconfirmedUserData, SendUnsolicitedData,
         MasterReceives, LoseRequest, LoseResponse, ElseUnchanged, outVars, ghostVars, IsData

LEMMA PositiveCalls ==
    ASSUME TypeOK, Positive, OwnFrame, NEW c \in Caller, Calling(c) \/ GoesOn(c)
    PROVE  Positive'
  <1>1. /\ delivered' = delivered
        /\ \A d \in Caller : Active(d)' /\ IsData(call'[d].frame) => call'[d].frame.n # 0
    <2>1. CASE GoesOn(c)
      <3>1. CallsGoOn /\ UNCHANGED delivered
        BY <2>1, CallSteps
      <3> QED
        BY <3>1 DEF CallsGoOn, Active, Positive
    <2>2. CASE Calling(c)
      <3>1. CASE SendUnconfirmedUserData(c)
        BY <3>1 DEF SendUnconfirmedUserData, sharedVars, outVars, ghostVars, Active, Positive
      <3>2. CASE ~SendUnconfirmedUserData(c)
        <4>1. /\ \/ ~IsData(call'[c].frame)
                 \/ IsData(call'[c].frame) /\ call'[c].frame.n = issued + 1
              /\ \A d \in Caller : d # c => call'[d] = call[d]
              /\ delivered' = delivered
          BY <2>2, <3>2, CallBegins
        <4>2. issued \in Nat
          BY DEF TypeOK
        <4>3. issued + 1 # 0
          BY <4>2
        <4> QED
          BY <4>1, <4>3 DEF Active, Positive
      <3> QED
        BY <3>1, <3>2
    <2> QED
      BY <2>1, <2>2
  <1>2. \/ toOutstation' = toOutstation
        \/ \E f \in PrimaryFrame :
              toOutstation' = Append(toOutstation, f) /\ (IsData(f) => f.n # 0)
    <2>1. CASE GoesOn(c)
      <3>1. \/ toOutstation' = toOutstation
            \/ \E f \in {call[c].frame, call[c].copy} :
                  /\ f \in PrimaryFrame /\ toOutstation' = Append(toOutstation, f)
                  /\ call[c].place # "resending" => f = call[c].frame
        BY <2>1, Sends
      <3>2. call[c].place # "idle"
        BY <2>1, CallSteps
      <3>3. call[c].place = "resending" => call[c].copy = call[c].frame
        BY DEF OwnFrame
      <3>4. IsData(call[c].frame) => call[c].frame.n # 0
        BY <3>2 DEF Positive, Active
      <3> QED
        BY <3>1, <3>3, <3>4
    <2>2. CASE Calling(c)
      <3>1. CASE SendUnconfirmedUserData(c)
        <4>1. toOutstation' = Append(toOutstation, Primary("Unconfirmed", FALSE, 0))
          BY <3>1 DEF SendUnconfirmedUserData, Transmit
        <4>2. Primary("Unconfirmed", FALSE, 0) \in PrimaryFrame
          BY Frames
        <4>3. ~IsData(Primary("Unconfirmed", FALSE, 0))
          BY DEF IsData, Primary
        <4> QED
          BY <4>1, <4>2, <4>3
      <3>2. CASE ~SendUnconfirmedUserData(c)
        BY <2>2, <3>2, CallBegins
      <3> QED
        BY <3>1, <3>2
    <2> QED
      BY <2>1, <2>2
  <1>3. \A i \in DOMAIN toOutstation' : IsData(toOutstation'[i]) => toOutstation'[i].n # 0
    <2>1. CASE toOutstation' = toOutstation
      BY <2>1 DEF Positive
    <2>2. ASSUME NEW f \in PrimaryFrame, toOutstation' = Append(toOutstation, f), IsData(f) => f.n # 0
          PROVE  \A i \in DOMAIN toOutstation' : IsData(toOutstation'[i]) => toOutstation'[i].n # 0
      <3>1. toOutstation' = Append(toOutstation, f) /\ (IsData(f) => f.n # 0)
        BY <2>2
      <3>2. toOutstation \in Seq(PrimaryFrame)
        BY DEF TypeOK
      <3>3. PICK t : t = toOutstation'
        OBVIOUS
      <3>4. \A i \in DOMAIN t : t[i] = f \/ (i \in DOMAIN toOutstation /\ t[i] = toOutstation[i])
        BY <3>1, <3>2, <3>3, Appended
      <3> QED
        BY <3>1, <3>3, <3>4 DEF Positive
    <2> QED
      BY <1>2, <2>1, <2>2
  <1> QED
    BY <1>1, <1>3 DEF Positive

LEMMA PositiveStep ==
    ASSUME TypeOK, Positive, OwnFrame, [Next]_vars
    PROVE  Positive'
  <1>1. CASE UNCHANGED vars
    BY <1>1 DEF vars, outVars, Positive, Active
  <1>2. CASE Stop \/ OutstationHandles \/ SendUnsolicitedData \/ MasterReceives \/ LoseRequest
             \/ LoseResponse
    <2>1. UNCHANGED call
      BY <1>2, AsideSteps DEF Aside
    <2>2. CASE UNCHANGED <<toOutstation, delivered>>
      BY <2>1, <2>2 DEF Positive, Active
    <2>3. CASE ~UNCHANGED <<toOutstation, delivered>>
      <3>1. /\ toOutstation # <<>> /\ toOutstation' = Tail(toOutstation)
            /\ \/ delivered' = delivered
               \/ /\ IsData(Head(toOutstation))
                  /\ delivered' = Append(delivered, Head(toOutstation).n)
        BY <1>2, <2>3, RequestsMove
      <3>2. toOutstation \in Seq(PrimaryFrame) /\ delivered \in Seq(Nat)
        BY DEF TypeOK
      <3>3. PICK w \in Seq(PrimaryFrame) : w = toOutstation
        BY <3>2
      <3>4. PICK v : /\ v = toOutstation' /\ 1 \in DOMAIN w /\ Head(w) = w[1]
                     /\ \A i \in DOMAIN v : i + 1 \in DOMAIN w /\ v[i] = w[i + 1]
        BY <3>1, <3>3
      <3>5. /\ IsData(w[1]) => w[1].n # 0
            /\ \A i \in DOMAIN v : IsData(v[i]) => v[i].n # 0
        BY <3>3, <3>4 DEF Positive
      <3>6. \A k \in DOMAIN delivered' : delivered'[k] # 0
        <4>1. CASE delivered' = delivered
          BY <4>1 DEF Positive
        <4>2. CASE IsData(w[1]) /\ delivered' = Append(delivered, w[1].n)
          <5>1. PICK n : n = w[1].n /\ n # 0
            BY <3>5, <4>2
          <5>2. n \in Nat
            <6>1. w[1] \in PrimaryFrame
              BY <3>3, <3>4
            <6> QED
              BY <5>1, <6>1 DEF PrimaryFrame
          <5>3. PICK e : e = delivered'
            OBVIOUS
          <5>4. \A k \in DOMAIN e : e[k] = n \/ (k \in DOMAIN delivered /\ e[k] = delivered[k])
            BY <3>2, <4>2, <5>1, <5>2, <5>3, Appended
          <5> QED
            BY <5>1, <5>3, <5>4 DEF Positive
        <4> QED
          BY <3>1, <3>3, <3>4, <4>1, <4>2
      <3> QED
        BY <2>1, <3>4, <3>5, <3>6 DEF Positive, Active
    <2> QED
      BY <2>2, <2>3
  <1> QED
    BY <1>1, <1>2, PositiveCalls DEF Next

LEMMA ServiceStep ==
    ASSUME TypeOK, TypeOK', LoneInv', Positive', ~shared', [Next]_vars
    PROVE  [Service!Next]_<<Offered, HandedOver>>
  <1> USE DEF Offered, HandedOver
  <1>1. NumbersMove
    <2>1. CASE UNCHANGED vars
      BY <2>1 DEF vars, outVars, ghostVars, NumbersMove
    <2> QED
      BY <2>1, CallMoves, OtherMoves DEF Next
  <1>2. CASE UNCHANGED <<issued, delivered>>
    BY <1>2
  <1>3. CASE issued' = issued + 1 /\ UNCHANGED delivered
    <2>1. Service!Offer("Master")
      BY <1>3 DEF Service!Offer
    <2> QED
      BY <2>1 DEF Service!Next, Service!Station
  <1>4. CASE UNCHANGED issued /\ \E n : delivered' = Append(delivered, n)
    <2>1. PICK n : delivered' = Append(delivered, n)
      BY <1>4
    <2>2. /\ delivered \in Seq(Nat) /\ delivered' \in Seq(Nat) /\ issued \in Nat
      BY DEF TypeOK
    <2>3. PICK e \in Seq(Nat) :
             /\ e = delivered' /\ Len(delivered) \in Nat /\ Len(e) = Len(delivered) + 1
             /\ e[Len(delivered) + 1] = n /\ \A i \in 1..Len(delivered) : e[i] = delivered[i]
      BY <2>1, <2>2
    <2>4. DOMAIN e = 1..Len(e) /\ n \in Nat
      BY <2>3
    <2>5. n <= issued /\ \A i \in 1..Len(delivered) : delivered[i] < n
      <3>1. Len(delivered) + 1 \in DOMAIN e /\ \A i \in 1..Len(delivered) : i \in DOMAIN e /\ i < Len(delivered) + 1
        BY <2>3, <2>4
      <3>2. /\ \A k \in DOMAIN e : e[k] <= issued
            /\ \A i, j \in DOMAIN e : i < j => e[i] < e[j]
        BY <1>4, <2>3 DEF LoneInv, NumbersInv, Increasing
      <3> QED
        BY <2>3, <3>1, <3>2
    <2>6. n \in (Service!LastOf(delivered) + 1)..issued
      <3>1. CASE delivered = <<>>
        <4>1. Len(delivered) + 1 \in DOMAIN e
          BY <2>3, <2>4
        <4>2. n # 0
          BY <2>3, <4>1 DEF Positive
        <4> QED
          BY <2>2, <2>4, <2>5, <3>1, <4>2 DEF Service!LastOf
      <3>2. CASE delivered # <<>>
        <4>1. Len(delivered) \in 1..Len(delivered) /\ delivered[Len(delivered)] \in Nat
          BY <2>2, <3>2
        <4>2. PICK x \in Nat : x = delivered[Len(delivered)] /\ x < n /\ x = Service!LastOf(delivered)
          BY <2>5, <3>2, <4>1 DEF Service!LastOf
        <4>3. n \in (x + 1)..issued
          BY <2>2, <2>4, <2>5, <4>2
        <4> QED
          BY <4>2, <4>3
      <3> QED
        BY <3>1, <3>2
    <2>7. Service!Deliver("Outstation")
      BY <1>4, <2>1, <2>6 DEF Service!Deliver, Service!Peer
    <2> QED
      BY <2>7 DEF Service!Next, Service!Station
  <1> QED
    BY <1>1, <1>2, <1>3, <1>4 DEF NumbersMove

\* What the two ends promise of confirmed data.
DeliveryService == Service!Spec

\* As long as no two calls run at once, the two ends keep the promise of LinkService for
\* confirmed data (SendConfirmedUserData, FCBValidator, handleConfirmedUserData): what the
\* data callback is given was sent, in order and at most once, whatever was lost, refused,
\* repeated or reset.
THEOREM ImplementsService == Spec /\ []~shared => DeliveryService
  <1>1. Init => Service!Init /\ Positive
    <2> SUFFICES ASSUME Init PROVE Service!Init /\ Positive
      OBVIOUS
    <2>1. issued = 0 /\ delivered = <<>> /\ toOutstation = <<>>
          /\ \A c \in Caller : call[c].place = "idle"
      BY DEF Init, NotCalling
    <2>2. DOMAIN <<>> = {}
      OBVIOUS
    <2>3. Positive
      BY <2>1, <2>2 DEF Positive, Active
    <2>4. Service!Init
      BY <2>1 DEF Service!Init, Service!Station, Offered, HandedOver
    <2> QED
      BY <2>3, <2>4
  <1>2. TypeOK /\ ClaimInv /\ LoneInv /\ [Next]_vars => ClaimInv' /\ LoneInv'
    BY ClaimStep, LoneStep
  <1>3. TypeOK /\ LoneInv /\ Positive /\ ~shared /\ [Next]_vars => Positive'
    BY PositiveStep DEF LoneInv
  <1>4. TypeOK /\ TypeOK' /\ LoneInv' /\ Positive' /\ (~shared)' /\ [Next]_vars
           => [Service!Next]_<<Offered, HandedOver>>
    BY ServiceStep
  <1> QED
    BY <1>1, <1>2, <1>3, <1>4, LinkInit, TypeCorrect, PTL DEF Spec, DeliveryService, Service!Spec

\* With one goroutine that is always so.
THEOREM OneCallerIsServed ==
    ASSUME NEW c, Caller = {c}
    PROVE  Spec => DeliveryService
  <1>1. Init => ~shared
    BY DEF Init
  <1>2. ~shared /\ [Next]_vars => ~shared'
    <2> SUFFICES ASSUME ~shared, [Next]_vars, shared' PROVE FALSE
      OBVIOUS
    <2>1. \A d \in Caller : Caller \ {d} = {}
      OBVIOUS
    <2>2. ASSUME NEW d \in Caller, Calling(d) \/ GoesOn(d) PROVE ~shared'
      <3> USE DEF sharedVars, outVars, ghostVars
      <3>1. CASE StartSending(d)
        BY <2>1, <3>1 DEF StartSending
      <3>2. CASE Calling(d)
        BY <3>2 DEF Calling, SendConfirmedUserData, Claim, Share, SendUnconfirmedUserData, Begins
      <3>3. CASE \/ Send(d) \/ SendNot(d) \/ WaitNot(d) \/ TakeResponse(d) \/ Timeout(d)
                 \/ CountTimeout(d) \/ CountRefusal(d) \/ Resend(d)
        BY <3>3 DEF Send, SendNot, WaitNot, TakeResponse, Timeout, CountTimeout, CountRefusal, Resend
      <3> QED
        BY <2>2, <3>1, <3>2, <3>3 DEF GoesOn
    <2>3. UNCHANGED vars => ~shared'
      BY DEF vars, ghostVars
    <2> QED
      BY <2>2, <2>3, AsideSteps DEF Next, Aside
  <1>3. Spec => []~shared
    BY <1>1, <1>2, PTL DEF Spec
  <1> QED
    BY <1>3, ImplementsService, PTL
=============================================================================
