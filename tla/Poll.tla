--------------------------------- MODULE Poll ---------------------------------
(***************************************************************************)
(* A master reads an outstation's database while it is being updated:      *)
(* the request a scan builds (pkg/master/operations.go), the response      *)
(* buildReadResponse puts together (ReadHandler), and what                 *)
(* processMeasurements makes of it (pkg/master/measurements.go).  Requests *)
(* and responses are octets, built and parsed by Objects.  What is between *)
(* the two stations is left to the modules below: here a request or        *)
(* response arrives.                                                       *)
(***************************************************************************)
EXTENDS Objects, ReadHandler

CONSTANTS
    StaticVariation,    \* kind -> staticVariation of its first point
    Scans,              \* bound: the object headers a master asks with, in octets
    MaxPolls            \* bound: polls in a behaviour

ASSUME PollAssumption ==
    /\ PointKinds \subseteq {"binary", "analog", "counter"}
    /\ DOMAIN StaticVariation = PointKinds
    /\ MaxPolls \in Nat

VARIABLES
    request,    \* the READ the outstation has not yet answered, in octets; or <<>>
    response,   \* the response on its way to the master, in octets; or <<>>
    scan,       \* the objects the master has asked for last
    reports,    \* what its callbacks have got in answer, in order
    polls       \* ghost: number of polls

pollVars == <<request, response, scan, reports, polls>>
vars == <<dbVars, readVars, pollVars>>

Init ==
    /\ DBInit /\ ReadInit
    /\ request = <<>> /\ response = <<>>
    /\ scan = <<>> /\ reports = <<>>
    /\ polls = 0

-----------------------------------------------------------------------------
(* The outstation.                                                         *)

\* The variation of a response: the one asked for, or that of the first point.
Variation(kind, asked) == IF asked # VariationAny THEN asked ELSE StaticVariation[kind]

\* buildBinaryInputResponse, buildAnalogInputResponse, buildCounterResponse, from the
\* points they read.
BuildResponse(part) ==
    LET variation == Variation(part.kind, part.asked)
    IN IF part.points = <<>> THEN <<>>
       ELSE AddHeader(Group[part.kind], variation, Qualifier8BitStartStop,
                      <<0, Len(part.points) - 1>>)
              \o FlattenSeq([i \in DOMAIN part.points |->
                     SerializePoint(part.kind, part.points[i], variation)])

\* The kinds that have points, in the order in which buildStaticData looks at them.
StaticKinds ==
    SelectSeq(<<"binary", "analog", "counter">>,
              LAMBDA kind : kind \in PointKinds /\ Points[kind] # <<>>)

\* Mutant: buildStaticData leaves the locking to what it calls.
BuildStaticDataUnlocked ==
    [i \in DOMAIN StaticKinds |-> Header(<<StaticKinds[i]>>, VariationAny, FALSE)]

\* buildStaticData: all of them under one read lock.
BuildStaticData == <<Header(StaticKinds, VariationAny, TRUE)>>

\* buildReadResponse's switch on the header.  buildEventData is empty.
Work(h) ==
    IF h.group = GroupClass0Data THEN BuildStaticData
    ELSE IF \E kind \in PointKinds : h.group = Group[kind]
    THEN <<Header(<<CHOOSE kind \in PointKinds : h.group = Group[kind]>>, h.variation, FALSE)>>
    ELSE <<>>

\* The headers of a request, up to the first that is unreadable.
RECURSIVE ReadRequest(_)
ReadRequest(objects) ==
    IF objects = <<>> THEN <<>>
    ELSE LET h == ReadObjectHeader(objects)
         IN IF h.ok THEN Work(h) \o ReadRequest(h.rest) ELSE <<>>

\* performIntegrityScan, performClassScan, performRangeScan.
Poll ==
    /\ request = <<>> /\ response = <<>>
    /\ polls < MaxPolls
    /\ \E objects \in Scans :
         /\ request' = Serialize(NewRequestAPDU(FuncRead, polls, objects))
         /\ scan' = objects
    /\ polls' = polls + 1
    /\ reports' = <<>>
    /\ BeginRead(ReadRequest(Parse(request').objects))
    /\ UNCHANGED <<dbVars, response>>

\* The outstation reads its database.
Read == ReadSteps /\ UNCHANGED pollVars

\* handleRead sends what was built.
Respond ==
    /\ request # <<>> /\ headers = <<>>
    /\ response' = Serialize(NewResponseAPDU(Parse(request).seq, <<0, 0>>,
                        FlattenSeq([i \in DOMAIN parts |-> BuildResponse(parts[i])])))
    /\ request' = <<>>
    /\ UNCHANGED <<dbVars, readVars, scan, reports, polls>>

-----------------------------------------------------------------------------
(* The master.                                                             *)

KindOf(group) ==
    CASE group \in {1, 2} -> "binary"
      [] group \in {30, 32} -> "analog"
      [] group \in {20, 22} -> "counter"
      [] group \in {10, 11} -> "binaryOutput"
      [] group \in {40, 42} -> "analogOutput"
      [] OTHER -> "none"

\* The size of one object, as the functions that process objects take it.
ObjectSize(h) ==
    IF KindOf(h.group) = "binaryOutput" /\ GetObjectSize(h.group, h.variation) = 0
    THEN 1 ELSE GetObjectSize(h.group, h.variation)

\* The objects of header h that are there, and the index of the first.
Present(h) ==
    LET whole == Len(h.rest) \div ObjectSize(h)
    IN IF GetCount(h) < whole THEN GetCount(h) ELSE whole

Start(h) == IF h.qualifier \in StartStopQualifiers THEN h.range[1] ELSE 0

\* processBinaryObjects, processAnalogObjects, processCounterObjects,
\* processBinaryOutputStatus, processAnalogOutputStatus.
ProcessObjects(h) ==
    LET kind == KindOf(h.group)
        size == ObjectSize(h)
    IN [i \in 1..Present(h) |->
          [kind |-> kind, index |-> (Start(h) + i - 1) % 65536]
            @@ ParsePoint(kind, SubSeq(h.rest, (i - 1) * size + 1, i * size), h.variation)]

\* The octets behind the objects of h.  Objects of unknown size are not passed
\* over, and what is left of a list cut short is read as headers.
Behind(h) ==
    IF ObjectSize(h) = 0 THEN h.rest
    ELSE IF KindOf(h.group) = "none"
    THEN IF GetCount(h) * ObjectSize(h) > Len(h.rest) THEN h.rest
         ELSE SubSeq(h.rest, GetCount(h) * ObjectSize(h) + 1, Len(h.rest))
    ELSE SubSeq(h.rest, Present(h) * ObjectSize(h) + 1, Len(h.rest))

\* processMeasurements: the values handed to the callbacks.
RECURSIVE ProcessMeasurements(_)
ProcessMeasurements(objects) ==
    IF objects = <<>> THEN <<>>
    ELSE LET h == ReadObjectHeader(objects)
         IN IF ~h.ok THEN <<>>
            ELSE IF ~ValidateObjectHeader(h) THEN ProcessMeasurements(h.rest)
            ELSE (IF KindOf(h.group) = "none" \/ ObjectSize(h) = 0 THEN <<>>
                  ELSE ProcessObjects(h))
                   \o ProcessMeasurements(Behind(h))

\* The response arrives.
OnResponse ==
    /\ response # <<>>
    /\ reports' = ProcessMeasurements(Parse(response).objects)
    /\ response' = <<>>
    /\ UNCHANGED <<dbVars, readVars, request, scan, polls>>

\* Other goroutines update points and clear events.
Updating == DatabaseStep /\ UNCHANGED pollVars

Next == Updating \/ Poll \/ Read \/ Respond \/ OnResponse

Spec == Init /\ [][Next]_vars

-----------------------------------------------------------------------------
(* Properties.                                                             *)

\* Value v of a point goes through the variation unchanged: it is wide enough,
\* and a binary point's state is in its flags.
Fits(kind, v, variation) ==
    /\ kind = "binary" => (v.value = 1) = (v.flags >= 128)
    /\ kind = "counter" /\ variation \in {2, 6} => v.value < 65536
    /\ kind = "analog" /\ variation = 2 => v.value \in -32768..32767

\* The points of a kind as the master should see them, in the database d.
Report(d, kind) ==
    [i \in DOMAIN d[kind] |->
        [kind |-> kind, index |-> i - 1, value |-> d[kind][i].value, flags |-> d[kind][i].flags]]

\* What reading the kinds in order reports in database d.
ReportAll(d, kinds) == FlattenSeq([i \in DOMAIN kinds |-> Report(d, kinds[i])])

\* Both sides know the size of the objects, the stop index has the octet it
\* needs, and the values fit.
Conveyed(kind, asked, d) ==
    /\ GetObjectSize(Group[kind], Variation(kind, asked)) # 0
    /\ Len(Points[kind]) <= RangeBase
    /\ \A i \in DOMAIN d[kind] : Fits(kind, d[kind][i], Variation(kind, asked))

Answered == polls > 0 /\ request = <<>> /\ response = <<>>

\* An integrity poll reports every point, in order and once, with the value it
\* had, and all the values are of one moment while the request was being answered;
\* a poll of one kind likewise.
PollReportsOneMoment ==
    Answered =>
        /\ (/\ scan = BuildIntegrityPoll
            /\ \A d \in seen, kind \in PointKinds : Conveyed(kind, VariationAny, d))
           => \E d \in seen : reports = ReportAll(d, StaticKinds)
        /\ \A kind \in PointKinds, asked \in 0..9 :
             (/\ \E stop \in 0..RangeBase : scan = BuildRangeRead(Group[kind], asked, 0, stop)
              /\ \A d \in seen : Conveyed(kind, asked, d))
             => \E d \in seen : reports = Report(d, kind)
=============================================================================
