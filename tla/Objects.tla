-------------------------------- MODULE Objects --------------------------------
(***************************************************************************)
(* The objects of application fragments (pkg/app): the headers and points  *)
(* a station builds into octets, and what a parser makes of octets.  There *)
(* is no state here; Poll uses both directions.                            *)
(*                                                                         *)
(* Numbers of 32 bits are read as two's complement, which TLC can hold.    *)
(* Floating point numbers are those of FloatValues, in their IEEE octets.  *)
(***************************************************************************)
EXTENDS Integers, Sequences, SequencesExt

CONSTANTS
    RangeBase       \* values of one octet of a range field; 256 in the code

ASSUME ObjectsAssumption == RangeBase \in Nat \ {0, 1}

Kinds == {"binary", "analog", "counter", "binaryOutput", "analogOutput"}

\* Group numbers and the variation that asks for any.
Group == [binary |-> 1, counter |-> 20, analog |-> 30]
GroupClass0Data == 60
GroupClass1Data == 61
GroupClass2Data == 62
GroupClass3Data == 63
VariationAny == 0

Qualifier8BitStartStop == 0
Qualifier16BitStartStop == 1
Qualifier32BitStartStop == 2
QualifierNoRange == 6
Qualifier8BitCount == 7
Qualifier16BitCount == 8
Qualifier32BitCount == 9

StartStopQualifiers == {0, 1, 2}
CountQualifiers == {7, 8, 9}

\* Octets of one number of the range field, and how many numbers it has.
RangeWidth(q) ==
    CASE q \in {0, 7} -> 1
      [] q \in {1, 8} -> 2
      [] q \in {2, 9} -> 4
      [] OTHER -> 0
RangeNumbers(q) == IF q \in StartStopQualifiers THEN 2 ELSE IF q \in CountQualifiers THEN 1 ELSE 0

\* The low w digits of n, the lowest first: what a conversion to w octets keeps.
LittleEndian(n, w, base) == [i \in 1..w |-> (n \div base^(i - 1)) % base]

Unsigned(o, base) == FoldFunction(+, 0, [i \in DOMAIN o |-> o[i] * base^(i - 1)])

Signed(o) ==
    LET top == Len(o)
    IN Unsigned(Front(o), 256)
         + (IF o[top] >= 128 THEN o[top] - 256 ELSE o[top]) * 256^(top - 1)

-----------------------------------------------------------------------------
(* Building.                                                               *)

\* ObjectBuilder.AddHeader; range is <<start, stop>>, <<count>> or <<>>.
AddHeader(group, variation, qualifier, range) ==
    <<group, variation, qualifier>>
      \o FlattenSeq([i \in DOMAIN range |->
                        LittleEndian(range[i], RangeWidth(qualifier), RangeBase)])

\* A ClassField is the set of its classes.  A field of several classes is none
\* of the four that BuildClassRead knows, and is passed over.
BuildClassRead(classes) ==
    FlattenSeq([i \in DOMAIN classes |->
        IF \E c \in 0..3 : classes[i] = {c}
        THEN AddHeader(GroupClass0Data, 1 + (CHOOSE c \in 0..3 : classes[i] = {c}),
                       QualifierNoRange, <<>>)
        ELSE <<>>])

BuildIntegrityPoll == BuildClassRead(<<{0}>>)
BuildEventPoll == BuildClassRead(<<{1}, {2}, {3}>>)

BuildRangeRead(group, variation, start, stop) ==
    LET fits(w) == start < RangeBase^w /\ stop < RangeBase^w
        qualifier == IF fits(1) THEN Qualifier8BitStartStop
                     ELSE IF fits(2) THEN Qualifier16BitStartStop
                     ELSE Qualifier32BitStartStop
    IN AddHeader(group, variation, qualifier, <<start, stop>>)

\* The APDUs of this side of the protocol: one fragment, no confirmation asked for.
FuncRead == 1
FuncResponse == 129
IsResponse(function) == function \in {129, 130, 131}

NewRequestAPDU(function, seq, objects) ==
    [function |-> function, seq |-> seq % 16, iin |-> <<>>, objects |-> objects]

NewResponseAPDU(seq, iin, objects) ==
    [function |-> FuncResponse, seq |-> seq % 16, iin |-> iin, objects |-> objects]

\* buildControl with FIR and FIN.
Control(seq) == 128 + 64 + seq

Serialize(a) == <<Control(a.seq), a.function>> \o a.iin \o a.objects

Parse(data) ==
    LET header == IF Len(data) >= 2 /\ IsResponse(data[2]) THEN 4 ELSE 2
    IN IF Len(data) < header
       THEN [ok |-> FALSE]
       ELSE [ok |-> TRUE, seq |-> data[1] % 16, function |-> data[2],
             objects |-> SubSeq(data, header + 1, Len(data))]

-----------------------------------------------------------------------------
(* Points in octets.                                                       *)

FloatValues == {0, 1, -2}
Float32bits == (0 :> <<0, 0, 0, 0>>) @@ (1 :> <<0, 0, 128, 63>>) @@ (-2 :> <<0, 0, 0, 192>>)
Float64bits ==
    (0 :> <<0, 0, 0, 0, 0, 0, 0, 0>>) @@ (1 :> <<0, 0, 0, 0, 0, 0, 240, 63>>)
      @@ (-2 :> <<0, 0, 0, 0, 0, 0, 0, 192>>)
OtherFloat == 99999     \* any number that is not one of FloatValues

Frombits(bits, o) ==
    IF \E v \in FloatValues : bits[v] = o THEN CHOOSE v \in FloatValues : bits[v] = o
                                          ELSE OtherFloat

\* The analog input serializers, and the one a variation gets.
Serialize32Bit(p) == <<p.flags>> \o LittleEndian(p.value, 4, 256)
Serialize16Bit(p) == <<p.flags>> \o LittleEndian(p.value, 2, 256)
SerializeFloat(p) == <<p.flags>> \o Float32bits[p.value]
SerializeDouble(p) == <<p.flags>> \o Float64bits[p.value]

SerializeAnalog(p, variation) ==
    CASE variation = 1 -> Serialize32Bit(p)
      [] variation = 2 -> Serialize16Bit(p)
      [] variation = 6 -> SerializeDouble(p)
      [] OTHER -> SerializeFloat(p)

SerializeCounter(p, variation) ==
    IF variation \in {2, 6} THEN Serialize16Bit(p) ELSE Serialize32Bit(p)

\* BinaryInput.Serialize: the state of the point is the bit it has in its flags,
\* the value is not looked at.
SerializeBinary(p) == <<p.flags>>

SerializePoint(kind, p, variation) ==
    CASE kind = "binary" -> SerializeBinary(p)
      [] kind = "analog" -> SerializeAnalog(p, variation)
      [] kind = "counter" -> SerializeCounter(p, variation)

\* The values behind the flags.  The parser is chosen by the variation alone, for
\* events as for static points.
ParseBinary(o) == IF o[1] >= 128 THEN 1 ELSE 0

ParseAnalog(o, variation) ==
    CASE variation = 2 -> Signed(SubSeq(o, 2, 3))
      [] variation = 5 -> Frombits(Float32bits, SubSeq(o, 2, 5))
      [] variation = 6 -> Frombits(Float64bits, SubSeq(o, 2, 9))
      [] OTHER -> Signed(SubSeq(o, 2, 5))

ParseCounter(o, variation) ==
    IF variation \in {2, 6} THEN Unsigned(SubSeq(o, 2, 3), 256) ELSE Signed(SubSeq(o, 2, 5))

ParseAnalogOutput(o, variation) ==
    CASE variation = 1 -> Signed(SubSeq(o, 2, 5))
      [] variation = 2 -> Signed(SubSeq(o, 2, 3))
      [] variation = 3 -> Frombits(Float32bits, SubSeq(o, 2, 5))
      [] variation = 4 -> Frombits(Float64bits, SubSeq(o, 2, 9))

ParsePoint(kind, o, variation) ==
    [flags |-> o[1],
     value |-> CASE kind \in {"binary", "binaryOutput"} -> ParseBinary(o)
                 [] kind = "analog" -> ParseAnalog(o, variation)
                 [] kind = "counter" -> ParseCounter(o, variation)
                 [] kind = "analogOutput" -> ParseAnalogOutput(o, variation)]

\* GetObjectSize; 0 is unknown.
GetObjectSize(group, variation) ==
    LET table ==
          CASE group = 1 -> <<0, 1>>
            [] group = 2 -> <<1, 7, 3>>
            [] group = 12 -> <<11>>
            [] group = 20 -> <<5, 3, 0, 0, 5, 3>>
            [] group = 30 -> <<5, 3, 0, 0, 5, 9>>
            [] group = 32 -> <<5, 3, 11, 9>>
            [] group \in {40, 41} -> <<5, 3, 5, 9>>
            [] group = 50 -> <<6>>
            [] OTHER -> <<>>
    IN IF variation \in DOMAIN table THEN table[variation] ELSE 0

-----------------------------------------------------------------------------
(* Parsing.                                                                *)

\* GetCount, with an empty range for a stop before the start.
GetCount(h) ==
    IF h.qualifier \in StartStopQualifiers
    THEN IF h.range[2] >= h.range[1] THEN h.range[2] - h.range[1] + 1 ELSE 0
    ELSE IF h.qualifier \in CountQualifiers THEN h.range[1] ELSE 0

SupportedQualifiers == StartStopQualifiers \cup CountQualifiers \cup {QualifierNoRange}

\* Parser.ReadObjectHeader and its readers of ranges: an error, or the header
\* and the octets behind it.
ReadObjectHeader(data) ==
    LET w == RangeWidth(data[3])
        n == RangeNumbers(data[3])
    IN IF Len(data) < 3 \/ data[3] \notin SupportedQualifiers \/ Len(data) < 3 + n * w
       THEN [ok |-> FALSE]
       ELSE [ok |-> TRUE, group |-> data[1], variation |-> data[2], qualifier |-> data[3],
             range |-> [i \in 1..n |->
                            Unsigned(SubSeq(data, 4 + (i - 1) * w, 3 + i * w), RangeBase)],
             rest |-> SubSeq(data, 4 + n * w, Len(data))]

ValidGroups ==
    {1, 2, 3, 4, 10, 11, 12, 20, 21, 22, 23, 30, 31, 32, 33, 40, 41, 42, 43, 50, 51, 52,
     60, 61, 62, 63, 70, 80, 110, 111, 112, 113, 120}

IsValidVariation(group, variation) ==
    \/ variation = VariationAny
    \/ CASE group \in {1, 3, 10} -> variation <= 2
         [] group \in {2, 50} -> variation <= 3
         [] group = 12 -> variation = 1
         [] group \in {20, 22} -> variation \in {1, 2, 5, 6, 7, 8}
         [] group = 30 -> variation <= 6
         [] group = 32 -> variation <= 8
         [] group \in {40, 41, 60} -> variation <= 4
         [] OTHER -> TRUE

\* ValidateObjectHeader with ValidateRange; the qualifiers that can be read are
\* all valid ones.
ValidateObjectHeader(h) ==
    /\ h.group \in ValidGroups
    /\ IsValidVariation(h.group, h.variation)
    /\ h.qualifier \in StartStopQualifiers => h.range[1] <= h.range[2]
    /\ h.qualifier \in CountQualifiers => h.range[1] # 0
=============================================================================
