------------------------- MODULE RequestInputProofs -------------------------
(***************************************************************************)
(* What the conversion promises, for every byte width, every request and   *)
(* every set of services: the gRPC frame is cut out within the bounds of   *)
(* the payload, truncation is reported exactly, only the first message of  *)
(* a stream counts, and what is parsed does not depend on the packing.     *)
(***************************************************************************)
EXTENDS RequestInput, TLAPS

\* One more digit in base B: the number stays below the next power.
LEMMA Digit ==
  ASSUME NEW B \in Nat \ {0, 1}, NEW m \in Nat \ {0},
         NEW x \in 0 .. m - 1, NEW y \in 0 .. B - 1
  PROVE  x * B + y \in 0 .. m * B - 1
<1>1. x * B \in Nat /\ m * B \in Nat
  OBVIOUS
<1>2. x * B <= (m - 1) * B
  OBVIOUS
<1>3. (m - 1) * B = m * B - B
  OBVIOUS
<1>4. QED
  BY <1>1, <1>2, <1>3

\* The four size bytes are a number below 2^32.
LEMMA SizeRange ==
  ASSUME NEW in \in Seq(Byte), Len(in) >= HeaderLen
  PROVE  Size(in) \in 0 .. SizeLimit - 1
<1> DEFINE B == ByteBase
<1>1. B \in Nat \ {0, 1}
  BY WidthAssumption
<1>2. /\ in[2] \in 0 .. B - 1 /\ in[3] \in 0 .. B - 1
      /\ in[4] \in 0 .. B - 1 /\ in[5] \in 0 .. B - 1
  <2>1. \A i \in 1 .. Len(in) : in[i] \in Byte
    OBVIOUS
  <2>2. 2 \in 1 .. Len(in) /\ 3 \in 1 .. Len(in) /\ 4 \in 1 .. Len(in) /\ 5 \in 1 .. Len(in)
    BY DEF HeaderLen
  <2>3. QED
    BY <2>1, <2>2 DEF Byte
<1>3. B * B \in Nat \ {0} /\ B * B * B \in Nat \ {0}
  BY <1>1
<1> HIDE DEF B
<1>4. in[2] * B + in[3] \in 0 .. B * B - 1
  BY <1>1, <1>2, Digit
<1>5. (in[2] * B + in[3]) * B + in[4] \in 0 .. B * B * B - 1
  BY <1>1, <1>2, <1>3, <1>4, Digit
<1>6. ((in[2] * B + in[3]) * B + in[4]) * B + in[5] \in 0 .. B * B * B * B - 1
  BY <1>1, <1>2, <1>3, <1>5, Digit
<1>7. QED
  BY <1>6 DEF Size, SizeLimit, B

\* A frame that is not short of bytes is cut out within bounds, and neither
\* the conversion to int nor the 32-bit addition changes its size.
LEMMA FrameFits ==
  ASSUME NEW in \in Seq(Byte), Len(in) >= HeaderLen, Len(in) < SizeLimit, ~IsShort(in)
  PROVE  /\ HeaderLen + Size(in) \in HeaderLen .. Len(in)
         /\ Frame(in) = Value(SubSeq(in, HeaderLen + 1, HeaderLen + Size(in)))
<1>1. Size(in) \in 0 .. SizeLimit - 1
  BY SizeRange
<1>2. SizeLimit \in Nat /\ IntLimit \in Nat /\ SizeLimit <= IntLimit
  BY WidthAssumption DEF SizeLimit
<1>3. ToInt(Size(in)) = Size(in)
  BY <1>1, <1>2 DEF ToInt
<1>4. Size(in) + HeaderLen <= Len(in)
  BY <1>1, <1>3 DEF IsShort, HeaderLen
<1>5. Size(in) + HeaderLen \in 0 .. SizeLimit - 1
  BY <1>1, <1>2, <1>4 DEF HeaderLen
<1>6. (Size(in) + HeaderLen) % SizeLimit = Size(in) + HeaderLen
  BY <1>2, <1>5
<1>7. QED
  BY <1>1, <1>4, <1>6 DEF Frame, Slice, HeaderLen

\* The outcomes of parsing are told apart by their kind.
LEMMA KindsDiffer ==
  /\ Error # OutOfBounds /\ Nothing # OutOfBounds /\ Truncated # OutOfBounds
  /\ Idle # OutOfBounds
  /\ \A v : Value(v) # OutOfBounds /\ Value(v).value = v
BY DEF Error, OutOfBounds, Nothing, Truncated, Idle, Value

\* getGRPCBody does not panic: after its three early returns the frame fits.
LEMMA GRPCBodyWithinBounds ==
  ASSUME NEW r \in Requests, NEW path
  PROVE  getGRPCBody(r.rawBody, path) # OutOfBounds
<1> DEFINE in == r.rawBody
<1>1. in \in Seq(Byte) /\ Len(in) < SizeLimit
  BY RequestAssumption
<1>2. CASE Len(in) < HeaderLen \/ in[1] # 0 \/ IsShort(in)
  BY <1>2, KindsDiffer DEF getGRPCBody
<1>3. CASE ~(Len(in) < HeaderLen \/ in[1] # 0 \/ IsShort(in))
  <2>1. Len(in) >= HeaderLen
    BY <1>1, <1>3 DEF HeaderLen
  <2>2. /\ HeaderLen + Size(in) \in HeaderLen .. Len(in)
        /\ Frame(in) = Value(SubSeq(in, HeaderLen + 1, HeaderLen + Size(in)))
    BY <1>1, <1>3, <2>1, FrameFits
  <2>3. /\ Frame(in) # OutOfBounds
        /\ Frame(in).value = SubSeq(in, HeaderLen + 1, HeaderLen + Size(in))
    BY <2>2, KindsDiffer, Zenon
  <2>4. Known(path) => UnmarshalProto(InputDesc(path), Frame(in).value) # OutOfBounds
    BY <2>2, <2>3, ParserAssumption DEF Known, InputDesc
  <2>5. QED
    BY <1>3, <2>3, <2>4, KindsDiffer DEF getGRPCBody
<1>4. QED
  BY <1>2, <1>3

\* Nor does any other branch of getParsedBody.
LEMMA BodyWithinBounds ==
  ASSUME NEW r \in Requests, NEW path, NEW ps
  PROVE  getParsedBody(r, path, ps) # OutOfBounds
<1>1. MultipartBody(r.contentType, Payload(r)) # OutOfBounds
  BY KindsDiffer DEF MultipartBody, MultipartForm
<1>2. Payload(r) # <<>> =>
        UnmarshalJSON(Payload(r)) # OutOfBounds /\ ParseQuery(Payload(r)) # OutOfBounds
  BY ParserAssumption
<1>3. RawBody(r) # <<>> => RawBody(r) = r.rawBody
  BY DEF RawBody
<1>4. RawBody(r) # <<>> => getGRPCBody(RawBody(r), path) # OutOfBounds
  BY <1>3, GRPCBodyWithinBounds
<1>5. QED
  BY <1>1, <1>2, <1>4, KindsDiffer DEF getParsedBody, ParsePayload

\* RequestToInput never panics in the slice expression of getGRPCBody, for any
\* request shorter than 2^32 bytes on a 64-bit build.
THEOREM FramesAreSafe == Spec => []FramesWithinBounds
<1>1. Init => FramesWithinBounds
  BY KindsDiffer DEF Init, FramesWithinBounds
<1>2. ASSUME FramesWithinBounds, [Next]_vars
      PROVE  FramesWithinBounds'
  <2>1. CASE Next
    <3>1. PICK r \in Requests : Convert(r)
      BY <2>1 DEF Next
    <3>2. getParsedBody(r, parsedPath(r.url), protoSet) # OutOfBounds
      BY BodyWithinBounds
    <3>3. \A b : Input(r, b) # OutOfBounds
      BY DEF Input, OutOfBounds
    <3>4. RequestToInput(r, protoSet, skip) # OutOfBounds
      BY <3>2, <3>3, KindsDiffer DEF RequestToInput
    <3>5. QED
      BY <3>1, <3>4 DEF Convert, FramesWithinBounds
  <2>2. CASE UNCHANGED vars
    BY <1>2, <2>2 DEF vars, FramesWithinBounds
  <2>3. QED
    BY <1>2, <2>1, <2>2
<1>3. QED
  BY <1>1, <1>2, PTL DEF Spec

-----------------------------------------------------------------------------
(***************************************************************************)
(* What is converted is a request, and the answer is what RequestToInput   *)
(* makes of it: the properties below are facts about that function.        *)
(***************************************************************************)
Converted ==
  \/ req = Idle /\ out = Idle
  \/ req \in Requests /\ out = RequestToInput(req, protoSet, skip)

\* The only step converts a request Envoy may send.
LEMMA ConvertedInvariant == Spec => []Converted
<1>1. Init => Converted
  BY DEF Init, Converted
<1>2. Converted /\ [Next]_vars => Converted'
  BY DEF Converted, Next, Convert, vars
<1>3. QED
  BY <1>1, <1>2, PTL DEF Spec

\* An input document is made only by Input, and then from the parsed body.
LEMMA InputBody ==
  ASSUME NEW r \in Requests, NEW ps, NEW o,
         o = RequestToInput(r, ps, FALSE), o.kind = "input"
  PROVE  /\ Encodable(r) /\ ~ParseFails(r.url)
         /\ getParsedBody(r, parsedPath(r.url), ps) \notin {Error, OutOfBounds}
         /\ o = Input(r, getParsedBody(r, parsedPath(r.url), ps))
         /\ o.body = getParsedBody(r, parsedPath(r.url), ps)
<1> DEFINE b == getParsedBody(r, parsedPath(r.url), ps)
<1>1. Error.kind # "input" /\ OutOfBounds.kind # "input"
  BY DEF Error, OutOfBounds
<1>2. Input(r, b).body = b
  BY DEF Input
<1> HIDE DEF b
<1>3. o = IF ~Encodable(r) \/ ParseFails(r.url) THEN Error
          ELSE IF b \in {Error, OutOfBounds} THEN b ELSE Input(r, b)
  BY DEF RequestToInput, b
<1>4. QED
  BY <1>1, <1>2, <1>3 DEF b

\* The kinds that decide what the policy sees.
LEMMA BodyKinds ==
  /\ Nothing.kind # "value" /\ Truncated.kind # "value" /\ Error.kind # "value"
  /\ NotSet.kind # "value" /\ Nothing # Truncated /\ Error # Truncated
  /\ NotSet # Truncated
  /\ \A v : Value(v) # Truncated
BY DEF Nothing, Truncated, Error, NotSet, Value

\* What a request is made of.
LEMMA RequestShape ==
  ASSUME NEW r \in Requests
  PROVE  /\ r.body \in Seq(Byte) /\ r.rawBody \in Seq(Byte)
         /\ RawBody(r) \in Seq(Byte) /\ Payload(r) \in Seq(Byte)
         /\ Len(r.rawBody) < SizeLimit
         /\ RawBody(r) # <<>> => r.version = "v3" /\ RawBody(r) = r.rawBody
         /\ r.contentType.contains \subseteq SupportedTypes
         /\ r.contentLength.kind = "int" => r.contentLength.n \in Int
<1>1. r.body \in Seq(Byte) /\ r.rawBody \in Seq(Byte)
  BY RequestAssumption
<1>2. RawBody(r) \in Seq(Byte) /\ Payload(r) \in Seq(Byte)
  BY <1>1 DEF RawBody, Payload
<1>3. QED
  BY <1>1, <1>2, RequestAssumption DEF RawBody

\* Outside gRPC, and if the content-length can be read, the comparison of the
\* code is exactly the question whether the payload has arrived: the -1 it
\* exempts is smaller than every length.
LEMMA LengthDecides ==
  ASSUME NEW r \in Requests, ~IsGRPC(r)
  PROVE  /\ checkIfHTTPBodyTruncated(r.contentLength, Len(Payload(r))) <=> ~Arrived(r)
         /\ ~Arrived(r) => r.contentLength.kind # "invalid"
<1>1. Len(Payload(r)) \in Nat
  BY RequestShape
<1>2. r.contentLength.kind = "int" => r.contentLength.n \in Int
  BY RequestShape
<1>3. QED
  BY <1>1, <1>2 DEF checkIfHTTPBodyTruncated, Arrived

\* A gRPC body that is parsed has arrived, and one reported as truncated has
\* not: neither the header nor the conversions of the size are miscounted.
LEMMA GRPCBodyIsExact ==
  ASSUME NEW r \in Requests, NEW path, RawBody(r) # <<>>
  PROVE  LET b == getGRPCBody(RawBody(r), path) IN
         /\ b.kind = "value" => HeaderLen + Size(RawBody(r)) <= Len(RawBody(r))
         /\ b = Truncated => HeaderLen + Size(RawBody(r)) > Len(RawBody(r))
<1> DEFINE in == r.rawBody
           b == getGRPCBody(in, path)
<1>1. in \in Seq(Byte) /\ Len(in) < SizeLimit /\ RawBody(r) = in
  BY RequestShape
<1>2. CASE Len(in) < HeaderLen \/ in[1] # 0
  BY <1>1, <1>2, BodyKinds DEF getGRPCBody
<1>3. CASE ~(Len(in) < HeaderLen \/ in[1] # 0) /\ IsShort(in)
  <2>1. Len(in) >= HeaderLen
    BY <1>1, <1>3 DEF HeaderLen
  <2>2. Size(in) \in 0 .. SizeLimit - 1
    BY <1>1, <2>1, SizeRange
  <2>3. SizeLimit \in Nat /\ IntLimit \in Nat /\ SizeLimit <= IntLimit
    BY WidthAssumption DEF SizeLimit
  <2>4. ToInt(Size(in)) = Size(in)
    BY <2>2, <2>3 DEF ToInt
  <2>5. HeaderLen + Size(in) > Len(in)
    BY <1>1, <1>3, <2>2, <2>4 DEF IsShort, HeaderLen
  <2>6. b = Truncated
    BY <1>3 DEF getGRPCBody
  <2>7. QED
    BY <1>1, <2>5, <2>6, BodyKinds
<1>4. CASE ~(Len(in) < HeaderLen \/ in[1] # 0) /\ ~IsShort(in)
  <2>1. Len(in) >= HeaderLen
    BY <1>1, <1>4 DEF HeaderLen
  <2>2. /\ HeaderLen + Size(in) \in HeaderLen .. Len(in)
        /\ Frame(in) = Value(SubSeq(in, HeaderLen + 1, HeaderLen + Size(in)))
    BY <1>1, <1>4, <2>1, FrameFits
  <2>3. /\ Frame(in) # OutOfBounds
        /\ Frame(in).value = SubSeq(in, HeaderLen + 1, HeaderLen + Size(in))
    BY <2>2, KindsDiffer, Zenon
  <2>4. Known(path) => UnmarshalProto(InputDesc(path), Frame(in).value) # Truncated
    BY <2>2, <2>3, ParserAssumption DEF Known, InputDesc
  <2>5. b # Truncated
    BY <1>4, <2>3, <2>4, BodyKinds DEF getGRPCBody
  <2>6. HeaderLen + Size(in) <= Len(in)
    BY <1>1, <2>2 DEF HeaderLen
  <2>7. QED
    BY <1>1, <2>5, <2>6
<1>5. QED
  BY <1>2, <1>3, <1>4

\* The same for every content type the code parses, and that a body cut short
\* is always reported outside gRPC.
LEMMA BodyIsExact ==
  ASSUME NEW r \in Requests, NEW path, NEW ps
  PROVE  LET b == getParsedBody(r, path, ps) IN
         /\ b.kind = "value" => Arrived(r)
         /\ b = Truncated => ~Arrived(r)
         /\ (r.contentType.contains # {} /\ ~IsGRPC(r) /\ Payload(r) # <<>>
              /\ ~Arrived(r)) => b = Truncated
<1> DEFINE b == getParsedBody(r, path, ps)
           ct == r.contentType
           Exact == /\ b.kind = "value" => Arrived(r)
                    /\ b = Truncated => ~Arrived(r)
                    /\ (ct.contains # {} /\ ~IsGRPC(r) /\ Payload(r) # <<>>
                         /\ ~Arrived(r)) => b = Truncated
<1>1. CASE IsGRPC(r)
  <2>1. b = IF ~ps \/ RawBody(r) = <<>> THEN Nothing
            ELSE IF Len(path) # 2 THEN Error
            ELSE getGRPCBody(RawBody(r), path)
    BY <1>1 DEF getParsedBody, IsGRPC
  <2>2. CASE ~ps \/ RawBody(r) = <<>> \/ Len(path) # 2
    BY <1>1, <2>1, <2>2, BodyKinds
  <2>3. CASE ~(~ps \/ RawBody(r) = <<>> \/ Len(path) # 2)
    <3>1. b = getGRPCBody(RawBody(r), path)
      BY <2>1, <2>3
    <3>2. /\ b.kind = "value" => HeaderLen + Size(RawBody(r)) <= Len(RawBody(r))
          /\ b = Truncated => HeaderLen + Size(RawBody(r)) > Len(RawBody(r))
      BY <2>3, <3>1, GRPCBodyIsExact
    <3>3. Len(RawBody(r)) \in Nat
      BY RequestShape
    <3>4. CASE b = Truncated
      <4>1. RawBody(r) = r.rawBody /\ r.rawBody \in Seq(Byte) /\ Len(r.rawBody) < SizeLimit
        BY <2>3, RequestShape
      <4>2. Len(RawBody(r)) >= HeaderLen
        BY <3>1, <3>3, <3>4, BodyKinds DEF getGRPCBody, HeaderLen
      <4>3. Size(RawBody(r)) \in 0 .. SizeLimit - 1 /\ SizeLimit \in Nat
        BY <4>1, <4>2, SizeRange, WidthAssumption DEF SizeLimit
      <4>4. ~(HeaderLen + Size(RawBody(r)) <= Len(RawBody(r)))
        BY <3>2, <3>3, <3>4, <4>3 DEF HeaderLen
      <4>5. QED
        BY <1>1, <3>4, <4>4, BodyKinds DEF Arrived
    <3>5. CASE b # Truncated
      BY <1>1, <3>2, <3>5 DEF Arrived
    <3>6. QED
      BY <3>4, <3>5
  <2>4. QED
    BY <2>2, <2>3
<1>2. CASE ~IsGRPC(r)
  <2> DEFINE late == checkIfHTTPBodyTruncated(r.contentLength, Len(Payload(r)))
             Like(v) == b = IF Payload(r) = <<>> THEN Nothing
                            ELSE IF r.contentLength.kind = "invalid" THEN Error
                            ELSE IF late THEN Truncated ELSE v
  <2>1. (late <=> ~Arrived(r)) /\ (~Arrived(r) => r.contentLength.kind # "invalid")
    BY <1>2, LengthDecides
  <2>2. ASSUME NEW v, Like(v), Payload(r) # <<>> => v # Truncated
        PROVE  Exact
    <3> HIDE DEF b, late
    <3>1. CASE Payload(r) = <<>> \/ r.contentLength.kind = "invalid"
      BY <2>1, <2>2, <3>1, BodyKinds
    <3>2. CASE ~(Payload(r) = <<>> \/ r.contentLength.kind = "invalid") /\ late
      BY <2>1, <2>2, <3>2, BodyKinds
    <3>3. CASE ~(Payload(r) = <<>> \/ r.contentLength.kind = "invalid") /\ ~late
      BY <2>1, <2>2, <3>3
    <3>4. QED
      BY <3>1, <3>2, <3>3
  <2>3. CASE "json" \in ct.contains
    <3>1. Like(UnmarshalJSON(Payload(r)))
      BY <2>3 DEF getParsedBody, ParsePayload
    <3>2. Payload(r) # <<>> => UnmarshalJSON(Payload(r)) # Truncated
      BY ParserAssumption
    <3>3. QED
      BY <2>2, <3>1, <3>2
  <2>4. CASE "form" \in ct.contains /\ ct.contains \cap {"json", "grpc"} = {}
    <3>1. Like(ParseQuery(Payload(r)))
      BY <2>4 DEF getParsedBody, ParsePayload
    <3>2. Payload(r) # <<>> => ParseQuery(Payload(r)) # Truncated
      BY ParserAssumption
    <3>3. QED
      BY <2>2, <3>1, <3>2
  <2>5. CASE ct.contains = {"multipart"}
    <3>1. Like(MultipartBody(ct, Payload(r)))
      BY <2>5 DEF getParsedBody, ParsePayload
    <3>2. MultipartBody(ct, Payload(r)) # Truncated
      BY BodyKinds DEF MultipartBody, MultipartForm
    <3>3. QED
      BY <2>2, <3>1, <3>2
  <2>6. CASE ct.contains = {}
    <3>1. b = Nothing
      BY <2>6 DEF getParsedBody
    <3>2. QED
      BY <2>6, <3>1, BodyKinds
  <2>7. "json" \in ct.contains \/ "grpc" \notin ct.contains
    BY <1>2 DEF IsGRPC
  <2>8. ct.contains \subseteq {"json", "grpc", "form", "multipart"}
    BY RequestShape DEF SupportedTypes
  <2>9. QED
    BY <2>3, <2>4, <2>5, <2>6, <2>7, <2>8
<1>3. QED
  BY <1>1, <1>2

\* The policy sees a parsed body only if all of it arrived and a truncated one
\* only if not, for every request, parser and integer width.
THEOREM TruncationIsDetected == Spec => []TruncationIsExact
<1>1. Converted => TruncationIsExact
  <2> SUFFICES ASSUME Converted, out.kind = "input", ~skip
               PROVE  TruncationIsExact
    BY DEF TruncationIsExact
  <2>1. req \in Requests /\ out = RequestToInput(req, protoSet, FALSE)
    BY DEF Converted, Idle, RequestToInput
  <2>2. out.body = getParsedBody(req, parsedPath(req.url), protoSet)
    BY <2>1, InputBody
  <2>3. QED
    BY <2>1, <2>2, BodyIsExact DEF TruncationIsExact
<1>2. QED
  BY <1>1, ConvertedInvariant, PTL

-----------------------------------------------------------------------------
\* Cutting a payload behind its first message keeps the header, the size and
\* the message.
LEMMA CutKeepsFrame ==
  ASSUME NEW in \in Seq(Byte), Len(in) >= HeaderLen, Len(in) < SizeLimit, ~IsShort(in)
  PROVE  LET cut == SubSeq(in, 1, HeaderLen + Size(in)) IN
         /\ Len(cut) >= HeaderLen /\ cut[1] = in[1] /\ cut # <<>>
         /\ ~IsShort(cut) /\ Frame(cut) = Frame(in)
<1> DEFINE size == Size(in)
           cut == SubSeq(in, 1, HeaderLen + size)
<1>1. size \in 0 .. SizeLimit - 1 /\ SizeLimit \in Nat /\ IntLimit \in Nat
      /\ SizeLimit <= IntLimit
  BY SizeRange, WidthAssumption DEF SizeLimit
<1>2. /\ HeaderLen + size \in HeaderLen .. Len(in)
      /\ Frame(in) = Value(SubSeq(in, HeaderLen + 1, HeaderLen + size))
  BY FrameFits
<1> HIDE DEF size
<1>3. cut \in Seq(Byte) /\ Len(cut) = HeaderLen + size
      /\ \A i \in 1 .. HeaderLen + size : cut[i] = in[i]
  BY <1>1, <1>2 DEF HeaderLen
<1>4. Len(cut) >= HeaderLen /\ Len(cut) < SizeLimit /\ cut # <<>>
  BY <1>1, <1>2, <1>3 DEF HeaderLen
<1>5. \A i \in 1 .. 5 : cut[i] = in[i]
  BY <1>1, <1>3 DEF HeaderLen
<1> HIDE DEF cut
<1>6. Size(cut) = size
  BY <1>5 DEF Size, size
<1>7. ~IsShort(cut)
  BY <1>1, <1>3, <1>6 DEF IsShort, ToInt, HeaderLen
<1>8. Frame(cut) = Value(SubSeq(cut, HeaderLen + 1, HeaderLen + size))
  BY <1>3, <1>4, <1>6, <1>7, FrameFits
<1>9. SubSeq(cut, HeaderLen + 1, HeaderLen + size) = SubSeq(in, HeaderLen + 1, HeaderLen + size)
  BY <1>1, <1>2, <1>3 DEF HeaderLen
<1>10. cut[1] = in[1]
  BY <1>5
<1>11. Frame(cut) = Frame(in)
  BY <1>2, <1>8, <1>9, Zenon
<1>12. QED
  BY <1>4, <1>7, <1>10, <1>11 DEF cut, size

\* Everything the gRPC branch does with a payload it does with the cut one.
LEMMA CutKeepsBody ==
  ASSUME NEW in \in Seq(Byte), Len(in) < SizeLimit, NEW path,
         getGRPCBody(in, path).kind = "value"
  PROVE  LET cut == SubSeq(in, 1, HeaderLen + Size(in)) IN
         cut # <<>> /\ getGRPCBody(cut, path) = getGRPCBody(in, path)
<1> DEFINE cut == SubSeq(in, 1, HeaderLen + Size(in))
<1>1. Len(in) \in Nat
  OBVIOUS
<1>2. ~(Len(in) < HeaderLen) /\ in[1] = 0 /\ ~IsShort(in)
  BY BodyKinds DEF getGRPCBody
<1>3. Len(in) >= HeaderLen
  BY <1>1, <1>2 DEF HeaderLen
<1>4. /\ Len(cut) >= HeaderLen /\ cut[1] = in[1] /\ cut # <<>>
      /\ ~IsShort(cut) /\ Frame(cut) = Frame(in)
  BY <1>2, <1>3, CutKeepsFrame
<1> HIDE DEF cut
<1>5. cut # <<>> /\ ~(Len(cut) < HeaderLen)
  <2>1. PICK n : n = Len(cut)
    OBVIOUS
  <2>2. n \in Nat
    <3>1. cut \in Seq(Byte)
      <4>1. HeaderLen + Size(in) \in HeaderLen .. Len(in)
        BY <1>2, <1>3, FrameFits
      <4>2. QED
        BY <4>1 DEF cut, HeaderLen
    <3>2. QED
      BY <2>1, <3>1
  <2>3. QED
    BY <1>4, <2>1, <2>2 DEF HeaderLen
<1>6. getGRPCBody(cut, path) = getGRPCBody(in, path)
  BY <1>2, <1>4, <1>5 DEF getGRPCBody
<1>7. QED
  BY <1>5, <1>6 DEF cut

\* The keys that are added come from the version, the URL and the parsed body.
LEMMA SameKeys ==
  ASSUME NEW r, NEW r2, r2.version = r.version, r2.url = r.url
  PROVE  \A b : Parsed(Input(r2, b)) = Parsed(Input(r, b))
<1>1. \A b : /\ Input(r, b).kind = "input" /\ Input(r, b).version = r.version
             /\ Input(r, b).parsed_path = parsedPath(r.url)
             /\ Input(r, b).parsed_query = r.url.query /\ Input(r, b).body = b
  BY DEF Input
<1>2. \A b : /\ Input(r2, b).kind = "input" /\ Input(r2, b).version = r2.version
             /\ Input(r2, b).parsed_path = parsedPath(r2.url)
             /\ Input(r2, b).parsed_query = r2.url.query /\ Input(r2, b).body = b
  BY DEF Input
<1>3. QED
  BY <1>1, <1>2 DEF Parsed

\* What is parsed depends on the first message of a gRPC payload only.
THEOREM OnlyFirstMessageCounts == Spec => []FirstMessageOnly
<1>1. Converted => FirstMessageOnly
  <2> SUFFICES ASSUME Converted, out.kind = "input", IsGRPC(req), out.body.kind = "value"
               PROVE  Parsed(out) = Parsed(RequestToInput(
                         [req EXCEPT !.rawBody = SubSeq(@, 1, HeaderLen + Size(@))],
                         protoSet, skip))
    BY DEF FirstMessageOnly
  <2>1. req \in Requests /\ out = RequestToInput(req, protoSet, skip)
    BY DEF Converted, Idle
  <2>2. ~skip
    <3>1. Error.kind # "input" /\ Input(req, NotSet).body = NotSet
      BY DEF Error, Input
    <3>2. QED
      BY <2>1, <3>1, BodyKinds DEF RequestToInput
  <2>3. out = RequestToInput(req, protoSet, FALSE)
    BY <2>1, <2>2 DEF RequestToInput
  <2> DEFINE path == parsedPath(req.url)
             b == getParsedBody(req, path, protoSet)
             in == req.rawBody
             cut == SubSeq(in, 1, HeaderLen + Size(in))
             r2 == [req EXCEPT !.rawBody = cut]
  <2>4. /\ Encodable(req) /\ ~ParseFails(req.url) /\ b \notin {Error, OutOfBounds}
        /\ out = Input(req, b) /\ out.body = b
    BY <2>1, <2>3, InputBody
  <2>5. protoSet /\ RawBody(req) # <<>> /\ Len(path) = 2 /\ b = getGRPCBody(RawBody(req), path)
    BY <2>4, BodyKinds DEF getParsedBody, IsGRPC
  <2>6. req.version = "v3" /\ RawBody(req) = in /\ in \in Seq(Byte) /\ Len(in) < SizeLimit
    BY <2>1, <2>5, RequestShape
  <2>7. cut # <<>> /\ getGRPCBody(cut, path) = b
    BY <2>4, <2>5, <2>6, CutKeepsBody
  <2> HIDE DEF cut
  <2>8. /\ r2.version = req.version /\ r2.encodable = req.encodable /\ r2.url = req.url
        /\ r2.contentType = req.contentType /\ r2.body = req.body /\ r2.rawBody = cut
    BY <2>1, RequestAssumption
  <2> HIDE DEF r2
  <2>9. RawBody(r2) = cut /\ Encodable(r2)
    BY <2>4, <2>6, <2>8 DEF RawBody, Encodable
  <2>10. getParsedBody(r2, path, protoSet) = b
    BY <2>5, <2>7, <2>8, <2>9 DEF getParsedBody, IsGRPC
  <2>11. RequestToInput(r2, protoSet, skip) = Input(r2, b)
    BY <2>2, <2>4, <2>8, <2>9, <2>10 DEF RequestToInput
  <2>12. Parsed(Input(r2, b)) = Parsed(Input(req, b))
    BY <2>8, SameKeys
  <2>13. QED
    BY <2>4, <2>11, <2>12 DEF r2, cut
<1>2. QED
  BY <1>1, ConvertedInvariant, PTL

-----------------------------------------------------------------------------
\* All that is parsed of a request; of the body only if it is parsed.
AlikeBodies(r, r2) ==
  /\ r2.contentType = r.contentType /\ r2.contentLength = r.contentLength
  /\ Payload(r2) = Payload(r)
  /\ IsGRPC(r) => RawBody(r2) = RawBody(r)

Alike(r, r2, skipBody) ==
  /\ r2.version = r.version /\ r2.url = r.url /\ Encodable(r2) = Encodable(r)
  /\ skipBody \/ AlikeBodies(r, r2)

\* Requests alike in these fields have the same parsed body ...
LEMMA AlikeSameBody ==
  ASSUME NEW r, NEW r2, NEW path, NEW ps, AlikeBodies(r, r2)
  PROVE  getParsedBody(r2, path, ps) = getParsedBody(r, path, ps)
<1>1. CASE IsGRPC(r)
  BY <1>1 DEF AlikeBodies, getParsedBody, IsGRPC
<1>2. CASE ~IsGRPC(r)
  BY <1>2 DEF AlikeBodies, getParsedBody, IsGRPC, ParsePayload
<1>3. QED
  BY <1>1, <1>2

\* ... and the same parsed keys.
LEMMA AlikeSameInput ==
  ASSUME NEW r, NEW r2, NEW ps, NEW skipBody \in BOOLEAN, Alike(r, r2, skipBody)
  PROVE  Parsed(RequestToInput(r2, ps, skipBody)) = Parsed(RequestToInput(r, ps, skipBody))
<1>1. \A b : Parsed(Input(r2, b)) = Parsed(Input(r, b))
  BY SameKeys DEF Alike
<1>2. CASE ~Encodable(r) \/ ParseFails(r.url)
  BY <1>2 DEF Alike, RequestToInput
<1>3. CASE ~(~Encodable(r) \/ ParseFails(r.url)) /\ skipBody
  BY <1>1, <1>3 DEF Alike, RequestToInput
<1>4. CASE ~(~Encodable(r) \/ ParseFails(r.url)) /\ ~skipBody
  <2>1. getParsedBody(r2, parsedPath(r.url), ps) = getParsedBody(r, parsedPath(r.url), ps)
    BY <1>4, AlikeSameBody DEF Alike
  <2>2. PICK b : b = getParsedBody(r, parsedPath(r.url), ps)
    OBVIOUS
  <2>3. /\ RequestToInput(r, ps, skipBody) = IF b \in {Error, OutOfBounds} THEN b ELSE Input(r, b)
        /\ RequestToInput(r2, ps, skipBody) = IF b \in {Error, OutOfBounds} THEN b ELSE Input(r2, b)
    BY <1>4, <2>1, <2>2 DEF Alike, RequestToInput
  <2>4. QED
    BY <1>1, <2>3
<1>5. QED
  BY <1>2, <1>3, <1>4

\* The switches are Booleans that never change.
LEMMA SwitchesInvariant == Spec => [](skip \in BOOLEAN)
<1>1. Init => skip \in BOOLEAN
  BY DEF Init
<1>2. skip \in BOOLEAN /\ [Next]_vars => (skip \in BOOLEAN)'
  BY DEF Next, Convert, vars
<1>3. QED
  BY <1>1, <1>2, PTL DEF Spec

\* Text or bytes, or a body that is skipped, do not change the keys that
\* RequestToInput (envoyauth/request.go 30-88) adds to the document.
THEOREM ParsingIgnoresPacking == Spec => []ParsedAlike
<1>1. Converted /\ skip \in BOOLEAN => ParsedAlike
  <2> SUFFICES ASSUME Converted, skip \in BOOLEAN, req # Idle
               PROVE  ParsedAlike
    BY DEF ParsedAlike
  <2>1. req \in Requests /\ out = RequestToInput(req, protoSet, skip)
    BY DEF Converted
  <2>2. ASSUME ~IsGRPC(req), req.version = "v3", req.body = <<>>, ValidUTF8(req.rawBody)
        PROVE  Parsed(out) = Parsed(RequestToInput(
                 [req EXCEPT !.body = req.rawBody, !.rawBody = <<>>], protoSet, skip))
    <3>1. PICK r2 : r2 = [req EXCEPT !.body = req.rawBody, !.rawBody = <<>>]
      OBVIOUS
    <3>2. /\ r2.version = req.version /\ r2.encodable = req.encodable /\ r2.url = req.url
          /\ r2.contentType = req.contentType /\ r2.contentLength = req.contentLength
          /\ r2.body = req.rawBody /\ r2.rawBody = <<>>
      BY <2>1, <3>1, RequestAssumption
    <3>3. AlikeBodies(req, r2)
      BY <2>2, <3>2 DEF AlikeBodies, Payload, RawBody
    <3>4. Encodable(r2) = Encodable(req)
      BY <2>2, <3>2, EmptyTextAssumption DEF Encodable
    <3>5. Alike(req, r2, skip)
      BY <3>2, <3>3, <3>4 DEF Alike
    <3>6. QED
      BY <2>1, <3>1, <3>5, AlikeSameInput
  <2>3. ASSUME skip, Encodable(req)
        PROVE  Parsed(out) = Parsed(RequestToInput(
                 [req EXCEPT !.body = <<>>, !.rawBody = <<>>], protoSet, skip))
    <3>1. PICK r2 : r2 = [req EXCEPT !.body = <<>>, !.rawBody = <<>>]
      OBVIOUS
    <3>2. /\ r2.version = req.version /\ r2.encodable = req.encodable /\ r2.url = req.url
          /\ r2.body = <<>>
      BY <2>1, <3>1, RequestAssumption
    <3>3. Encodable(r2) = Encodable(req)
      BY <2>3, <3>2, EmptyTextAssumption DEF Encodable
    <3>4. Alike(req, r2, skip)
      BY <2>3, <3>2, <3>3 DEF Alike
    <3>5. QED
      BY <2>1, <3>1, <3>4, AlikeSameInput
  <2>4. QED
    BY <2>2, <2>3 DEF ParsedAlike
<1>2. QED
  BY <1>1, ConvertedInvariant, SwitchesInvariant, PTL
=============================================================================
