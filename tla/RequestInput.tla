---------------------------- MODULE RequestInput ----------------------------
(***************************************************************************)
(* From a CheckRequest to the input document of the policy:                *)
(* RequestToInput of envoyauth/request.go with its path, body and gRPC     *)
(* payload parsing.                                                        *)
(*                                                                         *)
(* A body is a sequence of bytes, because lengths, prefixes and the gRPC   *)
(* frame are what the properties are about.  What the parsers of the       *)
(* libraries make of a complete payload is left to constant operators.     *)
(* Byte and integer widths are constants: in the code a byte is below 256, *)
(* so that sizes are below 2^32, and IntLimit is 2^63.                     *)
(***************************************************************************)
EXTENDS Integers, Sequences

CONSTANTS
  ByteBase,           \* bytes are 0 .. ByteBase - 1
  IntLimit,           \* an int is in -IntLimit .. IntLimit - 1
  Services,           \* service |-> method |-> [streamingClient, input]
  Requests,           \* the requests Envoy may send
  ValidUTF8(_),       \* whether bytes can be a string for protojson
  UnmarshalJSON(_),   \* a payload as Value(...), Nothing (null) or Error
  ParseQuery(_),      \* the same for a form
  MultipartReader(_), \* a payload as [parts |-> Seq(part), failed |-> BOOLEAN]
  UnmarshalProto(_, _)\* message type and payload as Value(...) or Error

\* What parsing comes to; the kind says which.
Value(v)    == [kind |-> "value", value |-> v]
Nothing     == [kind |-> "nil"]
Truncated   == [kind |-> "truncated"]
Error       == [kind |-> "error"]
OutOfBounds == [kind |-> "outOfBounds"]   \* a slice expression that panics

Byte == 0 .. ByteBase - 1
HeaderLen == 5
SizeLimit == ByteBase * ByteBase * ByteBase * ByteBase

\* A 64-bit build: the uint32 size of a message always fits an int.
ASSUME WidthAssumption ==
  /\ ByteBase \in Nat \ {0, 1}
  /\ IntLimit \in Nat
  /\ SizeLimit <= IntLimit

\* What a request has that the code reads: its path and query, the supported
\* types named in its content-type header, its content-length and the two
\* fields for a body.  A path is the sequence of its parts, each a separator
\* and what follows it: "//a%2Fb" is /"", /"a", %2F"b".  Message limits keep a
\* request below 2^32 bytes (grpc-max-recv-msg-size is 4 MB by default).
SupportedTypes == {"json", "grpc", "form", "multipart"}
Part == [sep : {"", "/", "%2F"}, seg : STRING]

ASSUME RequestAssumption ==
  \A r \in Requests :
    /\ r \in [version : {"v3", "v2"}, encodable : BOOLEAN, url : {r.url},
              contentType : {r.contentType}, contentLength : {r.contentLength},
              body : Seq(Byte), rawBody : Seq(Byte)]
    /\ Len(r.rawBody) < SizeLimit
    /\ r.url \in [invalid : BOOLEAN, path : Seq(Part), query : {r.url.query}]
    /\ r.contentType.contains \subseteq SupportedTypes
    /\ r.contentLength.kind = "int" => r.contentLength.n \in Int

ASSUME EmptyTextAssumption == ValidUTF8(<<>>)

-----------------------------------------------------------------------------
(***************************************************************************)
(* Paths, as url.Parse and getParsedPathAndQuery take them apart.          *)
(***************************************************************************)
\* Two slashes and not three: what follows is an authority, up to the next.
HasAuthority(path) ==
  /\ Len(path) >= 2
  /\ path[1] = [sep |-> "/", seg |-> ""] /\ path[2].sep = "/"
  /\ path[2].seg = "" /\ Len(path) >= 3 => path[3].sep # "/"

\* A host with an escaped slash is an error, like whatever else is invalid.
ParseFails(url) ==
  \/ url.invalid
  \/ HasAuthority(url.path) /\ Len(url.path) >= 3 /\ url.path[3].sep = "%2F"

\* The field Path: without the authority and unescaped, so that separators no
\* longer differ.
UrlPath(path) ==
  LET kept == IF HasAuthority(path) THEN SubSeq(path, 3, Len(path)) ELSE path
  IN  [i \in DOMAIN kept |-> kept[i].seg]

\* TrimLeft takes every leading slash, and Split never returns no segment.
Split(segments) ==
  LET kept == {i \in DOMAIN segments :
                 (\A j \in 1 .. i - 1 : segments[j] = "") /\
                 (segments[i] # "" \/ i = Len(segments))}
  IN  IF segments = <<>> THEN <<"">>
      ELSE SubSeq(segments, CHOOSE i \in kept : TRUE, Len(segments))

parsedPath(url) == Split(UrlPath(url.path))

-----------------------------------------------------------------------------
(***************************************************************************)
(* gRPC payloads: one flag byte, four bytes of size, the message.          *)
(***************************************************************************)
Size(in) == ((in[2] * ByteBase + in[3]) * ByteBase + in[4]) * ByteBase + in[5]

\* The conversion int(size).
ToInt(n) == IF n < IntLimit THEN n ELSE n - 2 * IntLimit

\* in[lo:hi]
Slice(in, lo, hi) ==
  IF lo <= hi /\ hi <= Len(in) THEN Value(SubSeq(in, lo + 1, hi)) ELSE OutOfBounds

\* The header is forgotten in the comparison.
M_IsShort_NoHeader(in) == ToInt(Size(in)) > Len(in)

IsShort(in) == ToInt(Size(in)) > Len(in) - HeaderLen

\* Everything after the header is taken for the message.
M_Frame_WholePayload(in) == Slice(in, HeaderLen, Len(in))

\* in[5 : size+5], where size+5 is computed in 32 bits.
Frame(in) == Slice(in, HeaderLen, (Size(in) + HeaderLen) % SizeLimit)

\* findService, then findMessageInputDesc: the method must exist and must not
\* be a stream of the client.
Known(path) ==
  /\ path[1] \in DOMAIN Services
  /\ path[2] \in DOMAIN Services[path[1]]
  /\ ~Services[path[1]][path[2]].streamingClient

InputDesc(path) == Services[path[1]][path[2]].input

getGRPCBody(in, path) ==
  IF Len(in) < HeaderLen THEN Error
  ELSE IF in[1] # 0 THEN Nothing
  ELSE IF IsShort(in) THEN Truncated
  ELSE IF Frame(in) = OutOfBounds THEN OutOfBounds
  ELSE IF ~Known(path) THEN Nothing
  ELSE UnmarshalProto(InputDesc(path), Frame(in).value)

-----------------------------------------------------------------------------
(***************************************************************************)
(* The other payloads.  The content-length header is absent, invalid       *)
(* (ParseInt fails) or a number.                                           *)
(***************************************************************************)
M_IfTruncated_OffByOne(cl, bodyLength) == cl.kind = "int" /\ cl.n >= bodyLength

checkIfHTTPBodyTruncated(cl, bodyLength) ==
  cl.kind = "int" /\ cl.n # -1 /\ cl.n > bodyLength

\* v2 has no field for bytes.
RawBody(req) == IF req.version = "v3" THEN req.rawBody ELSE <<>>

M_Payload_BodyOnly(req) == req.body

Payload(req) == IF req.body # <<>> THEN req.body ELSE RawBody(req)

\* The branches for JSON, forms and multipart forms begin alike.
ParsePayload(req, Parse(_)) ==
  IF Payload(req) = <<>> THEN Nothing
  ELSE IF req.contentLength.kind = "invalid" THEN Error
  ELSE IF checkIfHTTPBodyTruncated(req.contentLength, Len(Payload(req))) THEN Truncated
  ELSE Parse(Payload(req))

PartValue(part) == IF part.json THEN UnmarshalJSON(part.value) ELSE Value(part.value)

\* Parts without a name are skipped, the values of a name keep their order,
\* and one part that cannot be read or parsed fails the request.
MultipartForm(payload) ==
  LET mr    == MultipartReader(payload)
      parts == SelectSeq(mr.parts, LAMBDA p : p.name # "")
      named(n) == SelectSeq(parts, LAMBDA p : p.name = n)
  IN  IF mr.failed \/ \E i \in DOMAIN parts : PartValue(parts[i]) = Error THEN Error
      ELSE Value([n \in {parts[i].name : i \in DOMAIN parts} |->
                    [i \in DOMAIN named(n) |-> PartValue(named(n)[i])]])

\* ct.media: what mime.ParseMediaType finds.
MultipartBody(ct, payload) ==
  CASE ct.media = "invalid"    -> Error
    [] ct.media = "noBoundary" -> Nothing
    [] OTHER                   -> MultipartForm(payload)

\* ct.contains: the supported types whose names occur in the header, which
\* the code tries in this order.
getParsedBody(req, path, protoSet) ==
  LET ct == req.contentType IN
  CASE "json" \in ct.contains -> ParsePayload(req, UnmarshalJSON)
    [] "grpc" \in ct.contains /\ "json" \notin ct.contains ->
         IF ~protoSet \/ RawBody(req) = <<>> THEN Nothing
         ELSE IF Len(path) # 2 THEN Error
         ELSE getGRPCBody(RawBody(req), path)
    [] "form" \in ct.contains /\ ct.contains \cap {"json", "grpc"} = {} ->
         ParsePayload(req, ParseQuery)
    [] ct.contains = {"multipart"} ->
         ParsePayload(req, LAMBDA p : MultipartBody(ct, p))
    [] OTHER -> Nothing

-----------------------------------------------------------------------------
\* The parsers fail by returning an error, and know nothing of truncation.
ASSUME ParserAssumption ==
  \A r \in Requests :
    /\ Payload(r) # <<>> =>
         /\ UnmarshalJSON(Payload(r)) \notin {OutOfBounds, Truncated}
         /\ ParseQuery(Payload(r)) \notin {OutOfBounds, Truncated}
    /\ \A s \in DOMAIN Services : \A m \in DOMAIN Services[s] :
         \A n \in HeaderLen .. Len(r.rawBody) :
           UnmarshalProto(Services[s][m].input, SubSeq(r.rawBody, HeaderLen + 1, n))
             \notin {OutOfBounds, Truncated}

(***************************************************************************)
(* The input document: the request as JSON, with its body or raw_body, and *)
(* the keys that are added to it.  body stands for parsed_body (the value, *)
(* else null) and truncated_body (true when it is Truncated); NotSet when  *)
(* neither key is there.                                                   *)
(***************************************************************************)
NotSet == [kind |-> "notSet"]

\* protojson refuses text that is not UTF-8; encoding/json mends it, and bytes
\* are encoded in base64.
Encodable(req) == req.encodable /\ (req.version = "v3" => ValidUTF8(req.body))

Input(req, body) ==
  [kind |-> "input", attributes |-> [req EXCEPT !.rawBody = RawBody(req)],
   version |-> req.version, parsed_path |-> parsedPath(req.url),
   parsed_query |-> req.url.query, body |-> body]

RequestToInput(req, protoSet, skipRequestBodyParse) ==
  IF ~Encodable(req) \/ ParseFails(req.url) THEN Error
  ELSE IF skipRequestBodyParse THEN Input(req, NotSet)
  ELSE LET body == getParsedBody(req, parsedPath(req.url), protoSet) IN
       IF body \in {Error, OutOfBounds} THEN body ELSE Input(req, body)

-----------------------------------------------------------------------------
(***************************************************************************)
(* One request, under any configuration: the conversion keeps no state, so *)
(* the next one would be like the first.                                   *)
(***************************************************************************)
VARIABLES protoSet, skip, req, out

vars == <<protoSet, skip, req, out>>

Idle == [kind |-> "idle"]

Init ==
  /\ protoSet \in BOOLEAN /\ skip \in BOOLEAN
  /\ req = Idle /\ out = Idle

Convert(r) ==
  /\ req' = r
  /\ out' = RequestToInput(r, protoSet, skip)
  /\ UNCHANGED <<protoSet, skip>>

Next == req = Idle /\ \E r \in Requests : Convert(r)

Spec == Init /\ [][Next]_vars

-----------------------------------------------------------------------------
(***************************************************************************)
(* Properties.                                                             *)
(***************************************************************************)
\* The slice expression that takes the message out of the gRPC frame never
\* panics, whatever size the header claims.
FramesWithinBounds == out # OutOfBounds

\* Reference definition: the payload the sender announced, by its
\* content-length or by the size in the frame, has arrived in full.
IsGRPC(r) == "grpc" \in r.contentType.contains /\ "json" \notin r.contentType.contains

Arrived(r) ==
  IF IsGRPC(r) THEN HeaderLen + Size(RawBody(r)) <= Len(RawBody(r))
  ELSE r.contentLength.kind = "int" => r.contentLength.n <= Len(Payload(r))

\* A body is parsed only if all of it arrived and reported as truncated only
\* if not, and what is left of a cut body of a supported type is always
\* reported.  A body of which nothing is left is not reported.
TruncationIsExact ==
  (out.kind = "input" /\ ~skip) =>
    /\ out.body.kind = "value" => Arrived(req)
    /\ out.body = Truncated => ~Arrived(req)
    /\ (req.contentType.contains # {} /\ ~IsGRPC(req) /\ Payload(req) # <<>>
         /\ ~Arrived(req)) => out.body = Truncated

\* The keys that RequestToInput adds, or its error.
Parsed(o) ==
  IF o.kind = "input" THEN <<o.version, o.parsed_path, o.parsed_query, o.body>> ELSE o

\* Of a gRPC payload only the first message counts: cutting everything behind
\* it leaves what is parsed as it is.
FirstMessageOnly ==
  (out.kind = "input" /\ IsGRPC(req) /\ out.body.kind = "value") =>
    Parsed(out) = Parsed(RequestToInput(
                    [req EXCEPT !.rawBody = SubSeq(@, 1, HeaderLen + Size(@))],
                    protoSet, skip))

\* What is parsed does not depend on whether Envoy packs the body as text or as
\* bytes (pack_as_bytes), outside gRPC and for bytes that can be text; nor does
\* it, with skip-request-body-parse, on any body, however malformed, that can
\* be encoded.  The body itself is in the document too, in the one key or the
\* other, so a policy that reads it there can tell.
ParsedAlike ==
  req # Idle =>
    /\ (~IsGRPC(req) /\ req.version = "v3" /\ req.body = <<>> /\ ValidUTF8(req.rawBody)) =>
         Parsed(out) = Parsed(RequestToInput(
                         [req EXCEPT !.body = req.rawBody, !.rawBody = <<>>], protoSet, skip))
    /\ skip /\ Encodable(req) =>
         Parsed(out) = Parsed(RequestToInput(
                         [req EXCEPT !.body = <<>>, !.rawBody = <<>>], protoSet, skip))
=============================================================================
