--------------------------- MODULE MCRequestInput ---------------------------
(***************************************************************************)
(* RequestInput for TLC: bytes are bits, so that a size is below 16, and   *)
(* the parsers accept some payloads and reject others.                     *)
(***************************************************************************)
EXTENDS RequestInput, SequencesExt

CONSTANTS MaxFrame, MaxBody

\* A 0 is the start of a character of two bytes that another 0 does not end.
MCValidUTF8(p) == \A i \in 1 .. Len(p) - 1 : p[i] = 1 \/ p[i + 1] = 1

\* A document ends in 1; a single 1 is the document null.
MCUnmarshalJSON(p) ==
  IF p = <<>> \/ p[Len(p)] = 0 THEN Error ELSE IF p = <<1>> THEN Nothing ELSE Value(p)

MCParseQuery(p) == IF p[1] = 0 THEN Error ELSE Value(p)

\* Every byte is a part: 1 a JSON part named a, 0 a text part named b or,
\* behind another 0, without a name; the payload must end in 1.
MCMultipartReader(p) ==
  [parts  |-> [i \in DOMAIN p |->
                [name |-> IF p[i] = 1 THEN "a" ELSE IF i > 1 /\ p[i - 1] = 0 THEN "" ELSE "b",
                 json |-> p[i] = 1, value |-> SubSeq(p, 1, i)]],
   failed |-> p[Len(p)] = 0]

MCUnmarshalProto(type, p) == IF p # <<>> /\ p[1] = 1 THEN Error ELSE Value(<<type, p>>)

\* A unary and a client-streaming method of the example service.
MCServices ==
  "svc" :> ("Exchange" :> [streamingClient |-> FALSE, input |-> "TestMessage"]
            @@ "UploadMany" :> [streamingClient |-> TRUE, input |-> "TestMessage"])

Slash(seg) == [sep |-> "/", seg |-> seg]
Escaped(seg) == [sep |-> "%2F", seg |-> seg]
Url(path) == [invalid |-> FALSE, path |-> path, query |-> <<>>]
BadUrl == [Url(<<>>) EXCEPT !.invalid = TRUE]

NoLength == [kind |-> "absent"]
Lengths == {NoLength, [kind |-> "invalid"]}
             \cup [kind : {"int"}, n : -2 .. MaxBody + 1]

Type(contains, media) == [contains |-> contains, media |-> media]

TextTypes ==
  {Type({}, "noBoundary"), Type({"json"}, "noBoundary"), Type({"form"}, "noBoundary"),
   Type({"json", "grpc"}, "noBoundary")}
    \cup {Type({"multipart"}, m) : m \in {"invalid", "noBoundary", "boundary"}}

TextRequests ==
  [version : {"v3", "v2"}, encodable : {TRUE},
   url : {Url(<<Slash("a")>>), Url(<<Slash(""), Slash("")>>), BadUrl},
   contentType : TextTypes, contentLength : Lengths,
   body : SeqOf(0 .. 1, MaxBody), rawBody : SeqOf(0 .. 1, MaxBody)]

\* /svc/Exchange; with %2F; with //, and then the service is the host, or there
\* is another host; with ///; a host that is an error; and other methods.
GRPCPaths ==
  {<<Slash("svc"), Slash("Exchange")>>, <<Slash("svc"), Escaped("Exchange")>>,
   <<Slash(""), Slash("svc"), Slash("Exchange")>>,
   <<Slash(""), Slash("host"), Slash("svc"), Slash("Exchange")>>,
   <<Slash(""), Slash(""), Slash("svc"), Slash("Exchange")>>,
   <<Slash(""), Slash("svc"), Escaped("Exchange")>>,
   <<Slash("svc"), Slash("UploadMany")>>, <<Slash("svc"), Slash("None")>>,
   <<[sep |-> "", seg |-> "svc"]>>, <<Slash("other"), Slash("Exchange")>>}

GRPCRequests ==
  [version : {"v3"}, encodable : {TRUE},
   url : {Url(p) : p \in GRPCPaths},
   contentType : {Type({"grpc"}, "noBoundary")}, contentLength : {NoLength},
   body : {<<>>}, rawBody : SeqOf(0 .. 1, MaxFrame)]

\* A request the encoders cannot turn into JSON.
Unencodable ==
  {[r EXCEPT !.encodable = FALSE] : r \in {g \in GRPCRequests : Len(g.rawBody) = 0}}

MCRequests == TextRequests \cup GRPCRequests \cup Unencodable
=============================================================================
