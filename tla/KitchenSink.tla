---------------------------- MODULE KitchenSink -----------------------------
(***************************************************************************)
(* One call of test.KitchenSink, the gRPC service behind Envoy in the      *)
(* example (examples/grpc/testsrv): the client stubs and the handlers      *)
(* protoc generated (test.pb.go) and the service (testsvr.go).  testSvr    *)
(* has no fields, so calls share no state and one call is enough.          *)
(*                                                                         *)
(* A stream is two FIFO channels of at most Window messages, the flow      *)
(* control of gRPC.  The fifteen unary Send methods differ in the type of  *)
(* their message only and so do the fifteen SendMultiple streams: each     *)
(* family is one method here.                                              *)
(***************************************************************************)
EXTENDS Integers, Sequences, FiniteSets

CONSTANTS
  Messages,  \* requests
  Empty,     \* the message google.protobuf.Empty
  Nil,       \* the nil pointer
  Unset,     \* the messages that miss a required field of TestMessage
  Needed,    \* Messages -> numbers.needed_num_1, Nil when it is not set
  Keys,      \* metadata keys
  MaxSend,   \* bound: messages a client sends on a stream
  Window     \* flow control: messages in flight in each direction

ASSUME MessagesAssumption ==
  /\ Unset \subseteq Messages
  /\ Needed \in [Messages -> Int \cup {Nil}]
  /\ Nil \notin Messages \cup Int \cup {Empty}
ASSUME WindowAssumption == Window \in Nat \ {0} /\ MaxSend \in Nat

Unary          == {"Ping", "Exchange", "Send"}
ClientStreams  == {"UploadMany", "DoManyThings", "SendMultiple"}
ServerStreams  == {"DownloadMany", "DoManyThings"}
Methods        == Unary \cup ClientStreams \cup ServerStreams

\* The methods of TestMessage; they return the caller's metadata.
OfTestMessage == {"Exchange", "UploadMany", "DownloadMany", "DoManyThings"}

VARIABLES
  method, meta,    \* the method called, the metadata keys of the caller
  sent, up, half,  \* messages the client wrote, those not yet read, half-close
  got, down,       \* messages the client read, those not yet read
  outcome,         \* what the client knows: "none" or a status code
  cancelled,       \* the context of the call is done
  server,          \* "idle", "start", "recv", "send", "done"
  held, count,     \* the handler's m, and its count or i
  status,          \* the handler's result: "none" or a status code
  hdrs, tlrs       \* metadata keys sent back as header and trailer

client == <<method, meta>>
writes == <<sent, up, half>>
reads  == <<got, down>>
local  == <<held, count>>
back   == <<hdrs, tlrs>>
vars == <<client, writes, reads, outcome, cancelled, server, local, status, back>>

Init ==
  /\ method \in Methods
  /\ meta \in SUBSET Keys
  /\ sent = <<>> /\ up = <<>> /\ half = FALSE
  /\ got = <<>> /\ down = <<>>
  /\ outcome = "none" /\ cancelled = FALSE
  /\ server = "idle" /\ held = Nil /\ count = 0 /\ status = "none"
  /\ hdrs = {} /\ tlrs = {}

-----------------------------------------------------------------------------
(***************************************************************************)
(* The client stubs.  A client may write and read from two goroutines: the *)
(* actions of one call interleave freely.                                  *)
(***************************************************************************)

Open == server # "idle" /\ outcome = "none"

\* A message that misses a required field does not marshal.
Marshals(m) == method \in OfTestMessage => m \notin Unset

Inputs == IF method = "Ping" THEN {Empty} ELSE Messages

\* cc.Invoke or cc.NewStream fails: there is no connection.
Refused ==
  /\ server = "idle" /\ outcome = "none"
  /\ outcome' = "Unavailable"
  /\ UNCHANGED <<client, writes, reads, cancelled, server, local, status, back>>

\* SendMsg: a message that does not marshal ends the stream.
SendMsg(m) ==
  IF Marshals(m)
  THEN /\ Len(up) < Window
       /\ up' = Append(up, m) /\ sent' = Append(sent, m)
       /\ UNCHANGED <<outcome, cancelled>>
  ELSE /\ outcome' = "Internal" /\ cancelled' = TRUE
       /\ UNCHANGED <<up, sent>>

\* cc.Invoke, and the stub of DownloadMany: open, send the request, half-close.
Invoke(methods) ==
  /\ server = "idle" /\ outcome = "none"
  /\ method \in methods
  /\ server' = "start"
  /\ \E m \in Inputs : SendMsg(m) /\ half' = Marshals(m)
  /\ UNCHANGED <<client, reads, local, status, back>>

CallUnary        == Invoke({"Ping", "Exchange"})
CallSend         == Invoke({"Send"})
CallDownloadMany == Invoke({"DownloadMany"})

\* cc.NewStream under the stubs of the client streams.
NewStream(name) ==
  /\ server = "idle" /\ outcome = "none"
  /\ method = name
  /\ server' = "start"
  /\ UNCHANGED <<client, writes, reads, outcome, cancelled, local, status, back>>

OpenUploadMany   == NewStream("UploadMany")
OpenDoManyThings == NewStream("DoManyThings")
OpenSendMultiple == NewStream("SendMultiple")

\* Send of a client stream; on a stream that has ended it is io.EOF.
Send ==
  /\ Open /\ ~half /\ status = "none"
  /\ Len(sent) < MaxSend
  /\ \E m \in Messages : SendMsg(m)
  /\ UNCHANGED <<client, half, reads, server, local, status, back>>

\* CloseSend, also the first half of CloseAndRecv.
CloseSend ==
  /\ Open /\ ~half
  /\ half' = TRUE
  /\ UNCHANGED <<client, sent, up, reads, outcome, cancelled, server, local,
                 status, back>>

\* Recv of a server stream: the next message, or the status at its end.
RecvStream ==
  /\ Open /\ method \in ServerStreams
  /\ \/ /\ down # <<>>
        /\ got' = Append(got, Head(down)) /\ down' = Tail(down)
        /\ UNCHANGED outcome
     \/ /\ down = <<>> /\ status # "none"
        /\ outcome' = status
        /\ UNCHANGED reads
  /\ UNCHANGED <<client, writes, cancelled, server, local, status, back>>

\* The end of Invoke, the second half of CloseAndRecv: RecvMsg waits for the
\* status too and returns the reply only when that is OK.
RecvReply ==
  /\ Open /\ method \notin ServerStreams /\ half
  /\ status # "none"
  /\ outcome' = status
  /\ got' = IF status = "OK" THEN down ELSE <<>>
  /\ down' = <<>>
  /\ UNCHANGED <<client, writes, cancelled, server, local, status, back>>

\* The client's context is cancelled, or its deadline passes.
Cancel ==
  /\ Open
  /\ outcome' = "Canceled" /\ cancelled' = TRUE
  /\ UNCHANGED <<client, writes, reads, server, local, status, back>>

-----------------------------------------------------------------------------
(***************************************************************************)
(* The stream as a handler sees it.  When the context is done a read may   *)
(* still find a message, and a write may still find room.                  *)
(***************************************************************************)
RecvResults ==
  {[m |-> Head(up), err |-> "nil"] : x \in {1} \cap DOMAIN up}
    \cup (IF up = <<>> /\ half THEN {[m |-> Nil, err |-> "EOF"]} ELSE {})
    \cup (IF cancelled THEN {[m |-> Nil, err |-> "Canceled"]} ELSE {})

Take(r) == up' = IF r.err = "nil" THEN Tail(up) ELSE up

SendResults ==
  (IF Len(down) < Window THEN {"nil"} ELSE {})
    \cup (IF cancelled THEN {"Canceled"} ELSE {})

Put(m, err) == down' = IF err = "nil" THEN Append(down, m) ELSE down

\* The handler returns err; grpc writes the status.
Return(err) == server' = "done" /\ status' = IF err = "nil" THEN "OK" ELSE err

\* SendAndClose(m), and the reply of a unary handler: write it and return.
SendAndClose(m) == \E err \in SendResults : Put(m, err) /\ Return(err)

-----------------------------------------------------------------------------
(***************************************************************************)
(* testsvr.go.                                                             *)
(***************************************************************************)

\* strings.HasSuffix("-t", k): k is a suffix of "-t", not the reverse.
IsTrailer(k) == k \in {"", "t", "-t"}

\* The metadata of the caller goes back; errors of SendHeader are ignored.
ReturnMetadata ==
  /\ tlrs' = {k \in meta : IsTrailer(k)}
  /\ hdrs' = {k \in meta : ~IsTrailer(k)}

\* m.Numbers.GetNeededNum_1(): 0 when Numbers or the field is nil.
GetNeededNum_1(m) == IF Needed[m] = Nil THEN 0 ELSE Needed[m]

Exchange(m) == ReturnMetadata /\ SendAndClose(m)
Ping        == UNCHANGED back /\ SendAndClose(Empty)
SendAny     == UNCHANGED back /\ SendAndClose(Empty)

\* A generated handler decodes the request first: Serve gets it, or the
\* handler returns the error of dec.
Decode(name, Serve(_)) ==
  /\ server = "start" /\ method = name
  /\ \E r \in RecvResults :
       /\ Take(r)
       /\ IF r.err = "nil" THEN Serve(r.m)
          ELSE Return(r.err) /\ UNCHANGED <<down, held, back>>
  /\ UNCHANGED <<client, sent, half, got, outcome, cancelled, count>>

ExchangeHandler == Decode("Exchange", LAMBDA m : Exchange(m) /\ UNCHANGED held)
PingHandler     == Decode("Ping", LAMBDA m : Ping /\ UNCHANGED held)
SendHandler     == Decode("Send", LAMBDA m : SendAny /\ UNCHANGED held)

DownloadManyHandler ==
  Decode("DownloadMany", LAMBDA m : /\ server' = "send" /\ held' = m
                                    /\ ReturnMetadata
                                    /\ UNCHANGED <<down, status>>)

\* The loop of DownloadMany; count is its i.
Download ==
  /\ server = "send" /\ method = "DownloadMany"
  /\ IF count < GetNeededNum_1(held)
     THEN \E err \in SendResults :
            /\ Put(held, err)
            /\ IF err = "nil"
               THEN count' = count + 1 /\ UNCHANGED <<server, status>>
               ELSE Return(err) /\ UNCHANGED count
     ELSE Return("nil") /\ UNCHANGED <<down, count>>
  /\ UNCHANGED <<client, writes, got, outcome, cancelled, held, back>>

\* The handlers of the client streams, up to the loops.
StartLoop(name) ==
  /\ server = "start" /\ method = name
  /\ server' = "recv"
  /\ UNCHANGED <<client, writes, reads, outcome, cancelled, local, status>>

UploadManyHandler   == StartLoop("UploadMany") /\ ReturnMetadata
DoManyThingsHandler == StartLoop("DoManyThings") /\ ReturnMetadata
SendMultipleHandler == StartLoop("SendMultiple") /\ UNCHANGED back

\* After the loop of UploadMany: m is what the last Recv returned, the
\* reply is m with needed_num_A set to the count.
UploadReply(m) ==
  IF m = Nil
  THEN Return("InvalidArgument") /\ UNCHANGED down
  ELSE SendAndClose(<<m, count>>)

UploadMany ==
  /\ server = "recv" /\ method = "UploadMany"
  /\ \E r \in RecvResults :
       /\ Take(r)
       /\ held' = r.m
       /\ CASE r.err = "nil" -> count' = count + 1 /\ UNCHANGED <<server, status, down>>
            [] r.err = "EOF" -> UploadReply(r.m) /\ UNCHANGED count
            [] OTHER         -> Return(r.err) /\ UNCHANGED <<count, down>>
  /\ UNCHANGED <<client, sent, half, got, outcome, cancelled, back>>

\* The loop goes on after io.EOF.
M_EchoRecv_IgnoresEOF ==
  /\ server = "recv" /\ method = "DoManyThings"
  /\ \E r \in RecvResults :
       /\ Take(r)
       /\ held' = r.m
       /\ CASE r.err = "nil" -> server' = "send" /\ UNCHANGED status
            [] r.err = "EOF" -> UNCHANGED <<server, status>>
            [] OTHER         -> Return(r.err)
  /\ UNCHANGED <<client, sent, half, reads, outcome, cancelled, count, back>>

\* The loop of DoManyThings, its read and its write.
EchoRecv ==
  /\ server = "recv" /\ method = "DoManyThings"
  /\ \E r \in RecvResults :
       /\ Take(r)
       /\ held' = r.m
       /\ CASE r.err = "nil" -> server' = "send" /\ UNCHANGED status
            [] r.err = "EOF" -> Return("nil")
            [] OTHER         -> Return(r.err)
  /\ UNCHANGED <<client, sent, half, reads, outcome, cancelled, count, back>>

\* The result of Send is not looked at and the write does not wait for room.
M_EchoSend_DropsWhenFull ==
  /\ server = "send" /\ method = "DoManyThings"
  /\ down' = IF Len(down) < Window THEN Append(down, held) ELSE down
  /\ server' = "recv"
  /\ held' = Nil
  /\ UNCHANGED <<client, writes, got, outcome, cancelled, count, status, back>>

EchoSend ==
  /\ server = "send" /\ method = "DoManyThings"
  /\ \E err \in SendResults :
       /\ Put(held, err)
       /\ IF err = "nil" THEN server' = "recv" /\ UNCHANGED status ELSE Return(err)
  /\ held' = Nil
  /\ UNCHANGED <<client, writes, got, outcome, cancelled, count, back>>

\* The reply goes out at the first message.
M_SendMultiple_Early ==
  /\ server = "recv" /\ method = "SendMultiple"
  /\ \E r \in RecvResults :
       /\ Take(r)
       /\ IF r.err = "Canceled" THEN Return(r.err) /\ UNCHANGED down
                                ELSE SendAndClose(Empty)
  /\ UNCHANGED <<client, sent, half, got, outcome, cancelled, local, back>>

SendMultiple ==
  /\ server = "recv" /\ method = "SendMultiple"
  /\ \E r \in RecvResults :
       /\ Take(r)
       /\ CASE r.err = "nil" -> UNCHANGED <<server, status, down>>
            [] r.err = "EOF" -> SendAndClose(Empty)
            [] OTHER         -> Return(r.err) /\ UNCHANGED down
  /\ UNCHANGED <<client, sent, half, got, outcome, cancelled, local, back>>

-----------------------------------------------------------------------------
Handler ==
  \/ PingHandler \/ ExchangeHandler \/ SendHandler
  \/ DownloadManyHandler \/ Download
  \/ UploadManyHandler \/ UploadMany
  \/ DoManyThingsHandler \/ EchoRecv \/ EchoSend
  \/ SendMultipleHandler \/ SendMultiple

Next ==
  \/ Refused \/ CallUnary \/ CallSend \/ CallDownloadMany
  \/ OpenUploadMany \/ OpenDoManyThings \/ OpenSendMultiple
  \/ Send \/ CloseSend \/ RecvStream \/ RecvReply \/ Cancel
  \/ Handler

\* Handlers run, and a client that opened a call reads until it ends.  A
\* client is not made to send, to close its side or to give up.
Spec == Init /\ [][Next]_vars /\ WF_vars(Handler) /\ WF_vars(RecvStream)
             /\ WF_vars(RecvReply)

-----------------------------------------------------------------------------
\* Replies are exact, whatever the windows do.  DoManyThings returns what it is
\* sent, once and in order: while the call is not cancelled, the messages read
\* back, those on their way back, the one the handler holds and those not read
\* are together the ones sent.  DownloadMany sends the request back as often as
\* it asks, and no time when the number is missing or negative.
RepliesAreExact ==
  /\ method = "DoManyThings" /\ ~cancelled =>
       sent = got \o down \o (IF held = Nil THEN <<>> ELSE <<held>>) \o up
  /\ method = "DownloadMany" /\ outcome = "OK" =>
       /\ \A i \in DOMAIN got : got[i] = sent[1]
       /\ LET n == GetNeededNum_1(sent[1])
          IN  Len(got) = IF n < 0 THEN 0 ELSE n

\* A status OK acknowledges the whole request: no handler answers OK while
\* the client may still send, or before it has read every message.
OKMeansAllRead == status = "OK" => half /\ up = <<>>

\* When the client has closed its side or given up, the call ends on both:
\* the client knows the outcome and the handler has returned.
CallEnds ==
  server # "idle" /\ (half \/ cancelled) ~> outcome # "none" /\ server = "done"

\* The message of UploadMany's error: it refuses a stream for having no
\* message only when there was none.
RefusedOnlyWhenEmpty == status = "InvalidArgument" => sent = <<>>
=============================================================================
