------------------------- MODULE KitchenSinkProofs --------------------------
(***************************************************************************)
(* Proofs about KitchenSink, for all messages, windows and lengths of a    *)
(* stream: an OK acknowledges the whole request (OKMeansAllRead), and the  *)
(* replies are exact (RepliesAreExact).                                    *)
(*                                                                         *)
(* The inductive invariant says where the messages of a call are: the one  *)
(* request of a call without a client stream, those of an echo in the four *)
(* places between client and client, the copies of a download.             *)
(***************************************************************************)
EXTENDS KitchenSink, TLAPS, SequenceTheorems

\* Everything a stream carries.  UploadMany's reply never gets that far.
Payloads == Messages \cup {Empty}

\* The calls with one request, which the stub sends before the client returns.
OneRequest == Unary \cup {"DownloadMany"}

\* The types; a handler that is about to write holds a message.
Typed ==
  /\ method \in Methods
  /\ sent \in Seq(Payloads) /\ up \in Seq(Payloads)
  /\ got \in Seq(Payloads) /\ down \in Seq(Payloads)
  /\ method # "Ping" => up \in Seq(Messages)
  /\ half \in BOOLEAN /\ cancelled \in BOOLEAN
  /\ held \in Payloads \cup {Nil}
  /\ server = "send" => held \in Payloads
  /\ count \in Nat
  /\ server \in {"idle", "start", "recv", "send", "done"}
  /\ status # "none" <=> server = "done"

\* Before the call is opened nothing has happened.
Unopened ==
  server = "idle" =>
    /\ sent = <<>> /\ up = <<>> /\ got = <<>> /\ down = <<>>
    /\ ~half /\ ~cancelled /\ held = Nil /\ count = 0 /\ outcome # "OK"

\* The one request is on its way or has been read, or it did not marshal and
\* the client has been told.
Requested ==
  (server # "idle" /\ method \in OneRequest) =>
    \/ /\ half /\ Len(sent) = 1
       /\ IF server = "start" THEN up = sent
          ELSE up = <<>> \/ (server = "done" /\ status # "OK")
    \/ /\ ~half /\ sent = <<>> /\ up = <<>> /\ cancelled
       /\ outcome = "Internal" /\ server \in {"start", "done"} /\ status # "OK"

InHand(m) == IF m = Nil THEN <<>> ELSE <<m>>

\* DoManyThings: nothing is lost, doubled or swapped between the four places
\* where a message can be.
Echoed ==
  method = "DoManyThings" =>
    /\ ~cancelled => sent = ((got \o down) \o InHand(held)) \o up
    /\ server \in {"idle", "start", "recv"} => held = Nil

Copies(m) == IF GetNeededNum_1(m) < 0 THEN 0 ELSE GetNeededNum_1(m)

\* DownloadMany: what is out are copies of the request, as many as counted.
Downloaded ==
  (method = "DownloadMany" /\ half) =>
    /\ sent[1] \in Messages
    /\ \A i \in 1 .. Len(got) : got[i] = sent[1]
    /\ \A i \in 1 .. Len(down) : down[i] = sent[1]
    /\ server = "start" => got = <<>> /\ down = <<>> /\ count = 0
    /\ server # "recv"
    /\ server = "send" => /\ held = sent[1]
                          /\ Len(got) + Len(down) = count
                          /\ count <= Copies(sent[1])
    /\ status = "OK" => Len(got) + Len(down) = Copies(sent[1])
    /\ outcome = "OK" => status = "OK" /\ down = <<>>

Served ==
  Typed /\ Unopened /\ Requested /\ Echoed /\ Downloaded /\ OKMeansAllRead

-----------------------------------------------------------------------------
\* Sequences keep their type.
LEMMA Sequence ==
  ASSUME NEW S, NEW s \in Seq(S)
  PROVE  /\ \A x \in S : Append(s, x) \in Seq(S)
         /\ s # <<>> => Head(s) \in S /\ Tail(s) \in Seq(S)
         /\ Len(s) = 1 => s # <<>> /\ Tail(s) = <<>>
<1>1. \A x \in S : Append(s, x) \in Seq(S)
  OBVIOUS
<1>2. s # <<>> => Head(s) \in S /\ Tail(s) \in Seq(S)
  OBVIOUS
<1>3. ASSUME Len(s) = 1
      PROVE  s # <<>> /\ Tail(s) = <<>>
  <2>1. s # <<>> /\ Tail(s) \in Seq(S) /\ Len(Tail(s)) = 0
    BY <1>3
  <2>2. QED
    BY <2>1, EmptySeq
<1>4. QED
  BY <1>1, <1>2, <1>3

\* One more at the end of a chain is one more in the whole.
LEMMA ChainEnd ==
  ASSUME NEW S, NEW s \in Seq(S), NEW u \in Seq(S), NEW x \in S
  PROVE  s \o Append(u, x) = Append(s \o u, x)
OBVIOUS

\* A message passed on from one place of a chain to the next leaves the chain
\* as it is: when the handler reads it,
LEMMA ChainTake ==
  ASSUME NEW S, NEW s \in Seq(S), NEW u \in Seq(S), u # <<>>
  PROVE  (s \o <<>>) \o u = (s \o <<Head(u)>>) \o Tail(u)
OBVIOUS

\* when the handler writes it back,
LEMMA ChainPut ==
  ASSUME NEW S, NEW g \in Seq(S), NEW d \in Seq(S), NEW x \in S
  PROVE  (g \o d) \o <<x>> = (g \o Append(d, x)) \o <<>>
<1>1. (g \o d) \o <<x>> = g \o Append(d, x)
  OBVIOUS
<1>2. g \o Append(d, x) \in Seq(S)
  OBVIOUS
<1>3. \A s \in Seq(S) : s \o <<>> = s
  OBVIOUS
<1>4. QED
  BY <1>1, <1>2, <1>3

\* and when the client reads it.
LEMMA ChainGet ==
  ASSUME NEW S, NEW g \in Seq(S), NEW d \in Seq(S), d # <<>>
  PROVE  Append(g, Head(d)) \o Tail(d) = g \o d
OBVIOUS

\* What a Recv of a handler may return.
LEMMA Received ==
  ASSUME NEW r \in RecvResults
  PROVE  \/ r.err = "nil" /\ up # <<>> /\ r.m = Head(up)
         \/ r.err = "EOF" /\ r.m = Nil /\ up = <<>> /\ half
         \/ r.err = "Canceled" /\ r.m = Nil /\ cancelled
<1>1. CASE r \in {[m |-> Head(up), err |-> "nil"] : x \in {1} \cap DOMAIN up}
  <2>1. 1 \in DOMAIN up /\ r = [m |-> Head(up), err |-> "nil"]
    BY <1>1
  <2>2. up # <<>>
    BY <2>1
  <2>3. QED
    BY <2>1, <2>2
<1>2. CASE r \in IF up = <<>> /\ half THEN {[m |-> Nil, err |-> "EOF"]} ELSE {}
  BY <1>2
<1>3. CASE r \in IF cancelled THEN {[m |-> Nil, err |-> "Canceled"]} ELSE {}
  BY <1>3
<1>4. QED
  BY <1>1, <1>2, <1>3 DEF RecvResults

\* What a Send of a handler may return.
LEMMA SendReturned ==
  ASSUME NEW err \in SendResults
  PROVE  err = "nil" \/ (err = "Canceled" /\ cancelled)
BY DEF SendResults

-----------------------------------------------------------------------------
\* The parts of the invariant, one lemma each.

\* Every step keeps the types.
LEMMA TypedStep == Typed /\ Next => Typed'
<1> SUFFICES ASSUME Typed, Next PROVE Typed'
  OBVIOUS
<1>a. Messages \subseteq Payloads /\ Empty \in Payloads
  BY DEF Payloads
<1>c. \A m \in Payloads : /\ Append(sent, m) \in Seq(Payloads)
                          /\ Append(up, m) \in Seq(Payloads)
                          /\ Append(down, m) \in Seq(Payloads)
                          /\ Append(got, m) \in Seq(Payloads)
  BY Sequence DEF Typed
<1>d. method # "Ping" => \A m \in Messages : Append(up, m) \in Seq(Messages)
  BY Sequence DEF Typed
<1>e. up # <<>> => /\ Head(up) \in Payloads /\ Tail(up) \in Seq(Payloads)
                   /\ method # "Ping" => Tail(up) \in Seq(Messages)
  BY Sequence DEF Typed
<1>f. down # <<>> => Head(down) \in Payloads /\ Tail(down) \in Seq(Payloads)
  BY Sequence DEF Typed
<1>g. ASSUME NEW m \in Inputs, SendMsg(m)
      PROVE  /\ sent' \in Seq(Payloads) /\ up' \in Seq(Payloads)
             /\ method # "Ping" => up' \in Seq(Messages)
             /\ cancelled' \in BOOLEAN
  <2>1. m \in Payloads /\ (method # "Ping" => m \in Messages)
    BY <1>a DEF Inputs
  <2>2. QED
    BY <1>c, <1>d, <1>g, <2>1 DEF SendMsg, Typed
<1>h. ASSUME NEW m \in Payloads, SendAndClose(m)
      PROVE  down' \in Seq(Payloads) /\ server' = "done" /\ status' # "none"
  BY <1>c, <1>h, SendReturned DEF SendAndClose, Put, Return, Typed
<1>i. ASSUME NEW methods, Invoke(methods)
      PROVE  Typed'
  <2>1. PICK m \in Inputs : SendMsg(m) /\ half' = Marshals(m)
    BY <1>i DEF Invoke
  <2>2. half' \in BOOLEAN
    BY <2>1 DEF Marshals
  <2>3. QED
    BY <1>g, <1>i, <2>1, <2>2 DEF Invoke, Typed, client, reads, local
<1>1. CASE Refused
  BY <1>1 DEF Refused, client, writes, reads, local, Typed
<1>2. CASE CallUnary
  BY <1>i, <1>2 DEF CallUnary
<1>3. CASE CallSend
  BY <1>i, <1>3 DEF CallSend
<1>4. CASE CallDownloadMany
  BY <1>i, <1>4 DEF CallDownloadMany
<1>5. CASE OpenUploadMany
  BY <1>5 DEF OpenUploadMany, NewStream, client, writes, reads, local, Typed
<1>6. CASE OpenDoManyThings
  BY <1>6 DEF OpenDoManyThings, NewStream, client, writes, reads, local, Typed
<1>7. CASE OpenSendMultiple
  BY <1>7 DEF OpenSendMultiple, NewStream, client, writes, reads, local, Typed
<1>8. CASE Send
  <2>1. PICK m \in Messages : SendMsg(m)
    BY <1>8 DEF Send
  <2>2. CASE method = "Ping"
    <3>1. sent' \in Seq(Payloads) /\ up' \in Seq(Payloads) /\ cancelled' \in BOOLEAN
      BY <1>a, <1>c, <2>1 DEF SendMsg, Typed
    <3>2. QED
      BY <1>8, <2>2, <3>1 DEF Send, Typed, client, reads, local
  <2>3. CASE method # "Ping"
    BY <1>g, <1>8, <2>1, <2>3 DEF Send, Typed, client, reads, local, Inputs
  <2>4. QED
    BY <2>2, <2>3
<1>9. CASE CloseSend
  BY <1>9 DEF CloseSend, client, reads, local, Typed
<1>10. CASE RecvStream
  BY <1>c, <1>f, <1>10 DEF RecvStream, Typed, client, reads, local, writes
<1>11. CASE RecvReply
  BY <1>11 DEF RecvReply, client, writes, local, Typed
<1>12. CASE Cancel
  BY <1>12 DEF Cancel, client, writes, reads, local, Typed
<1>13. CASE PingHandler
  <2>1. PICK r \in RecvResults :
          /\ Take(r)
          /\ IF r.err = "nil" THEN Ping /\ UNCHANGED held
             ELSE Return(r.err) /\ UNCHANGED <<down, held, back>>
    BY <1>13, Zenon DEF PingHandler, Decode
  <2>2. up' \in Seq(Payloads) /\ (method # "Ping" => up' \in Seq(Messages))
    BY <1>e, <2>1, Received DEF Take, Typed
  <2>3. down' \in Seq(Payloads) /\ server' = "done" /\ status' # "none" /\ held' = held
    BY <2>1, <1>a, <1>e, <1>h, Received DEF Ping, Return, Typed
  <2>4. QED
    BY <1>13, <2>2, <2>3 DEF PingHandler, Decode, Typed, client
<1>14. CASE ExchangeHandler
  <2>1. PICK r \in RecvResults :
          /\ Take(r)
          /\ IF r.err = "nil" THEN Exchange(r.m) /\ UNCHANGED held
             ELSE Return(r.err) /\ UNCHANGED <<down, held, back>>
    BY <1>14, Zenon DEF ExchangeHandler, Decode
  <2>2. up' \in Seq(Payloads) /\ (method # "Ping" => up' \in Seq(Messages))
    BY <1>e, <2>1, Received DEF Take, Typed
  <2>3. down' \in Seq(Payloads) /\ server' = "done" /\ status' # "none" /\ held' = held
    BY <2>1, <1>a, <1>e, <1>h, Received DEF Exchange, Return, Typed
  <2>4. QED
    BY <1>14, <2>2, <2>3 DEF ExchangeHandler, Decode, Typed, client
<1>15. CASE SendHandler
  <2>1. PICK r \in RecvResults :
          /\ Take(r)
          /\ IF r.err = "nil" THEN SendAny /\ UNCHANGED held
             ELSE Return(r.err) /\ UNCHANGED <<down, held, back>>
    BY <1>15, Zenon DEF SendHandler, Decode
  <2>2. up' \in Seq(Payloads) /\ (method # "Ping" => up' \in Seq(Messages))
    BY <1>e, <2>1, Received DEF Take, Typed
  <2>3. down' \in Seq(Payloads) /\ server' = "done" /\ status' # "none" /\ held' = held
    BY <2>1, <1>a, <1>e, <1>h, Received DEF SendAny, Return, Typed
  <2>4. QED
    BY <1>15, <2>2, <2>3 DEF SendHandler, Decode, Typed, client
<1>16. CASE DownloadManyHandler
  <2>1. PICK r \in RecvResults :
          /\ Take(r)
          /\ IF r.err = "nil"
             THEN server' = "send" /\ held' = r.m /\ UNCHANGED <<down, status>>
             ELSE Return(r.err) /\ UNCHANGED <<down, held, back>>
    BY <1>16, Zenon DEF DownloadManyHandler, Decode
  <2>2. up' \in Seq(Payloads) /\ (method # "Ping" => up' \in Seq(Messages))
    BY <1>e, <2>1, Received DEF Take, Typed
  <2>3. /\ down' = down /\ (status' # "none" <=> server' = "done")
        /\ server' \in {"send", "done"} /\ held' \in Payloads \cup {Nil}
        /\ server' = "send" => held' \in Payloads
    BY <1>16, <2>1, <1>e, Received DEF DownloadManyHandler, Decode, Return, Typed
  <2>4. QED
    BY <1>16, <2>2, <2>3 DEF DownloadManyHandler, Decode, Typed, client
<1>17. CASE Download
  <2>1. held \in Payloads /\ status = "none"
    BY <1>17 DEF Download, Typed
  <2>2. /\ down' \in Seq(Payloads) /\ count' \in Nat /\ server' \in {"send", "done"}
        /\ status' # "none" <=> server' = "done"
    <3>1. CASE count < GetNeededNum_1(held)
      <4>1. PICK err \in SendResults :
              /\ Put(held, err)
              /\ IF err = "nil" THEN count' = count + 1 /\ UNCHANGED <<server, status>>
                 ELSE Return(err) /\ UNCHANGED count
        BY <1>17, <3>1 DEF Download
      <4>2. QED
        BY <1>c, <1>17, <2>1, <4>1, SendReturned DEF Download, Put, Return, Typed
    <3>2. CASE ~(count < GetNeededNum_1(held))
      BY <1>17, <3>2 DEF Download, Return, Typed
    <3>3. QED
      BY <3>1, <3>2
  <2>3. QED
    BY <1>17, <2>1, <2>2 DEF Download, Typed, client, writes
<1>18. CASE UploadManyHandler
  BY <1>18 DEF UploadManyHandler, StartLoop, client, writes, reads, local, Typed
<1>19. CASE UploadMany
  <2>1. PICK r \in RecvResults :
          /\ Take(r) /\ held' = r.m
          /\ CASE r.err = "nil" -> count' = count + 1 /\ UNCHANGED <<server, status, down>>
               [] r.err = "EOF" -> UploadReply(r.m) /\ UNCHANGED count
               [] OTHER         -> Return(r.err) /\ UNCHANGED <<count, down>>
    BY <1>19, Zenon DEF UploadMany
  <2>2. /\ up' \in Seq(Payloads) /\ (method # "Ping" => up' \in Seq(Messages))
        /\ held' \in Payloads \cup {Nil}
    BY <1>e, <2>1, Received DEF Take, Typed
  <2>3. /\ down' = down /\ count' \in Nat /\ server' \in {"recv", "done"}
        /\ status' # "none" <=> server' = "done"
    BY <1>19, <2>1, Received DEF UploadMany, UploadReply, Return, Typed
  <2>4. QED
    BY <1>19, <2>2, <2>3 DEF UploadMany, Typed, client
<1>20. CASE DoManyThingsHandler
  BY <1>20 DEF DoManyThingsHandler, StartLoop, client, writes, reads, local, Typed
<1>21. CASE EchoRecv
  BY <1>21, Received DEF EchoRecv, Take, Return, client, reads, Typed
<1>22. CASE EchoSend
  BY <1>22, <1>c, SendReturned DEF EchoSend, Typed, Put, Return, client, writes
<1>23. CASE SendMultipleHandler
  BY <1>23 DEF SendMultipleHandler, StartLoop, client, writes, reads, local, Typed
<1>24. CASE SendMultiple
  <2>1. PICK r \in RecvResults :
          /\ Take(r)
          /\ CASE r.err = "nil" -> UNCHANGED <<server, status, down>>
               [] r.err = "EOF" -> SendAndClose(Empty)
               [] OTHER         -> Return(r.err) /\ UNCHANGED down
    BY <1>24, Zenon DEF SendMultiple
  <2>2. up' \in Seq(Payloads) /\ (method # "Ping" => up' \in Seq(Messages))
    BY <1>e, <2>1, Received DEF Take, Typed
  <2>3. /\ down' \in Seq(Payloads) /\ (status' # "none" <=> server' = "done")
        /\ server' \in {"recv", "done"}
    BY <1>a, <1>h, <1>24, <2>1, Received DEF SendMultiple, Return, Typed
  <2>4. QED
    BY <1>24, <2>2, <2>3 DEF SendMultiple, Typed, client, local
<1>25. QED
  BY <1>1, <1>2, <1>3, <1>4, <1>5, <1>6, <1>7, <1>8, <1>9, <1>10, <1>11, <1>12, <1>13,
     <1>14, <1>15, <1>16, <1>17, <1>18, <1>19, <1>20, <1>21, <1>22, <1>23, <1>24
     DEF Next, Handler

\* A call that is not open has only been refused.
LEMMA UnopenedStep == Unopened /\ Next => Unopened'
<1> SUFFICES ASSUME Unopened, Next PROVE Unopened'
  OBVIOUS
<1>1. CASE Refused
  BY <1>1 DEF Refused, client, writes, reads, local, Unopened
<1>2. CASE CallUnary
  BY <1>2 DEF CallUnary, Invoke, SendMsg, client, Unopened
<1>3. CASE CallSend
  BY <1>3 DEF CallSend, Invoke, SendMsg, client, Unopened
<1>4. CASE CallDownloadMany
  BY <1>4 DEF CallDownloadMany, Invoke, SendMsg, client, Unopened
<1>5. CASE OpenUploadMany
  BY <1>5 DEF OpenUploadMany, NewStream, client, Unopened
<1>6. CASE OpenDoManyThings
  BY <1>6 DEF OpenDoManyThings, NewStream, client, Unopened
<1>7. CASE OpenSendMultiple
  BY <1>7 DEF OpenSendMultiple, NewStream, client, Unopened
<1>8. CASE Send
  BY <1>8 DEF Send, SendMsg, Open, client, Unopened
<1>9. CASE CloseSend
  BY <1>9 DEF CloseSend, Open, client, Unopened
<1>10. CASE RecvStream
  BY <1>10 DEF RecvStream, Open, client, Unopened
<1>11. CASE RecvReply
  BY <1>11 DEF RecvReply, client, Unopened
<1>12. CASE Cancel
  BY <1>12 DEF Cancel, Open, client, Unopened
<1>13. CASE PingHandler
  BY <1>13 DEF PingHandler, Decode, Return, Ping, SendAndClose, client, Unopened
<1>14. CASE ExchangeHandler
  BY <1>14 DEF ExchangeHandler, Decode, Return, Exchange, SendAndClose, client, Unopened
<1>15. CASE SendHandler
  BY <1>15 DEF SendHandler, Decode, Return, SendAny, SendAndClose, client, Unopened
<1>16. CASE DownloadManyHandler
  BY <1>16 DEF DownloadManyHandler, Decode, Return, client, Unopened
<1>17. CASE Download
  BY <1>17 DEF Download, Return, client, Unopened
<1>18. CASE UploadManyHandler
  BY <1>18 DEF UploadManyHandler, StartLoop, client, Unopened
<1>19. CASE UploadMany
  BY <1>19 DEF UploadMany, Return, UploadReply, SendAndClose, client, Unopened
<1>20. CASE DoManyThingsHandler
  BY <1>20 DEF DoManyThingsHandler, StartLoop, client, Unopened
<1>21. CASE EchoRecv
  BY <1>21 DEF EchoRecv, Return, client, Unopened
<1>22. CASE EchoSend
  BY <1>22 DEF EchoSend, Return, client, Unopened
<1>23. CASE SendMultipleHandler
  BY <1>23 DEF SendMultipleHandler, StartLoop, client, Unopened
<1>24. CASE SendMultiple
  BY <1>24 DEF SendMultiple, Return, SendAndClose, client, Unopened
<1>25. QED
  BY <1>1, <1>2, <1>3, <1>4, <1>5, <1>6, <1>7, <1>8, <1>9, <1>10, <1>11, <1>12, <1>13,
     <1>14, <1>15, <1>16, <1>17, <1>18, <1>19, <1>20, <1>21, <1>22, <1>23, <1>24
     DEF Next, Handler

\* The one request of a call stays accounted for.
LEMMA RequestedStep == Typed /\ Unopened /\ Requested /\ Next => Requested'
<1> SUFFICES ASSUME Typed, Unopened, Requested, Next PROVE Requested'
  OBVIOUS
<1>1. CASE Refused
  BY <1>1 DEF Refused, client, Requested
<1>2. CASE CallUnary
  BY <1>2 DEF CallUnary, Invoke, SendMsg, client, Typed, Unopened, Requested
<1>3. CASE CallSend
  BY <1>3 DEF CallSend, Invoke, SendMsg, client, Typed, Unopened, Requested
<1>4. CASE CallDownloadMany
  BY <1>4 DEF CallDownloadMany, Invoke, SendMsg, client, Typed, Unopened, Requested
<1>5. CASE OpenUploadMany
  BY <1>5 DEF OpenUploadMany, NewStream, client, Requested, Unary, OneRequest
<1>6. CASE OpenDoManyThings
  BY <1>6 DEF OpenDoManyThings, NewStream, client, Requested, Unary, OneRequest
<1>7. CASE OpenSendMultiple
  BY <1>7 DEF OpenSendMultiple, NewStream, client, Requested, Unary, OneRequest
<1>8. CASE Send
  BY <1>8 DEF Send, SendMsg, Open, client, Requested
<1>9. CASE CloseSend
  BY <1>9 DEF CloseSend, Open, client, Requested
<1>10. CASE RecvStream
  BY <1>10 DEF RecvStream, Open, client, writes, Requested
<1>11. CASE RecvReply
  BY <1>11 DEF RecvReply, client, writes, Requested
<1>12. CASE Cancel
  BY <1>12 DEF Cancel, Open, client, writes, Requested
<1>13. CASE PingHandler
  BY <1>13, MessagesAssumption, Received
     DEF PingHandler, Decode, Take, Return, Ping, SendAndClose, client, Typed,
         Requested, Methods, Payloads
<1>14. CASE ExchangeHandler
  BY <1>14, Received
     DEF ExchangeHandler, Decode, Take, Return, Exchange, SendAndClose, client,
         Requested
<1>15. CASE SendHandler
  <2>1. PICK r \in RecvResults :
          /\ Take(r)
          /\ r.err # "nil" => Return(r.err)
    BY <1>15, Zenon DEF SendHandler, Decode
  <2>2. /\ server = "start" /\ server' = "done"
        /\ UNCHANGED <<method, sent, half, outcome, cancelled>>
    BY <1>15 DEF SendHandler, Decode, SendAny, SendAndClose, Return, client
  <2>3. method = "Send"
    BY <1>15 DEF SendHandler, Decode
  <2>4. CASE half
    <3>1. up \in Seq(Payloads) /\ Len(up) = 1 /\ Len(sent) = 1
      BY <2>2, <2>3, <2>4 DEF Typed, Requested, OneRequest, Unary
    <3>2. up # <<>> /\ Tail(up) = <<>>
      BY <3>1, Sequence
    <3>3. up' = <<>> \/ (r.err = "Canceled" /\ Return(r.err))
      BY <2>1, <3>2, Received DEF Take
    <3>4. up' = <<>> \/ status' # "OK"
      BY <3>3 DEF Return
    <3>5. QED
      BY <2>2, <2>4, <3>1, <3>4 DEF Requested
  <2>5. CASE ~half
    BY <2>1, <2>2, <2>3, <2>5, Received
       DEF Take, Return, Typed, Requested, OneRequest, Unary
  <2>6. QED
    BY <2>4, <2>5 DEF Typed
<1>16. CASE DownloadManyHandler
  BY <1>16, Received DEF DownloadManyHandler, Decode, Take, Return, client, Requested
<1>17. CASE Download
  BY <1>17 DEF Download, Return, client, writes, Requested
<1>18. CASE UploadManyHandler
  BY <1>18 DEF UploadManyHandler, StartLoop, client, Requested, Unary, OneRequest
<1>19. CASE UploadMany
  BY <1>19 DEF UploadMany, Take, Return, UploadReply, SendAndClose, client, Requested
<1>20. CASE DoManyThingsHandler
  BY <1>20 DEF DoManyThingsHandler, StartLoop, client, Requested, Unary, OneRequest
<1>21. CASE EchoRecv
  BY <1>21 DEF EchoRecv, Take, Return, client, Requested
<1>22. CASE EchoSend
  BY <1>22 DEF EchoSend, Return, client, writes, Requested
<1>23. CASE SendMultipleHandler
  BY <1>23 DEF SendMultipleHandler, StartLoop, client, Requested, Unary, OneRequest
<1>24. CASE SendMultiple
  BY <1>24 DEF SendMultiple, Take, Return, SendAndClose, client, Requested
<1>25. QED
  BY <1>1, <1>2, <1>3, <1>4, <1>5, <1>6, <1>7, <1>8, <1>9, <1>10, <1>11, <1>12, <1>13,
     <1>14, <1>15, <1>16, <1>17, <1>18, <1>19, <1>20, <1>21, <1>22, <1>23, <1>24
     DEF Next, Handler

\* The echo loses and doubles nothing.
LEMMA EchoedStep == Typed /\ Unopened /\ Requested /\ Echoed /\ Next => Echoed'
<1> SUFFICES ASSUME Typed, Unopened, Requested, Echoed, Next PROVE Echoed'
  OBVIOUS
<1>a. InHand(held) \in Seq(Payloads)
  BY DEF InHand, Typed
<1>b. got \o down \in Seq(Payloads) /\ (got \o down) \o InHand(held) \in Seq(Payloads)
  BY <1>a DEF Typed
<1>1. CASE Refused
  BY <1>1 DEF Refused, client, writes, reads, local, Echoed, InHand
<1>2. CASE CallUnary
  BY <1>2 DEF CallUnary, Invoke, SendMsg, client, Echoed, InHand
<1>3. CASE CallSend
  BY <1>3 DEF CallSend, Invoke, SendMsg, client, Echoed, InHand
<1>4. CASE CallDownloadMany
  BY <1>4 DEF CallDownloadMany, Invoke, SendMsg, client, Echoed, InHand
<1>5. CASE OpenUploadMany
  BY <1>5 DEF OpenUploadMany, NewStream, client, Echoed, InHand
<1>6. CASE OpenDoManyThings
  BY <1>6 DEF OpenDoManyThings, NewStream, client, writes, reads, local, Echoed, InHand
<1>7. CASE OpenSendMultiple
  BY <1>7 DEF OpenSendMultiple, NewStream, client, Echoed, InHand
<1>8. CASE Send
  <2>1. PICK m \in Messages : SendMsg(m)
    BY <1>8 DEF Send
  <2>2. m \in Payloads
    BY DEF Payloads
  <2>3. UNCHANGED <<method, got, down, held, server>>
    BY <1>8 DEF Send, client, reads, local
  <2>4. CASE cancelled'
    BY <2>3, <2>4 DEF Echoed
  <2>5. CASE ~cancelled' /\ method = "DoManyThings"
    <3>1. up' = Append(up, m) /\ sent' = Append(sent, m) /\ ~cancelled
      BY <2>1, <2>5 DEF SendMsg
    <3>2. sent' = ((got \o down) \o InHand(held)) \o up'
      <4>1. PICK s : s = (got \o down) \o InHand(held)
        OBVIOUS
      <4>2. s \in Seq(Payloads) /\ up \in Seq(Payloads)
        BY <1>b, <4>1 DEF Typed
      <4>3. s \o Append(up, m) = Append(s \o up, m)
        BY <2>2, <4>2, ChainEnd
      <4>4. sent = s \o up
        BY <2>5, <3>1, <4>1 DEF Echoed
      <4>5. QED
        BY <3>1, <4>1, <4>3, <4>4
    <3>3. QED
      BY <2>3, <3>2 DEF Echoed
  <2>6. QED
    BY <2>3, <2>4, <2>5 DEF Echoed
<1>9. CASE CloseSend
  BY <1>9 DEF CloseSend, client, reads, local, Echoed, InHand
<1>10. CASE RecvStream
  <2>1. UNCHANGED <<method, sent, up, held, server, cancelled>>
    BY <1>10 DEF RecvStream, client, writes, local
  <2>2. got' \o down' = got \o down
    <3>1. down # <<>> => Append(got, Head(down)) \o Tail(down) = got \o down
      BY ChainGet DEF Typed
    <3>2. QED
      BY <1>10, <3>1 DEF RecvStream, reads
  <2>3. QED
    BY <2>1, <2>2 DEF Echoed
<1>11. CASE RecvReply
  BY <1>11 DEF RecvReply, client, Echoed, InHand, ServerStreams
<1>12. CASE Cancel
  BY <1>12 DEF Cancel, client, local, Echoed, InHand
<1>13. CASE PingHandler
  BY <1>13 DEF PingHandler, Decode, Return, Ping, client, Echoed, InHand
<1>14. CASE ExchangeHandler
  BY <1>14 DEF ExchangeHandler, Decode, Return, Exchange, client, Echoed, InHand
<1>15. CASE SendHandler
  BY <1>15 DEF SendHandler, Decode, Return, SendAny, client, Echoed, InHand
<1>16. CASE DownloadManyHandler
  BY <1>16 DEF DownloadManyHandler, Decode, Return, client, Echoed, InHand
<1>17. CASE Download
  BY <1>17 DEF Download, Return, client, Echoed, InHand
<1>18. CASE UploadManyHandler
  BY <1>18 DEF UploadManyHandler, StartLoop, client, Echoed, InHand
<1>19. CASE UploadMany
  BY <1>19 DEF UploadMany, Return, UploadReply, client, Echoed, InHand
<1>20. CASE DoManyThingsHandler
  BY <1>20
     DEF DoManyThingsHandler, StartLoop, client, writes, reads, local, Echoed, InHand
<1>21. CASE EchoRecv
  <2>1. PICK r \in RecvResults :
          /\ Take(r) /\ held' = r.m
          /\ r.err = "nil" => server' = "send"
          /\ r.err # "nil" => server' = "done"
    BY <1>21 DEF EchoRecv, Return
  <2>2. /\ UNCHANGED <<method, sent, got, down, cancelled>>
        /\ method = "DoManyThings" /\ server = "recv" /\ held = Nil
    BY <1>21 DEF EchoRecv, client, reads, Echoed
  <2>3. CASE r.err = "nil"
    <3>1. up # <<>> /\ r.m = Head(up) /\ up' = Tail(up) /\ Head(up) \in Payloads
      BY <2>1, <2>3, Received, Sequence DEF Take, Typed
    <3>2. InHand(held) = <<>> /\ InHand(held') = <<Head(up)>>
      BY <2>1, <2>2, <3>1, MessagesAssumption DEF InHand, Payloads
    <3>3. ((got \o down) \o InHand(held)) \o up = ((got \o down) \o InHand(held')) \o up'
      BY <1>b, <3>1, <3>2, ChainTake DEF Typed
    <3>4. QED
      BY <2>1, <2>2, <2>3, <3>3 DEF Echoed
  <2>4. CASE r.err # "nil"
    <3>1. held' = Nil /\ up' = up
      BY <2>1, <2>4, Received DEF Take
    <3>2. QED
      BY <2>1, <2>2, <2>4, <3>1 DEF Echoed
  <2>5. QED
    BY <2>3, <2>4
<1>22. CASE EchoSend
  <2>1. PICK err \in SendResults :
          /\ Put(held, err)
          /\ err = "nil" => server' = "recv"
          /\ err # "nil" => server' = "done"
    BY <1>22 DEF EchoSend, Return
  <2>2. /\ UNCHANGED <<method, sent, up, got, cancelled>> /\ held' = Nil
        /\ method = "DoManyThings" /\ server = "send" /\ held \in Payloads /\ held # Nil
    BY <1>22, MessagesAssumption DEF EchoSend, client, writes, Typed, Payloads
  <2>3. CASE err = "nil"
    <3>1. down' = Append(down, held) /\ InHand(held) = <<held>> /\ InHand(held') = <<>>
      BY <2>1, <2>2, <2>3 DEF Put, InHand
    <3>2. ((got \o down) \o InHand(held)) \o up = ((got \o down') \o InHand(held')) \o up
      <4>1. (got \o down) \o <<held>> = (got \o Append(down, held)) \o <<>>
        BY <2>2, ChainPut DEF Typed
      <4>2. QED
        BY <3>1, <4>1
    <3>3. QED
      BY <2>1, <2>2, <2>3, <3>2 DEF Echoed
  <2>4. CASE err # "nil"
    <3>1. cancelled'
      BY <2>1, <2>2, <2>4, SendReturned
    <3>2. QED
      BY <2>1, <2>2, <2>4, <3>1 DEF Echoed
  <2>5. QED
    BY <2>3, <2>4
<1>23. CASE SendMultipleHandler
  BY <1>23 DEF SendMultipleHandler, StartLoop, client, Echoed, InHand
<1>24. CASE SendMultiple
  BY <1>24 DEF SendMultiple, Return, client, Echoed, InHand
<1>25. QED
  BY <1>1, <1>2, <1>3, <1>4, <1>5, <1>6, <1>7, <1>8, <1>9, <1>10, <1>11, <1>12, <1>13,
     <1>14, <1>15, <1>16, <1>17, <1>18, <1>19, <1>20, <1>21, <1>22, <1>23, <1>24
     DEF Next, Handler

\* The copies are counted.
LEMMA DownloadedStep == Typed /\ Unopened /\ Requested /\ Downloaded /\ Next => Downloaded'
<1> SUFFICES ASSUME Typed, Unopened, Requested, Downloaded, Next PROVE Downloaded'
  OBVIOUS
<1>1. CASE Refused
  BY <1>1 DEF Refused, client, writes, Unopened, Downloaded
<1>2. CASE CallUnary
  BY <1>2 DEF CallUnary, Invoke, SendMsg, client, Downloaded
<1>3. CASE CallSend
  BY <1>3 DEF CallSend, Invoke, SendMsg, client, Downloaded
<1>4. CASE CallDownloadMany
  BY <1>4
     DEF CallDownloadMany, Invoke, SendMsg, client, reads, local, Typed, Unopened,
         Downloaded, Inputs
<1>5. CASE OpenUploadMany
  BY <1>5 DEF OpenUploadMany, NewStream, client, Downloaded
<1>6. CASE OpenDoManyThings
  BY <1>6 DEF OpenDoManyThings, NewStream, client, Downloaded
<1>7. CASE OpenSendMultiple
  BY <1>7 DEF OpenSendMultiple, NewStream, client, Downloaded
<1>8. CASE Send
  BY <1>8 DEF Send, SendMsg, client, Downloaded
<1>9. CASE CloseSend
  BY <1>9 DEF CloseSend, Open, client, Requested, Downloaded, OneRequest
<1>10. CASE RecvStream
  <2> SUFFICES ASSUME method = "DownloadMany", half PROVE Downloaded'
    BY <1>10 DEF RecvStream, client, writes, Downloaded
  <2>1. UNCHANGED <<method, sent, half, held, count, server, status>>
    BY <1>10 DEF RecvStream, client, writes, local
  <2>2. CASE down # <<>> /\ got' = Append(got, Head(down)) /\ down' = Tail(down)
             /\ UNCHANGED outcome
    <3>1. Len(got') + Len(down') = Len(got) + Len(down)
      BY <2>2 DEF Typed
    <3>2. /\ \A i \in 1 .. Len(got') : got'[i] = sent[1]
          /\ \A i \in 1 .. Len(down') : down'[i] = sent[1]
      <4>1. Head(down) = sent[1]
        <5>1. 1 \in 1 .. Len(down) /\ Head(down) = down[1]
          BY <2>2 DEF Typed
        <5>2. QED
          BY <5>1 DEF Downloaded
      <4>2. \A i \in 1 .. Len(got') : got'[i] = got[i] \/ got'[i] = sent[1]
        BY <2>2, <4>1 DEF Typed
      <4>3. \A i \in 1 .. Len(got') : i \in 1 .. Len(got) \/ got'[i] = sent[1]
        BY <2>2, <4>1 DEF Typed
      <4>4. \A i \in 1 .. Len(down') : i + 1 \in 1 .. Len(down) /\ down'[i] = down[i + 1]
        BY <2>2 DEF Typed
      <4>5. QED
        BY <4>2, <4>3, <4>4 DEF Downloaded
    <3>3. server # "start" /\ outcome # "OK"
      BY <1>10, <2>2 DEF RecvStream, Open, Downloaded
    <3>4. QED
      BY <2>1, <2>2, <3>1, <3>2, <3>3 DEF Downloaded
  <2>3. CASE down = <<>> /\ outcome' = status /\ UNCHANGED reads
    BY <2>1, <2>3 DEF Downloaded, reads
  <2>4. QED
    BY <1>10, <2>2, <2>3 DEF RecvStream
<1>11. CASE RecvReply
  BY <1>11 DEF RecvReply, client, Typed, Downloaded, Methods, Unary, ClientStreams
<1>12. CASE Cancel
  BY <1>12 DEF Cancel, client, writes, reads, local, Downloaded
<1>13. CASE PingHandler
  BY <1>13 DEF PingHandler, Decode, Return, Ping, client, Downloaded
<1>14. CASE ExchangeHandler
  BY <1>14 DEF ExchangeHandler, Decode, Return, Exchange, client, Downloaded
<1>15. CASE SendHandler
  BY <1>15 DEF SendHandler, Decode, Return, SendAny, client, Downloaded
<1>16. CASE DownloadManyHandler
  <2> SUFFICES ASSUME half PROVE Downloaded'
    BY <1>16 DEF DownloadManyHandler, Decode, Downloaded
  <2>1. PICK r \in RecvResults :
          /\ IF r.err = "nil"
             THEN server' = "send" /\ held' = r.m /\ UNCHANGED <<down, status>>
             ELSE Return(r.err) /\ UNCHANGED <<down, held, back>>
    BY <1>16, Zenon DEF DownloadManyHandler, Decode
  <2>2. /\ UNCHANGED <<method, sent, half, got, outcome, count>>
        /\ method = "DownloadMany" /\ server = "start"
    BY <1>16 DEF DownloadManyHandler, Decode, client
  <2>3. /\ up = sent /\ Len(sent) = 1 /\ sent[1] \in Messages
        /\ got = <<>> /\ down = <<>> /\ count = 0 /\ outcome # "OK"
    BY <2>2 DEF Requested, OneRequest, Downloaded, Typed
  <2>4. down' = <<>> /\ server' # "recv" /\ server' # "start"
    BY <2>1, <2>3 DEF Return
  <2>5. 0 <= Copies(sent[1])
    BY <2>3, MessagesAssumption DEF Copies, GetNeededNum_1
  <2>6. CASE r.err = "nil"
    <3>1. r.m = sent[1]
      BY <2>3, <2>6, Received DEF Typed
    <3>2. server' = "send" /\ held' = sent[1] /\ status' = status /\ status # "OK"
      BY <2>1, <2>2, <2>6, <3>1 DEF Typed
    <3>3. Len(got') + Len(down') = 0
      BY <2>2, <2>3, <2>4
    <3>4. QED
      BY <2>2, <2>3, <2>4, <2>5, <3>2, <3>3 DEF Downloaded
  <2>7. CASE r.err # "nil"
    <3>1. server' = "done" /\ status' # "OK"
      BY <2>1, <2>7, Received DEF Return
    <3>2. QED
      BY <2>2, <2>3, <2>4, <3>1 DEF Downloaded
  <2>8. QED
    BY <2>6, <2>7
<1>17. CASE Download
  <2> SUFFICES ASSUME half PROVE Downloaded'
    BY <1>17 DEF Download, writes, Downloaded
  <2>1. /\ UNCHANGED <<method, sent, half, got, outcome, held>>
        /\ method = "DownloadMany" /\ server = "send"
    BY <1>17 DEF Download, client, writes
  <2>2. /\ sent[1] \in Messages /\ held = sent[1] /\ Len(got) + Len(down) = count
        /\ count <= Copies(sent[1]) /\ status = "none" /\ outcome # "OK"
    BY <2>1 DEF Downloaded, Typed
  <2>3. PICK n : n = GetNeededNum_1(sent[1])
    OBVIOUS
  <2>4. n \in Int /\ Copies(sent[1]) = IF n < 0 THEN 0 ELSE n
    BY <2>2, <2>3, MessagesAssumption DEF Copies, GetNeededNum_1
  <2>5. CASE count < n /\ Put(held, "nil") /\ count' = count + 1 /\ UNCHANGED <<server, status>>
    <3>1. down' = Append(down, sent[1])
      BY <2>2, <2>5 DEF Put
    <3>2. Len(down') = Len(down) + 1 /\ \A i \in 1 .. Len(down') : down'[i] = sent[1]
      BY <2>1, <3>1 DEF Downloaded, Typed
    <3>3. Len(got') + Len(down') = count' /\ count' <= Copies(sent[1])
      BY <2>1, <2>2, <2>4, <2>5, <3>2 DEF Typed
    <3>4. QED
      BY <2>1, <2>2, <2>5, <3>2, <3>3 DEF Downloaded
  <2>6. CASE count < n /\ down' = down /\ Return("Canceled")
    BY <2>1, <2>2, <2>6 DEF Downloaded, Return
  <2>7. CASE ~(count < n) /\ Return("nil") /\ UNCHANGED down
    <3>1. count = Copies(sent[1])
      BY <2>2, <2>4, <2>7 DEF Typed
    <3>2. QED
      BY <2>1, <2>2, <2>7, <3>1 DEF Downloaded, Return
  <2>8. QED
    <3>1. CASE count < n
      <4>1. PICK err \in SendResults :
              /\ Put(held, err)
              /\ IF err = "nil" THEN count' = count + 1 /\ UNCHANGED <<server, status>>
                 ELSE Return(err) /\ UNCHANGED count
        BY <1>17, <2>2, <2>3, <3>1 DEF Download
      <4>2. err = "nil" \/ err = "Canceled"
        BY SendReturned
      <4>3. QED
        BY <2>5, <2>6, <3>1, <4>1, <4>2 DEF Put
    <3>2. CASE ~(count < n)
      BY <1>17, <2>2, <2>3, <2>7, <3>2 DEF Download
    <3>3. QED
      BY <3>1, <3>2
<1>18. CASE UploadManyHandler
  BY <1>18 DEF UploadManyHandler, StartLoop, client, Downloaded
<1>19. CASE UploadMany
  BY <1>19 DEF UploadMany, Return, UploadReply, client, Downloaded
<1>20. CASE DoManyThingsHandler
  BY <1>20 DEF DoManyThingsHandler, StartLoop, client, Downloaded
<1>21. CASE EchoRecv
  BY <1>21 DEF EchoRecv, Return, client, Downloaded
<1>22. CASE EchoSend
  BY <1>22 DEF EchoSend, Return, client, Downloaded
<1>23. CASE SendMultipleHandler
  BY <1>23 DEF SendMultipleHandler, StartLoop, client, Downloaded
<1>24. CASE SendMultiple
  BY <1>24 DEF SendMultiple, Return, client, Downloaded
<1>25. QED
  BY <1>1, <1>2, <1>3, <1>4, <1>5, <1>6, <1>7, <1>8, <1>9, <1>10, <1>11, <1>12, <1>13,
     <1>14, <1>15, <1>16, <1>17, <1>18, <1>19, <1>20, <1>21, <1>22, <1>23, <1>24
     DEF Next, Handler

\* No step acknowledges a request it has not read in full.
LEMMA AcknowledgedStep ==
  Typed /\ Unopened /\ Requested /\ OKMeansAllRead /\ Next => OKMeansAllRead'
<1> SUFFICES ASSUME Typed, Unopened, Requested, OKMeansAllRead, Next PROVE OKMeansAllRead'
  OBVIOUS
<1>1. CASE Refused
  BY <1>1 DEF Refused, client, Typed, OKMeansAllRead
<1>2. CASE CallUnary
  BY <1>2 DEF CallUnary, Invoke, SendMsg, client, Typed, OKMeansAllRead
<1>3. CASE CallSend
  BY <1>3 DEF CallSend, Invoke, SendMsg, client, Typed, OKMeansAllRead
<1>4. CASE CallDownloadMany
  BY <1>4 DEF CallDownloadMany, Invoke, SendMsg, client, Typed, OKMeansAllRead
<1>5. CASE OpenUploadMany
  BY <1>5 DEF OpenUploadMany, NewStream, client, Typed, OKMeansAllRead
<1>6. CASE OpenDoManyThings
  BY <1>6 DEF OpenDoManyThings, NewStream, client, Typed, OKMeansAllRead
<1>7. CASE OpenSendMultiple
  BY <1>7 DEF OpenSendMultiple, NewStream, client, Typed, OKMeansAllRead
<1>8. CASE Send
  BY <1>8 DEF Send, SendMsg, client, OKMeansAllRead
<1>9. CASE CloseSend
  BY <1>9 DEF CloseSend, client, OKMeansAllRead
<1>10. CASE RecvStream
  BY <1>10 DEF RecvStream, client, writes, OKMeansAllRead
<1>11. CASE RecvReply
  BY <1>11 DEF RecvReply, client, writes, OKMeansAllRead
<1>12. CASE Cancel
  BY <1>12 DEF Cancel, client, writes, OKMeansAllRead
<1>13. CASE PingHandler
  BY <1>13, Received, SendReturned
     DEF PingHandler, Decode, Take, Return, Ping, client, Requested, OKMeansAllRead,
         Unary, OneRequest
<1>14. CASE ExchangeHandler
  BY <1>14, MessagesAssumption, Received
     DEF ExchangeHandler, Decode, Take, Return, Exchange, client, Typed, Requested,
         OKMeansAllRead, Unary, OneRequest
<1>15. CASE SendHandler
  BY <1>15, Received, SendReturned
     DEF SendHandler, Decode, Take, Return, SendAny, client, Requested, OKMeansAllRead,
         Unary, OneRequest, Payloads
<1>16. CASE DownloadManyHandler
  BY <1>16, Received DEF DownloadManyHandler, Decode, Return, client, OKMeansAllRead
<1>17. CASE Download
  BY <1>17 DEF Download, Return, client, writes, Requested, OKMeansAllRead, OneRequest
<1>18. CASE UploadManyHandler
  BY <1>18 DEF UploadManyHandler, StartLoop, client, Typed, OKMeansAllRead
<1>19. CASE UploadMany
  BY <1>19, Received DEF UploadMany, Return, UploadReply, client, OKMeansAllRead
<1>20. CASE DoManyThingsHandler
  BY <1>20 DEF DoManyThingsHandler, StartLoop, client, Typed, OKMeansAllRead
<1>21. CASE EchoRecv
  BY <1>21, Received DEF EchoRecv, Take, Return, client, OKMeansAllRead
<1>22. CASE EchoSend
  BY <1>22, SendReturned DEF EchoSend, Return, client, Typed, OKMeansAllRead
<1>23. CASE SendMultipleHandler
  BY <1>23 DEF SendMultipleHandler, StartLoop, client, Typed, OKMeansAllRead
<1>24. CASE SendMultiple
  BY <1>24, Received DEF SendMultiple, Take, Return, client, OKMeansAllRead
<1>25. QED
  BY <1>1, <1>2, <1>3, <1>4, <1>5, <1>6, <1>7, <1>8, <1>9, <1>10, <1>11, <1>12, <1>13,
     <1>14, <1>15, <1>16, <1>17, <1>18, <1>19, <1>20, <1>21, <1>22, <1>23, <1>24
     DEF Next, Handler

-----------------------------------------------------------------------------
\* The invariant, from its parts.
LEMMA ServedInvariant == Spec => []Served
<1>1. Init => Served
  <2> SUFFICES ASSUME Init PROVE Served
    OBVIOUS
  <2>1. Typed
    <3>1. <<>> \in Seq(Payloads) /\ <<>> \in Seq(Messages)
      OBVIOUS
    <3>2. QED
      BY <3>1 DEF Init, Typed
  <2>2. Unopened /\ Requested /\ Downloaded /\ OKMeansAllRead
    BY DEF Init, Unopened, Requested, Downloaded, OKMeansAllRead
  <2>3. Echoed
    <3>1. ((<<>> \o <<>>) \o <<>>) \o <<>> = <<>>
      OBVIOUS
    <3>2. QED
      BY <3>1 DEF Init, Echoed, InHand
  <2>4. QED
    BY <2>1, <2>2, <2>3 DEF Served
<1>2. Served /\ [Next]_vars => Served'
  <2>1. Served /\ Next => Served'
    BY TypedStep, UnopenedStep, RequestedStep, AcknowledgedStep, EchoedStep,
       DownloadedStep DEF Served
  <2>2. Served /\ UNCHANGED vars => Served'
    BY DEF Served, Typed, Unopened, Requested, Echoed, Downloaded, OKMeansAllRead,
       vars, client, writes, reads, local
  <2>3. QED
    BY <2>1, <2>2
<1>3. QED
  BY <1>1, <1>2, PTL DEF Spec

\* No handler answers OK while the client may still send or before it has read
\* every message, for any messages and any windows.
THEOREM AcknowledgedMeansRead == Spec => []OKMeansAllRead
BY ServedInvariant, PTL DEF Served

\* DoManyThings echoes exactly what it is sent, DownloadMany returns exactly
\* the copies it is asked for, for any messages and any windows.
THEOREM RepliesComplete == Spec => []RepliesAreExact
<1>1. Served => RepliesAreExact
  <2> SUFFICES ASSUME Served PROVE RepliesAreExact
    OBVIOUS
  <2>1. method = "DoManyThings" /\ ~cancelled =>
          sent = got \o down \o (IF held = Nil THEN <<>> ELSE <<held>>) \o up
    BY DEF Served, Echoed, InHand
  <2>2. ASSUME method = "DownloadMany", outcome = "OK"
        PROVE  /\ \A i \in DOMAIN got : got[i] = sent[1]
               /\ LET n == GetNeededNum_1(sent[1])
                  IN  Len(got) = IF n < 0 THEN 0 ELSE n
    <3>1. half
      BY <2>2 DEF Served, Unopened, Requested, OneRequest
    <3>2. /\ \A i \in 1 .. Len(got) : got[i] = sent[1]
          /\ Len(got) + Len(down) = Copies(sent[1]) /\ down = <<>>
      BY <2>2, <3>1 DEF Served, Downloaded
    <3>3. DOMAIN got = 1 .. Len(got) /\ Len(got) + Len(down) = Len(got)
      BY <3>2 DEF Served, Typed
    <3>4. QED
      BY <3>2, <3>3 DEF Copies
  <2>3. QED
    BY <2>1, <2>2 DEF RepliesAreExact
<1>2. QED
  BY <1>1, ServedInvariant, PTL
=============================================================================
