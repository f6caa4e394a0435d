------------------------------ MODULE Shutdown ------------------------------
(***************************************************************************)
(* The plugin and OPA's decision log uploader while the process shuts      *)
(* down.  plugins.Manager.Stop stops plugins in the order in which they    *)
(* were registered, the decision logger before every custom plugin: the    *)
(* logger flushes and stops while the authorization server still answers,  *)
(* and grpc.Server.Stop then closes the connections without waiting for    *)
(* the handlers in flight (internal/internal.go, Stop).                    *)
(*                                                                         *)
(* A call is reduced to where it logs and whether it is answered: ExtAuthz *)
(* has the rest.  Its event is the call itself.  By default, and here, the *)
(* buffer has no limit, no decision is rate limited, and there is no cache *)
(* of non-deterministic builtins, which an event that cannot be encoded    *)
(* would lose for a second try.  How large events and chunks are is left   *)
(* to chance: a chunk may be full at any event, and it may turn out,       *)
(* compressed, to be larger than the upload limit.                         *)
(***************************************************************************)
EXTENDS FiniteSets

CONSTANT Calls      \* the Check calls, one event each

VARIABLES
  call,       \* "idle", "checking", "logging", "pushing", "reply", "answered", "failed"
  carry,      \* the full chunk a call took out of the encoder and must buffer
  transport,  \* the connections of the gRPC server: "open", "closed"
  mgr,        \* Manager.Stop: "running", "flushing", "logs", "envoy", "stopped", "exited"
  grace,      \* a graceful shutdown period is configured
  expired,    \* it has passed
  enc,        \* events in the chunk encoder
  stuck,      \* its writer is closed and its events cannot be decoded again
  buffer,     \* events in complete chunks waiting for upload
  loop,       \* the uploader: "wait", "upload", "exited"
  periodic,   \* the events it is uploading
  flusher,    \* the goroutine of flushDecisions: "off", "swap", "upload", "done"
  flushing,   \* the events it is uploading
  uploaded,   \* events the service has
  logged,     \* history: events accepted by the logger
  late,       \* history: events a call put in, or the uploader put back, after Stop
              \* was called
  retried,    \* history: events of an upload that failed
  discarded,  \* history: events that went with an encoder whose chunk was too large
  flushed     \* history: flushDecisions said "All decisions in buffer uploaded."

calls == <<call, carry>>
queue == <<enc, stuck, buffer>>
uploader == <<loop, periodic>>
flush == <<flusher, flushing>>
history == <<logged, late, retried, discarded>>
vars == <<calls, transport, mgr, grace, expired, queue, uploader, flush, uploaded,
          history, flushed>>

Init ==
  /\ call = [c \in Calls |-> "idle"] /\ carry = [c \in Calls |-> {}]
  /\ transport = "open" /\ mgr = "running"
  /\ grace \in BOOLEAN /\ expired = FALSE
  /\ enc = {} /\ stuck = FALSE /\ buffer = {}
  /\ loop = "wait" /\ periodic = {}
  /\ flusher = "off" /\ flushing = {}
  /\ uploaded = {} /\ flushed = FALSE
  /\ logged = {} /\ late = {} /\ retried = {} /\ discarded = {}

\* Events enter encoder or buffer from a call or the uploader.
Enter(s) == late' = IF mgr = "running" THEN late ELSE late \cup s

-----------------------------------------------------------------------------
(***************************************************************************)
(* Calls.                                                                  *)
(***************************************************************************)
Begin(c) ==
  /\ call[c] = "idle" /\ transport = "open"
  /\ call' = [call EXCEPT ![c] = "checking"]
  /\ UNCHANGED <<carry, transport, mgr, grace, expired, queue, uploader, flush,
                 uploaded, history, flushed>>

\* check(): every return goes through stop(), which logs, but for the two
\* that come before there is a transaction.
Check(c) ==
  /\ call[c] = "checking"
  /\ \E s \in {"logging", "failed"} : call' = [call EXCEPT ![c] = s]
  /\ UNCHANGED <<carry, transport, mgr, grace, expired, queue, uploader, flush,
                 uploaded, history, flushed>>

\* Log without an event: it returns an error, and then the answer is one; or
\* it returns nil, because the drop policy says so, because the drop or the
\* mask policy fails, or because the event cannot be encoded.
LogNothing(c) ==
  /\ call[c] = "logging"
  /\ \E s \in {"failed", "reply"} : call' = [call EXCEPT ![c] = s]
  /\ UNCHANGED <<carry, transport, mgr, grace, expired, queue, uploader, flush,
                 uploaded, history, flushed>>

\* The event is handed to the uploader's goroutine instead of to the encoder.
M_Encode_ThroughLoop(c) ==
  /\ call[c] = "logging" /\ loop # "exited"
  /\ enc' = enc \cup {c} /\ logged' = logged \cup {c}
  /\ Enter({c})
  /\ call' = [call EXCEPT ![c] = "reply"]
  /\ UNCHANGED <<carry, transport, mgr, grace, expired, stuck, buffer, uploader, flush,
                 uploaded, retried, discarded, flushed>>

\* The chunk is full: reset() returns the events of earlier calls, with which
\* the call leaves, and the new event is the first of the next chunk.  Of a
\* chunk larger than the limit reset() keeps a rest, encoded again.
Full(c) ==
  /\ \E rest \in SUBSET enc :
       /\ enc' = rest \cup {c}
       /\ carry' = [carry EXCEPT ![c] = enc \ rest]
  /\ call' = [call EXCEPT ![c] = "pushing"]
  /\ logged' = logged \cup {c}
  /\ Enter({c})
  /\ UNCHANGED <<stuck, discarded>>

\* The chunk is larger than the limit and reset() fails, and so does the call's
\* event: an event with an error cannot be decoded (EventV1.Error), and the
\* encoder stays behind closed; or an event has grown when it is encoded again,
\* and the encoder is left with those before it.
TooLarge(c) ==
  /\ enc # {}
  /\ \/ stuck' = TRUE /\ UNCHANGED <<enc, discarded>>
     \/ /\ \E kept \in SUBSET enc : enc' = kept /\ discarded' = discarded \cup (enc \ kept)
        /\ UNCHANGED stuck
  /\ call' = [call EXCEPT ![c] = "reply"]
  /\ UNCHANGED <<carry, logged, late>>

\* encodeEvent, under p.mtx.  A closed encoder takes nothing more.
Encode(c) ==
  /\ call[c] = "logging"
  /\ \/ /\ stuck
        /\ call' = [call EXCEPT ![c] = "reply"]
        /\ UNCHANGED <<carry, enc, stuck, logged, late, discarded>>
     \/ /\ ~stuck
        /\ enc' = enc \cup {c} /\ logged' = logged \cup {c}
        /\ Enter({c})
        /\ call' = [call EXCEPT ![c] = "reply"]
        /\ UNCHANGED <<carry, stuck, discarded>>
     \/ ~stuck /\ Full(c)
     \/ ~stuck /\ TooLarge(c)
  /\ UNCHANGED <<transport, mgr, grace, expired, buffer, uploader, flush, uploaded,
                 retried, flushed>>

\* encodeAndBufferEvent takes p.mtx again for the chunk.
Push(c) ==
  /\ call[c] = "pushing"
  /\ buffer' = buffer \cup carry[c]
  /\ Enter(carry[c])
  /\ carry' = [carry EXCEPT ![c] = {}]
  /\ call' = [call EXCEPT ![c] = "reply"]
  /\ UNCHANGED <<transport, mgr, grace, expired, enc, stuck, uploader, flush, uploaded,
                 logged, retried, discarded, flushed>>

\* The handler returns: Envoy gets the answer while there is a connection.
Reply(c) ==
  /\ call[c] = "reply"
  /\ \/ transport = "open" /\ call' = [call EXCEPT ![c] = "answered"]
     \/ call' = [call EXCEPT ![c] = "failed"]
  /\ UNCHANGED <<carry, transport, mgr, grace, expired, queue, uploader, flush,
                 uploaded, history, flushed>>

-----------------------------------------------------------------------------
(***************************************************************************)
(* oneShot: a goroutine takes encoder and buffer, uploads chunk by chunk   *)
(* and puts back what failed.  Chunks that failed may have arrived.        *)
(***************************************************************************)
\* Flush returns the encoder's events, but for a rest that reset() encoded
\* again and that goes with the old encoder.
Take(taken, rest) ==
  /\ ~stuck
  /\ taken = (enc \ rest) \cup buffer
  /\ enc' = {} /\ buffer' = {} /\ UNCHANGED stuck
  /\ discarded' = discarded \cup rest

\* Flush fails, and the buffer that was taken goes with the encoder.
Drop ==
  /\ enc # {}
  /\ enc' = {} /\ buffer' = {} /\ stuck' = FALSE
  /\ discarded' = discarded \cup enc \cup buffer

\* Nothing is put back.
M_Deliver_DropsFailed(batch, failed) ==
  /\ \E arrived \in SUBSET failed :
       uploaded' = uploaded \cup (batch \ failed) \cup arrived
  /\ retried' = retried \cup failed
  /\ UNCHANGED buffer

\* Everything is put back when something failed.
M_Deliver_RequeuesAll(batch, failed) ==
  /\ \E arrived \in SUBSET failed :
       uploaded' = uploaded \cup (batch \ failed) \cup arrived
  /\ retried' = retried \cup failed
  /\ buffer' = buffer \cup {e \in batch : failed # {}}

Deliver(batch, failed) ==
  /\ \E arrived \in SUBSET failed :
       uploaded' = uploaded \cup (batch \ failed) \cup arrived
  /\ retried' = retried \cup failed
  /\ buffer' = buffer \cup failed

\* An error of Flush ends oneShot; the loop waits and tries again.
LoopSwap ==
  /\ loop = "wait"
  /\ \/ loop' = "upload" /\ \E rest \in SUBSET enc : Take(periodic', rest)
     \/ Drop /\ UNCHANGED uploader
  /\ UNCHANGED <<calls, transport, mgr, grace, expired, flush, uploaded, logged, late,
                 retried, flushed>>

LoopUpload ==
  /\ loop = "upload"
  /\ \E failed \in SUBSET periodic : Deliver(periodic, failed) /\ Enter(failed)
  /\ loop' = "wait" /\ periodic' = {}
  /\ UNCHANGED <<calls, transport, mgr, grace, expired, enc, stuck, flush, logged,
                 discarded, flushed>>

-----------------------------------------------------------------------------
(***************************************************************************)
(* Manager.Stop.                                                           *)
(***************************************************************************)
\* logs.Plugin.Stop is called; without a deadline it does not flush.
Stop ==
  /\ mgr = "running"
  /\ IF grace THEN mgr' = "flushing" /\ flusher' = "swap"
              ELSE mgr' = "logs" /\ UNCHANGED flusher
  /\ UNCHANGED <<calls, transport, grace, expired, queue, uploader, flushing, uploaded,
                 history, flushed>>

Expire ==
  /\ mgr # "running" /\ grace /\ ~expired
  /\ expired' = TRUE
  /\ UNCHANGED <<calls, transport, mgr, grace, queue, uploader, flush, uploaded,
                 history, flushed>>

\* for ctx.Err() == nil: an error of Flush is an attempt that failed.
FlushSwap ==
  /\ flusher = "swap"
  /\ \/ expired /\ flusher' = "done" /\ UNCHANGED <<flushing, queue, discarded>>
     \/ /\ ~expired /\ flusher' = "upload"
        /\ \E rest \in SUBSET enc : Take(flushing', rest)
     \/ ~expired /\ Drop /\ UNCHANGED flush
  /\ UNCHANGED <<calls, transport, mgr, grace, expired, uploader, uploaded, logged, late,
                 retried, flushed>>

\* One attempt, whatever comes of it.
M_FlushUpload_Once ==
  /\ flusher = "upload"
  /\ \E failed \in SUBSET flushing : Deliver(flushing, failed)
  /\ flushing' = {} /\ flusher' = "done"
  /\ IF mgr = "flushing" THEN mgr' = "logs" /\ flushed' = TRUE
                         ELSE UNCHANGED <<mgr, flushed>>
  /\ UNCHANGED <<calls, transport, grace, expired, enc, stuck, uploader, logged, late,
                 discarded>>

\* All uploaded, which flushDecisions hears unless it has given up; or again.
FlushUpload ==
  /\ flusher = "upload"
  /\ flushing' = {}
  /\ \E failed \in SUBSET flushing :
       /\ Deliver(flushing, failed)
       /\ \/ /\ failed = {}
             /\ flusher' = "done"
             /\ IF mgr = "flushing" THEN mgr' = "logs" /\ flushed' = TRUE
                                    ELSE UNCHANGED <<mgr, flushed>>
          \/ /\ failed # {}
             /\ flusher' = "swap"
             /\ UNCHANGED <<mgr, flushed>>
  /\ UNCHANGED <<calls, transport, grace, expired, enc, stuck, uploader, logged, late,
                 discarded>>

FlushExpires ==
  /\ mgr = "flushing" /\ expired
  /\ mgr' = "logs"
  /\ UNCHANGED <<calls, transport, grace, expired, queue, uploader, flush, uploaded,
                 history, flushed>>

\* The uploader exits when there is nothing left to upload.
M_StopLoop_WhenEmpty ==
  /\ mgr = "logs" /\ loop = "wait"
  /\ enc = {} /\ buffer = {}
  /\ loop' = "exited"
  /\ mgr' = "envoy"
  /\ UNCHANGED <<calls, transport, grace, expired, queue, periodic, flush, uploaded,
                 history, flushed>>

\* p.stop <- done: the uploader takes it when it is not uploading.
StopLoop ==
  /\ mgr = "logs" /\ loop = "wait"
  /\ loop' = "exited"
  /\ mgr' = "envoy"
  /\ UNCHANGED <<calls, transport, grace, expired, queue, periodic, flush, uploaded,
                 history, flushed>>

\* Stop of this plugin: server.Stop closes the connections, which cancels the
\* contexts of their calls, and does not wait for the handlers.
StopEnvoy ==
  /\ mgr = "envoy"
  /\ transport' = "closed"
  /\ mgr' = "stopped"
  /\ UNCHANGED <<calls, grace, expired, queue, uploader, flush, uploaded, history,
                 flushed>>

\* The process ends some time after Manager.Stop has returned.
Exit ==
  /\ mgr = "stopped"
  /\ mgr' = "exited"
  /\ UNCHANGED <<calls, transport, grace, expired, queue, uploader, flush, uploaded,
                 history, flushed>>

-----------------------------------------------------------------------------
CallStep(c) == Check(c) \/ Encode(c) \/ Push(c) \/ Reply(c)

FlushStep == FlushSwap \/ FlushUpload

Next ==
  /\ mgr # "exited"
  /\ \/ \E c \in Calls : Begin(c) \/ CallStep(c) \/ LogNothing(c)
     \/ LoopSwap \/ LoopUpload
     \/ Stop \/ Expire \/ FlushStep \/ FlushExpires \/ StopLoop \/ StopEnvoy \/ Exit

(***************************************************************************)
(* Goroutines run, an upload returns (the client has a timeout), the grace *)
(* period passes, and the select of the uploader, which chooses at random  *)
(* among what is ready, does not pass over p.stop for ever.  Nobody must   *)
(* call Stop, no log needs to fail, and a process need not end when Stop   *)
(* has returned.                                                           *)
(***************************************************************************)
Alive == mgr # "exited"

Fairness ==
  /\ \A c \in Calls : WF_vars(Alive /\ CallStep(c))
  /\ WF_vars(Alive /\ LoopUpload) /\ WF_vars(Alive /\ FlushStep)
  /\ WF_vars(Alive /\ Expire) /\ WF_vars(Alive /\ FlushExpires)
  /\ SF_vars(Alive /\ StopLoop) /\ WF_vars(Alive /\ StopEnvoy)

Spec == Init /\ [][Next]_vars /\ Fairness

-----------------------------------------------------------------------------
Carried == UNION {carry[c] : c \in Calls}

\* No event vanishes while the process lives: whichever of the uploader, the
\* flush and the calls took it, it is somewhere, or with the service; or it was
\* discarded, which happens only to what is taken together with an encoder whose
\* compressed chunk exceeds the upload limit (encoder.go, reset).
NoEventVanishes ==
  logged \subseteq enc \cup buffer \cup Carried \cup periodic \cup flushing
                     \cup uploaded \cup discarded

\* Of an event there is one copy, in the encoder, in the buffer or with the one
\* call or goroutine that took it, and none once it was delivered: what the
\* service has is sent again only when the upload that brought it had failed.
SentOnce ==
  /\ \A e \in enc : e \notin buffer \cup Carried \cup periodic \cup flushing
  /\ \A e \in buffer : e \notin Carried \cup periodic \cup flushing
  /\ \A e \in Carried : e \notin periodic \cup flushing
  /\ \A e \in periodic : e \notin flushing
  /\ \A c, d \in Calls : c # d => carry[c] \cap carry[d] = {}
  /\ uploaded \cap (enc \cup buffer \cup Carried \cup periodic \cup flushing) \subseteq retried

\* After a flush that reported success, an event that was accepted and is not at
\* the service was put into the buffer by a call, or put back by a periodic upload
\* that failed, once Stop had been called; or it was in a chunk that a call in
\* flight had yet to buffer, or went with an encoder.
LostOnlyWhenLate ==
  mgr = "exited" /\ flushed =>
    logged \subseteq uploaded \cup late \cup Carried \cup discarded

\* A call in flight ends, also after the logger and the server were stopped:
\* the logger it writes to has no goroutine that it would have to wait for.
CallsEnd ==
  \A c \in Calls :
    call[c] \notin {"idle", "answered", "failed"} ~>
      call[c] \in {"answered", "failed"} \/ mgr = "exited"

\* Manager.Stop returns, however often uploads fail.
ShutdownReturns == mgr \in {"flushing", "logs", "envoy"} ~> mgr \in {"stopped", "exited"}
=============================================================================
