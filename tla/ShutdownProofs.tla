--------------------------- MODULE ShutdownProofs ---------------------------
(***************************************************************************)
(* Proofs about Shutdown, for any number of calls: no event vanishes while *)
(* the process lives but with an encoder whose chunk is too large          *)
(* (NoEventVanishes), there is one copy of an event and none of one that   *)
(* was delivered (SentOnce), and what the service lacks after a flush that *)
(* reported success (LostOnlyWhenLate).                                    *)
(*                                                                         *)
(* The inductive invariant says who may hold events: a call only while it  *)
(* pushes a chunk, uploader and flush only while they upload.  Otherwise   *)
(* the next swap would overwrite events.  A call that has not reached the  *)
(* encoder has no event anywhere.  And from the swap of the flush on, what *)
(* is in encoder and buffer was put there after Stop was called.           *)
(***************************************************************************)
EXTENDS Shutdown, TLAPS

TypeInv ==
  /\ call \in [Calls -> {"idle", "checking", "logging", "pushing", "reply", "answered", "failed"}]
  /\ carry \in [Calls -> SUBSET Calls]
  /\ transport \in {"open", "closed"}
  /\ mgr \in {"running", "flushing", "logs", "envoy", "stopped", "exited"}
  /\ loop \in {"wait", "upload", "exited"}
  /\ flusher \in {"off", "swap", "upload", "done"}
  /\ enc \subseteq Calls
  /\ stuck \in BOOLEAN /\ flushed \in BOOLEAN

\* Nobody holds events outside the steps in which he passes them on.
HolderInv ==
  /\ \A c \in Calls : call[c] # "pushing" => carry[c] = {}
  /\ loop # "upload" => periodic = {}
  /\ flusher # "upload" => flushing = {}

\* Events are those of calls that have been through the encoder.
LoggedInv ==
  /\ \A c \in Calls : call[c] \in {"idle", "checking", "logging"} => c \notin logged
  /\ enc \cup buffer \cup periodic \cup flushing \cup uploaded \subseteq logged
  /\ \A c \in Calls : carry[c] \subseteq logged

\* Where Manager.Stop is, and what is left after the swap of the flush.
FlushInv ==
  /\ mgr = "running" => flusher = "off"
  /\ mgr \in {"envoy", "stopped", "exited"} => loop = "exited"
  /\ flushed => flusher = "done"
  /\ flusher = "upload" \/ flushed => enc \cup buffer \subseteq late

\* SentOnce, by the calls that carry events.
OneCopy ==
  /\ enc \cap buffer = {} /\ enc \cap periodic = {} /\ enc \cap flushing = {}
  /\ buffer \cap periodic = {} /\ buffer \cap flushing = {} /\ periodic \cap flushing = {}
  /\ \A c \in Calls : carry[c] \cap (enc \cup buffer \cup periodic \cup flushing) = {}
  /\ \A c, d \in Calls : c # d => carry[c] \cap carry[d] = {}
  /\ uploaded \cap (enc \cup buffer \cup periodic \cup flushing) \subseteq retried
  /\ \A c \in Calls : uploaded \cap carry[c] \subseteq retried

Safe == TypeInv /\ HolderInv /\ LoggedInv /\ FlushInv /\ OneCopy /\ NoEventVanishes
-----------------------------------------------------------------------------
\* The parts of the invariant, one lemma each.

\* The types.
LEMMA TypeStep ==
  ASSUME Safe, [Next]_vars
  PROVE  TypeInv'
<1> USE DEF Safe, TypeInv, calls, queue, uploader, flush, history
<1>1. ASSUME NEW c \in Calls, Begin(c) PROVE TypeInv'
  BY <1>1 DEF Begin
<1>2. ASSUME NEW c \in Calls, Check(c) PROVE TypeInv'
  BY <1>2 DEF Check
<1>3. ASSUME NEW c \in Calls, LogNothing(c) PROVE TypeInv'
  BY <1>3 DEF LogNothing
<1>4. ASSUME NEW c \in Calls, Encode(c) PROVE TypeInv'
  BY <1>4 DEF Encode, Full, TooLarge, Enter
<1>5. ASSUME NEW c \in Calls, Push(c) PROVE TypeInv'
  BY <1>5 DEF Push, Enter
<1>6. ASSUME NEW c \in Calls, Reply(c) PROVE TypeInv'
  BY <1>6 DEF Reply
<1>7. CASE LoopSwap
  BY <1>7 DEF LoopSwap, Take, Drop
<1>8. CASE LoopUpload
  BY <1>8 DEF LoopUpload, Enter, Deliver
<1>9. CASE Stop
  BY <1>9 DEF Stop
<1>10. CASE Expire
  BY <1>10 DEF Expire
<1>11. CASE FlushSwap
  BY <1>11 DEF FlushSwap, Take, Drop
<1>12. CASE FlushUpload
  BY <1>12 DEF FlushUpload, Deliver
<1>13. CASE FlushExpires
  BY <1>13 DEF FlushExpires
<1>14. CASE StopLoop
  BY <1>14 DEF StopLoop
<1>15. CASE StopEnvoy
  BY <1>15 DEF StopEnvoy
<1>16. CASE Exit
  BY <1>16 DEF Exit
<1>17. CASE UNCHANGED vars
  BY <1>17 DEF vars
<1> QED
  BY <1>1, <1>2, <1>3, <1>4, <1>5, <1>6, <1>7, <1>8, <1>9, <1>10, <1>11, <1>12, <1>13, <1>14, <1>15, <1>16, <1>17
     DEF Next, CallStep, FlushStep

\* Who holds events (opa/plugins/logs encodeAndBufferEvent, oneShot, flushDecisions).
LEMMA HolderStep ==
  ASSUME Safe, [Next]_vars
  PROVE  HolderInv'
<1> USE DEF Safe, TypeInv, HolderInv, calls, queue, uploader, flush, history
<1>1. ASSUME NEW c \in Calls, Begin(c) PROVE HolderInv'
  BY <1>1 DEF Begin
<1>2. ASSUME NEW c \in Calls, Check(c) PROVE HolderInv'
  BY <1>2 DEF Check
<1>3. ASSUME NEW c \in Calls, LogNothing(c) PROVE HolderInv'
  BY <1>3 DEF LogNothing
<1>4. ASSUME NEW c \in Calls, Encode(c) PROVE HolderInv'
  BY <1>4 DEF Encode, Full, TooLarge, Enter
<1>5. ASSUME NEW c \in Calls, Push(c) PROVE HolderInv'
  BY <1>5 DEF Push, Enter
<1>6. ASSUME NEW c \in Calls, Reply(c) PROVE HolderInv'
  BY <1>6 DEF Reply
<1>7. CASE LoopSwap
  BY <1>7 DEF LoopSwap, Take, Drop
<1>8. CASE LoopUpload
  BY <1>8 DEF LoopUpload, Enter, Deliver
<1>9. CASE Stop
  BY <1>9 DEF Stop, FlushInv
<1>10. CASE Expire
  BY <1>10 DEF Expire
<1>11. CASE FlushSwap
  BY <1>11 DEF FlushSwap, Take, Drop
<1>12. CASE FlushUpload
  BY <1>12 DEF FlushUpload, Deliver
<1>13. CASE FlushExpires
  BY <1>13 DEF FlushExpires
<1>14. CASE StopLoop
  BY <1>14 DEF StopLoop
<1>15. CASE StopEnvoy
  BY <1>15 DEF StopEnvoy
<1>16. CASE Exit
  BY <1>16 DEF Exit
<1>17. CASE UNCHANGED vars
  BY <1>17 DEF vars
<1> QED
  BY <1>1, <1>2, <1>3, <1>4, <1>5, <1>6, <1>7, <1>8, <1>9, <1>10, <1>11, <1>12, <1>13, <1>14, <1>15, <1>16, <1>17
     DEF Next, CallStep, FlushStep

\* Only encodeEvent makes events.
LEMMA LoggedStep ==
  ASSUME Safe, [Next]_vars
  PROVE  LoggedInv'
<1> USE DEF Safe, TypeInv, LoggedInv, calls, queue, uploader, flush, history
<1>1. ASSUME NEW c \in Calls, Begin(c) PROVE LoggedInv'
  BY <1>1 DEF Begin
<1>2. ASSUME NEW c \in Calls, Check(c) PROVE LoggedInv'
  BY <1>2 DEF Check
<1>3. ASSUME NEW c \in Calls, LogNothing(c) PROVE LoggedInv'
  BY <1>3 DEF LogNothing
<1>4. ASSUME NEW c \in Calls, Encode(c) PROVE LoggedInv'
  BY <1>4 DEF Encode, Full, TooLarge, Enter
<1>5. ASSUME NEW c \in Calls, Push(c) PROVE LoggedInv'
  BY <1>5 DEF Push, Enter
<1>6. ASSUME NEW c \in Calls, Reply(c) PROVE LoggedInv'
  BY <1>6 DEF Reply
<1>7. CASE LoopSwap
  BY <1>7 DEF LoopSwap, Take, Drop
<1>8. CASE LoopUpload
  BY <1>8 DEF LoopUpload, Enter, Deliver
<1>9. CASE Stop
  BY <1>9 DEF Stop
<1>10. CASE Expire
  BY <1>10 DEF Expire
<1>11. CASE FlushSwap
  BY <1>11 DEF FlushSwap, Take, Drop
<1>12. CASE FlushUpload
  BY <1>12 DEF FlushUpload, Deliver
<1>13. CASE FlushExpires
  BY <1>13 DEF FlushExpires
<1>14. CASE StopLoop
  BY <1>14 DEF StopLoop
<1>15. CASE StopEnvoy
  BY <1>15 DEF StopEnvoy
<1>16. CASE Exit
  BY <1>16 DEF Exit
<1>17. CASE UNCHANGED vars
  BY <1>17 DEF vars
<1> QED
  BY <1>1, <1>2, <1>3, <1>4, <1>5, <1>6, <1>7, <1>8, <1>9, <1>10, <1>11, <1>12, <1>13, <1>14, <1>15, <1>16, <1>17
     DEF Next, CallStep, FlushStep

\* What enters encoder and buffer once Stop was called is late.
LEMMA FlushPartStep ==
  ASSUME Safe, [Next]_vars
  PROVE  FlushInv'
<1> USE DEF Safe, TypeInv, FlushInv, calls, queue, uploader, flush, history
<1>1. ASSUME NEW c \in Calls, Begin(c) PROVE FlushInv'
  BY <1>1 DEF Begin
<1>2. ASSUME NEW c \in Calls, Check(c) PROVE FlushInv'
  BY <1>2 DEF Check
<1>3. ASSUME NEW c \in Calls, LogNothing(c) PROVE FlushInv'
  BY <1>3 DEF LogNothing
<1>4. ASSUME NEW c \in Calls, Encode(c) PROVE FlushInv'
  BY <1>4 DEF Encode, Full, TooLarge, Enter
<1>5. ASSUME NEW c \in Calls, Push(c) PROVE FlushInv'
  BY <1>5 DEF Push, Enter
<1>6. ASSUME NEW c \in Calls, Reply(c) PROVE FlushInv'
  BY <1>6 DEF Reply
<1>7. CASE LoopSwap
  BY <1>7 DEF LoopSwap, Take, Drop
<1>8. CASE LoopUpload
  BY <1>8 DEF LoopUpload, Enter, Deliver
<1>9. CASE Stop
  BY <1>9 DEF Stop
<1>10. CASE Expire
  BY <1>10 DEF Expire
<1>11. CASE FlushSwap
  BY <1>11 DEF FlushSwap, Take, Drop
<1>12. CASE FlushUpload
  BY <1>12 DEF FlushUpload, Deliver
<1>13. CASE FlushExpires
  BY <1>13 DEF FlushExpires
<1>14. CASE StopLoop
  BY <1>14 DEF StopLoop
<1>15. CASE StopEnvoy
  BY <1>15 DEF StopEnvoy
<1>16. CASE Exit
  BY <1>16 DEF Exit
<1>17. CASE UNCHANGED vars
  BY <1>17 DEF vars
<1> QED
  BY <1>1, <1>2, <1>3, <1>4, <1>5, <1>6, <1>7, <1>8, <1>9, <1>10, <1>11, <1>12, <1>13, <1>14, <1>15, <1>16, <1>17
     DEF Next, CallStep, FlushStep

\* Whoever takes events leaves no copy.
LEMMA OneCopyStep ==
  ASSUME Safe, [Next]_vars
  PROVE  OneCopy'
<1> USE DEF Safe, TypeInv, HolderInv, LoggedInv, OneCopy, calls, queue, uploader, flush, history
<1>1. ASSUME NEW c \in Calls, Begin(c) PROVE OneCopy'
  BY <1>1 DEF Begin
<1>2. ASSUME NEW c \in Calls, Check(c) PROVE OneCopy'
  BY <1>2 DEF Check
<1>3. ASSUME NEW c \in Calls, LogNothing(c) PROVE OneCopy'
  BY <1>3 DEF LogNothing
<1>4. ASSUME NEW c \in Calls, Encode(c) PROVE OneCopy'
  BY <1>4 DEF Encode, Full, TooLarge, Enter
<1>5. ASSUME NEW c \in Calls, Push(c) PROVE OneCopy'
  BY <1>5 DEF Push, Enter
<1>6. ASSUME NEW c \in Calls, Reply(c) PROVE OneCopy'
  BY <1>6 DEF Reply
<1>7. CASE LoopSwap
  BY <1>7 DEF LoopSwap, Take, Drop
<1>8. CASE LoopUpload
  BY <1>8 DEF LoopUpload, Enter, Deliver
<1>9. CASE Stop
  BY <1>9 DEF Stop
<1>10. CASE Expire
  BY <1>10 DEF Expire
<1>11. CASE FlushSwap
  BY <1>11 DEF FlushSwap, Take, Drop
<1>12. CASE FlushUpload
  BY <1>12 DEF FlushUpload, Deliver
<1>13. CASE FlushExpires
  BY <1>13 DEF FlushExpires
<1>14. CASE StopLoop
  BY <1>14 DEF StopLoop
<1>15. CASE StopEnvoy
  BY <1>15 DEF StopEnvoy
<1>16. CASE Exit
  BY <1>16 DEF Exit
<1>17. CASE UNCHANGED vars
  BY <1>17 DEF vars
<1> QED
  BY <1>1, <1>2, <1>3, <1>4, <1>5, <1>6, <1>7, <1>8, <1>9, <1>10, <1>11, <1>12, <1>13, <1>14, <1>15, <1>16, <1>17
     DEF Next, CallStep, FlushStep

\* Whoever gives events away gives them to somebody else, or discards them.
LEMMA VanishStep ==
  ASSUME Safe, [Next]_vars
  PROVE  NoEventVanishes'
<1> USE DEF Safe, TypeInv, HolderInv, NoEventVanishes, Carried, calls, queue, uploader, flush, history
<1>1. ASSUME NEW c \in Calls, Begin(c) PROVE NoEventVanishes'
  BY <1>1 DEF Begin
<1>2. ASSUME NEW c \in Calls, Check(c) PROVE NoEventVanishes'
  BY <1>2 DEF Check
<1>3. ASSUME NEW c \in Calls, LogNothing(c) PROVE NoEventVanishes'
  BY <1>3 DEF LogNothing
<1>4. ASSUME NEW c \in Calls, Encode(c) PROVE NoEventVanishes'
  BY <1>4 DEF Encode, Full, TooLarge, Enter
<1>5. ASSUME NEW c \in Calls, Push(c) PROVE NoEventVanishes'
  BY <1>5 DEF Push, Enter
<1>6. ASSUME NEW c \in Calls, Reply(c) PROVE NoEventVanishes'
  BY <1>6 DEF Reply
<1>7. CASE LoopSwap
  BY <1>7 DEF LoopSwap, Take, Drop
<1>8. CASE LoopUpload
  BY <1>8 DEF LoopUpload, Enter, Deliver
<1>9. CASE Stop
  BY <1>9 DEF Stop
<1>10. CASE Expire
  BY <1>10 DEF Expire
<1>11. CASE FlushSwap
  BY <1>11 DEF FlushSwap, Take, Drop
<1>12. CASE FlushUpload
  BY <1>12 DEF FlushUpload, Deliver
<1>13. CASE FlushExpires
  BY <1>13 DEF FlushExpires
<1>14. CASE StopLoop
  BY <1>14 DEF StopLoop
<1>15. CASE StopEnvoy
  BY <1>15 DEF StopEnvoy
<1>16. CASE Exit
  BY <1>16 DEF Exit
<1>17. CASE UNCHANGED vars
  BY <1>17 DEF vars
<1> QED
  BY <1>1, <1>2, <1>3, <1>4, <1>5, <1>6, <1>7, <1>8, <1>9, <1>10, <1>11, <1>12, <1>13, <1>14, <1>15, <1>16, <1>17
     DEF Next, CallStep, FlushStep

\* The invariant holds in every reachable state.
LEMMA SafeInvariant == Spec => []Safe
<1>1. Init => Safe
  BY DEF Init, Safe, TypeInv, HolderInv, LoggedInv, FlushInv, OneCopy, NoEventVanishes
<1>2. Safe /\ [Next]_vars => Safe'
  BY TypeStep, HolderStep, LoggedStep, FlushPartStep, OneCopyStep, VanishStep DEF Safe
<1> QED
  BY <1>1, <1>2, PTL DEF Spec

\* No event that the decision logger accepted vanishes while the process lives,
\* however calls, uploader and flush interleave and whichever uploads fail, but with
\* an encoder whose chunk exceeds the limit (opa/plugins/logs oneShot, reset).
THEOREM EventsAreKept == Spec => []NoEventVanishes
<1>1. Safe => NoEventVanishes
  BY DEF Safe
<1> QED
  BY <1>1, SafeInvariant, PTL

\* Of an event there is one copy, and none once an upload of it has succeeded: oneShot
\* swaps, moves and requeues without doubling anything, for any number of calls.
THEOREM EventsAreSentOnce == Spec => []SentOnce
<1>1. Safe => SentOnce
  BY DEF Safe, OneCopy, SentOnce, Carried
<1> QED
  BY <1>1, SafeInvariant, PTL

\* After a flush that reported success (flushDecisions), an accepted event that the
\* service does not have was put into the buffer, by a call or by a failing periodic
\* upload, after Stop was called, or never left the hands of a call in flight, or went
\* with an encoder.
THEOREM FlushLosesOnlyLate == Spec => []LostOnlyWhenLate
<1>1. Safe => LostOnlyWhenLate
  <2> SUFFICES ASSUME Safe, mgr = "exited", flushed
               PROVE  logged \subseteq uploaded \cup late \cup Carried \cup discarded
    BY DEF LostOnlyWhenLate
  <2>1. periodic = {} /\ flushing = {} /\ enc \cup buffer \subseteq late
    BY DEF Safe, HolderInv, FlushInv
  <2> QED
    BY <2>1 DEF Safe, NoEventVanishes
<1> QED
  BY <1>1, SafeInvariant, PTL
=============================================================================
