-------------------------- MODULE ExtAuthzProofs --------------------------
(***************************************************************************)
(* Proofs about ExtAuthz, for any set of calls, any decisions, any number  *)
(* of commits, any failures.                                               *)
(*                                                                         *)
(*   TypeOK, OneSnapshot, NoDataRace,                                      *)
(*   WritersExcludeReaders          from the invariant Coherent: lock,     *)
(*                                  store, Once and calls belong together  *)
(*   FailClosed, AnswersAreLogged   an allow needs a decision that allows  *)
(*                                  and was logged, and every enforced     *)
(*                                  answer is in the log                   *)
(*   ImplementsService              the server refines AuthzService        *)
(*   CountersAreExact               the counters count calls               *)
(***************************************************************************)
EXTENDS ExtAuthz, ExtAuthzRefinement, TLAPS, FiniteSetTheorems

Kinds == TopdownCodes \cup {Plain}

-----------------------------------------------------------------------------
(***************************************************************************)
(* The operators the model is built from return values of their types.     *)
(***************************************************************************)
\* An internal error made from one of the codes of errors.go is an error.
LEMMA ErrorType ==
  \A c \in ErrorCodes, k \in Kinds :
    internalError(c, k) \in Errors /\ internalError(c, k) # NoErr
BY DEF internalError, Errors, NoErr, Kinds, ErrorCodes, StartCheckErr, StartTxnErr,
       RequestParseErr, CheckRequestTimeoutErr, InputParseErr, EnvoyAuthEvalErr,
       EnvoyAuthResultErr

\* The codes and causes used in the actions.
LEMMA CodeType ==
  /\ {StartCheckErr, StartTxnErr, RequestParseErr, CheckRequestTimeoutErr,
      InputParseErr, EnvoyAuthEvalErr, EnvoyAuthResultErr} \subseteq ErrorCodes
  /\ {Plain, EvalCancelErr, EvalConflictErr} \subseteq Kinds
BY DEF ErrorCodes, Kinds, TopdownCodes

\* Counting keeps the table of counters a table of natural numbers.
LEMMA CountType ==
  ASSUME NEW m \in [MetricKeys -> Nat], NEW k \in MetricKeys
  PROVE  Count(m, k) \in [MetricKeys -> Nat]
BY DEF Count

\* So does counting the error a call ended with, if it had one.
LEMMA CountErrorType ==
  ASSUME NEW m \in [MetricKeys -> Nat], NEW e \in Errors
  PROVE  CountError(m, e) \in [MetricKeys -> Nat]
<1>1. CASE e.code = ""
  BY <1>1 DEF CountError
<1>2. CASE e.code # ""
  <2>1. ErrorReason(e) \in MetricKeys
    BY <1>2 DEF ErrorReason, MetricKeys, Errors
  <2> QED
    BY <2>1, <1>2, CountType DEF CountError
<1> QED
  BY <1>1, <1>2

\* A decision without a malformed key becomes a response of the right shape.
LEMMA DecisionResponseType ==
  ASSUME NEW d \in AllDecisions, NEW ids, NEW id \in ids
  PROVE  DecisionResponse(d, id) \in Responses(ids)
<1>1. (IF IsAllowed(d) THEN Code_OK ELSE Code_PERMISSION_DENIED) \in Codes
  BY DEF Codes
<1>2. PolicyMetadata(d) \in Out
  <2>1. CASE d.type = "object"
    <3>1. d \in ObjectDecisions
      BY <2>1 DEF AllDecisions, BoolDecisions, OtherDecision
    <3> QED
      BY <3>1, <2>1 DEF PolicyMetadata, Get, ObjectDecisions, Out
  <2>2. CASE d.type # "object"
    BY <2>2 DEF PolicyMetadata, Out
  <2> QED
    BY <2>1, <2>2
<1>3. HttpResponse(d) \in HttpResponses
  <2>1. CASE d.type # "object"
    BY <2>1 DEF HttpResponse, NoHttp, HttpResponses
  <2>2. CASE d.type = "object"
    <3>1. d \in ObjectDecisions
      BY <2>2 DEF AllDecisions, BoolDecisions, OtherDecision
    <3>2. /\ Get(d, "headers") \in Out
          /\ Get(d, "request_headers_to_remove") \in Out
          /\ Get(d, "response_headers_to_add") \in Out
          /\ Get(d, "body") \in Out
      BY <3>1 DEF Get, ObjectDecisions, Out
    <3>3. GetResponseEnvoyHTTPStatus(d) \in {Malformed} \cup HTTPNumbers
      BY <3>1 DEF GetResponseEnvoyHTTPStatus, ObjectDecisions, StatusForbidden, HTTPNumbers
    <3>4. CASE IsAllowed(d)
      BY <3>2, <3>4, <2>2 DEF HttpResponse, OkHttp, HttpResponses
    <3>5. CASE ~IsAllowed(d)
      BY <3>2, <3>3, <3>5, <2>2 DEF HttpResponse, DeniedHttp, HttpResponses
    <3> QED
      BY <3>4, <3>5
  <2> QED
    BY <2>1, <2>2
<1> QED
  BY <1>1, <1>2, <1>3 DEF DecisionResponse, Responses

\* The dry-run override keeps that shape.
LEMMA BuildResponseType ==
  ASSUME NEW d \in AllDecisions, NEW ids, NEW id \in ids, NEW dryRun \in BOOLEAN
  PROVE  BuildResponse(d, dryRun, id) \in Responses(ids)
<1>1. DecisionResponse(d, id) \in Responses(ids)
  BY DecisionResponseType
<1>2. OkHttp(Empty, Empty, Empty) \in HttpResponses
  BY DEF OkHttp, HttpResponses, Out
<1>3. dryRunOverride(DecisionResponse(d, id)) \in Responses(ids)
  BY <1>1, <1>2 DEF dryRunOverride, Responses, Codes
<1> QED
  BY <1>1, <1>3 DEF BuildResponse

\* The status of a failed decision log, put into a response, leaves a response.
LEMMA ApplyStopType ==
  ASSUME NEW ids, NEW x \in Responses(ids), NEW b \in BOOLEAN
  PROVE  ApplyStop(x, b) \in Responses(ids)
BY DEF ApplyStop, Responses, Codes

-----------------------------------------------------------------------------
(***************************************************************************)
(* Who changes what.                                                       *)
(***************************************************************************)
WriteAction ==
  (\E k \in Changes : BeginWrite(k)) \/ AbortWrite \/ CommitLock \/ WriterStep

CallAction(r) == NewEvalResult(r) \/ CheckStep(r) \/ Cancel(r)

\* A step is one of the writer, one of a call, or changes nothing.
LEMMA StepCases ==
  [Next]_vars => \/ WriteAction
                 \/ \E r \in Requests : CallAction(r)
                 \/ UNCHANGED vars
BY DEF Next, WriteAction, CallAction, Quiescent

\* The writer leaves the calls, the cached query and the metrics alone.
LEMMA WriterFrame ==
  WriteAction =>
    UNCHANGED <<readers, onceState, preparedQuery, metric, crashed, pc, ctxDone,
                evalVars, outVars, snap>>
<1>1. ASSUME NEW k \in Changes, BeginWrite(k)
      PROVE  UNCHANGED <<readers, onceState, preparedQuery, metric, crashed, pc, ctxDone,
                         evalVars, outVars, snap>>
  BY <1>1 DEF BeginWrite, queryVars
<1>2. CASE AbortWrite
  BY <1>2 DEF AbortWrite, queryVars
<1>3. CASE CommitLock
  BY <1>3 DEF CommitLock, queryVars
<1>4. CASE CommitStore
  BY <1>4 DEF CommitStore, queryVars
<1>5. CASE onCommit
  BY <1>5 DEF onCommit, queryVars
<1>6. CASE compilerUpdated
  BY <1>6 DEF compilerUpdated
<1>7. CASE CommitUnlock
  BY <1>7 DEF CommitUnlock, queryVars
<1> QED
  BY <1>1, <1>2, <1>3, <1>4, <1>5, <1>6, <1>7 DEF WriteAction, WriterStep

\* A call leaves the store, the compiler and the Once pointer alone.
LEMMA CallFrame ==
  ASSUME NEW r \in Requests, CallAction(r)
  PROVE  UNCHANGED <<storeVars, once>>
<1>1. CASE NewEvalResult(r)
  BY <1>1 DEF NewEvalResult, queryVars
<1>2. CASE GetTxn(r)
  BY <1>2 DEF GetTxn, queryVars
<1>3. CASE RequestToInput(r)
  BY <1>3 DEF RequestToInput, queryVars
<1>4. CASE BeforeEval(r)
  BY <1>4 DEF BeforeEval, queryVars
<1>5. CASE getRevision(r)
  BY <1>5 DEF getRevision, queryVars
<1>6. CASE LoadOnce(r)
  BY <1>6 DEF LoadOnce, queryVars
<1>7. CASE OnceDo(r)
  BY <1>7 DEF OnceDo, queryVars
<1>8. CASE Prepare(r)
  BY <1>8 DEF Prepare, queryVars
<1>9. CASE SetPreparedQuery(r)
  BY <1>9 DEF SetPreparedQuery, queryVars
<1>10. CASE LoadPreparedQuery(r)
  BY <1>10 DEF LoadPreparedQuery, queryVars
<1>11. CASE EvalQuery(r)
  BY <1>11 DEF EvalQuery, queryVars
<1>12. CASE Respond(r)
  BY <1>12 DEF Respond, queryVars
<1>13. CASE LogDecision(r)
  BY <1>13 DEF LogDecision, queryVars
<1>14. CASE CloseTxn(r)
  BY <1>14 DEF CloseTxn, queryVars
<1>15. CASE Cancel(r)
  BY <1>15 DEF Cancel, queryVars
<1> QED
  BY <1>1, <1>2, <1>3, <1>4, <1>5, <1>6, <1>7, <1>8, <1>9, <1>10, <1>11, <1>12, <1>13, <1>14, <1>15
     DEF CallAction, CheckStep

\* A step of one call does not touch the variables of another.
LEMMA OtherCalls ==
  ASSUME TypeOK, NEW r \in Requests, CallAction(r), NEW q \in Requests, q # r
  PROVE  /\ pc'[q] = pc[q] /\ myOnce'[q] = myOnce[q] /\ pq'[q] = pq[q]
         /\ revision'[q] = revision[q] /\ result'[q] = result[q] /\ snap'[q] = snap[q]
<1>1. CASE NewEvalResult(r)
  BY <1>1 DEF NewEvalResult, TypeOK, Goto, FailEarly, evalVars
<1>2. CASE GetTxn(r)
  BY <1>2 DEF GetTxn, TypeOK, Goto, FailEarly, evalVars
<1>3. CASE RequestToInput(r)
  BY <1>3 DEF RequestToInput, TypeOK, Goto, Fail, evalVars
<1>4. CASE BeforeEval(r)
  BY <1>4 DEF BeforeEval, TypeOK, Goto, Fail, evalVars
<1>5. CASE getRevision(r)
  BY <1>5 DEF getRevision, TypeOK, Goto, Fail, evalVars
<1>6. CASE LoadOnce(r)
  BY <1>6 DEF LoadOnce, TypeOK, Goto, evalVars
<1>7. CASE OnceDo(r)
  BY <1>7 DEF OnceDo, TypeOK, Goto, evalVars
<1>8. CASE Prepare(r)
  BY <1>8 DEF Prepare, TypeOK, Goto, evalVars
<1>9. CASE SetPreparedQuery(r)
  BY <1>9 DEF SetPreparedQuery, TypeOK, Goto, Fail, evalVars
<1>10. CASE LoadPreparedQuery(r)
  BY <1>10 DEF LoadPreparedQuery, TypeOK, Goto, evalVars
<1>11. CASE EvalQuery(r)
  BY <1>11 DEF EvalQuery, TypeOK, Goto, Fail, evalVars
<1>12. CASE Respond(r)
  BY <1>12 DEF Respond, TypeOK, Goto, Fail, evalVars
<1>13. CASE LogDecision(r)
  BY <1>13 DEF LogDecision, TypeOK, Goto, evalVars
<1>14. CASE CloseTxn(r)
  BY <1>14 DEF CloseTxn, TypeOK, Goto, evalVars
<1>15. CASE Cancel(r)
  BY <1>15 DEF Cancel, TypeOK, Goto, evalVars
<1> QED
  BY <1>1, <1>2, <1>3, <1>4, <1>5, <1>6, <1>7, <1>8, <1>9, <1>10, <1>11, <1>12, <1>13, <1>14, <1>15 DEF CallAction, CheckStep

-----------------------------------------------------------------------------
(***************************************************************************)
(* Type correctness.                                                       *)
(***************************************************************************)
StoreType ==
  /\ policyRev \in Revs /\ dataRev \in Revs /\ compiler \in Revs /\ once \in Revs
  /\ writer \in {"idle", "open", "pending", "committed", "compiled", "triggered"}
  /\ change \in Changes

\* Revisions stay within the bound: a write begins only below it, and commits
\* only once.
LEMMA StoreTypeStep ==
  ASSUME StoreType, StoreInv, WriteAction
  PROVE  StoreType' /\ StoreInv'
<1> USE ConstantsAssumption
<1>1. ASSUME NEW k \in Changes, BeginWrite(k) PROVE StoreType' /\ StoreInv'
  BY <1>1 DEF BeginWrite, queryVars, StoreType, StoreInv, Uncompiled, Unnotified, Revs
<1>2. CASE AbortWrite
  BY <1>2 DEF AbortWrite, queryVars, StoreType, StoreInv, Uncompiled, Unnotified, Revs
<1>3. CASE CommitLock
  BY <1>3 DEF CommitLock, queryVars, StoreType, StoreInv, Uncompiled, Unnotified, Revs
<1>4. CASE CommitStore
  BY <1>4 DEF CommitStore, LockGranted, queryVars, StoreType, StoreInv, Uncompiled,
              Unnotified, Revs
<1>5. CASE onCommit
  BY <1>5 DEF onCommit, queryVars, StoreType, StoreInv, Uncompiled, Unnotified, Revs
<1>6. CASE compilerUpdated
  BY <1>6 DEF compilerUpdated, StoreType, StoreInv, Uncompiled, Unnotified, Revs
<1>7. CASE CommitUnlock
  BY <1>7 DEF CommitUnlock, queryVars, StoreType, StoreInv, Uncompiled, Unnotified, Revs
<1> QED
  BY <1>1, <1>2, <1>3, <1>4, <1>5, <1>6, <1>7 DEF WriteAction, WriterStep

\* What a call may write has its type.
LEMMA CallTypeStep ==
  ASSUME Coherent, NEW r \in Requests, CallAction(r)
  PROVE  TypeOK'
<1> USE ConstantsAssumption, ErrorType, CodeType
<1> TypeOK /\ CallInv(r)
  BY DEF Coherent
<1>1. CASE NewEvalResult(r)
  <2>1. pc' \in [Requests -> PC]
    <3>1. \/ pc' = [pc EXCEPT ![r] = "started"]
          \/ pc' = [pc EXCEPT ![r] = "done"]
      BY <1>1 DEF NewEvalResult, FailEarly, Goto
    <3> QED
      BY <3>1 DEF TypeOK, PC
  <2>2. err' \in [Requests -> Errors]
    BY <1>1 DEF NewEvalResult, FailEarly, TypeOK
  <2> QED
    BY <1>1, <2>1, <2>2 DEF NewEvalResult, TypeOK, storeVars, queryVars, evalVars, outVars
<1>2. CASE GetTxn(r)
  <2>1. pc' \in [Requests -> PC]
    <3>1. \/ pc' = [pc EXCEPT ![r] = "parse"]
          \/ pc' = [pc EXCEPT ![r] = "done"]
      BY <1>2 DEF GetTxn, FailEarly, Goto
    <3> QED
      BY <3>1 DEF TypeOK, PC
  <2>2. err' \in [Requests -> Errors]
    BY <1>2 DEF GetTxn, FailEarly, TypeOK
  <2>3. readers' \subseteq Requests
    BY <1>2 DEF GetTxn, TypeOK
  <2>4. snap' \in [Requests -> [policy : Revs \cup {NoRev}, data : Revs \cup {NoRev}]]
    BY <1>2 DEF GetTxn, TypeOK
  <2> QED
    BY <1>2, <2>1, <2>2, <2>3, <2>4 DEF GetTxn, TypeOK, storeVars, queryVars, evalVars, outVars
<1>3. CASE RequestToInput(r)
  <2>1. pc' \in [Requests -> PC]
    <3>1. \/ pc' = [pc EXCEPT ![r] = "precheck"]
          \/ pc' = [pc EXCEPT ![r] = "stop"]
      BY <1>3 DEF RequestToInput, Fail, Goto
    <3> QED
      BY <3>1 DEF TypeOK, PC
  <2>2. err' \in [Requests -> Errors]
    BY <1>3 DEF RequestToInput, Fail, TypeOK
  <2> QED
    BY <1>3, <2>1, <2>2 DEF RequestToInput, TypeOK, storeVars, queryVars, evalVars, outVars
<1>4. CASE BeforeEval(r)
  <2>1. pc' \in [Requests -> PC]
    <3>1. \/ pc' = [pc EXCEPT ![r] = "revision"]
          \/ pc' = [pc EXCEPT ![r] = "stop"]
      BY <1>4 DEF BeforeEval, Fail, Goto
    <3> QED
      BY <3>1 DEF TypeOK, PC
  <2>2. err' \in [Requests -> Errors]
    BY <1>4 DEF BeforeEval, Fail, TypeOK
  <2> QED
    BY <1>4, <2>1, <2>2 DEF BeforeEval, TypeOK, storeVars, queryVars, evalVars, outVars
<1>5. CASE getRevision(r)
  <2>1. pc' \in [Requests -> PC]
    <3>1. \/ pc' = [pc EXCEPT ![r] = "once"]
          \/ pc' = [pc EXCEPT ![r] = "stop"]
      BY <1>5 DEF getRevision, Fail, Goto
    <3> QED
      BY <3>1 DEF TypeOK, PC
  <2>2. err' \in [Requests -> Errors]
    BY <1>5 DEF getRevision, Fail, TypeOK
  <2>3. revision' \in [Requests -> Revs \cup {NoRev}]
    BY <1>5 DEF getRevision, TypeOK
  <2> QED
    BY <1>5, <2>1, <2>2, <2>3 DEF getRevision, TypeOK, storeVars, queryVars, evalVars, outVars
<1>6. CASE LoadOnce(r)
  BY <1>6 DEF LoadOnce, TypeOK, PC, Goto, storeVars, queryVars, evalVars, outVars
<1>7. CASE OnceDo(r)
  <2>1. pc' \in [Requests -> PC]
    <3>1. \/ pc' = [pc EXCEPT ![r] = "prepare"]
          \/ pc' = [pc EXCEPT ![r] = "load"]
      BY <1>7 DEF OnceDo, Goto
    <3> QED
      BY <3>1 DEF TypeOK, PC
  <2>2. onceState' \in [Revs -> {"new", "running", "done"}]
    BY <1>7 DEF OnceDo, TypeOK
  <2> QED
    BY <1>7, <2>1, <2>2 DEF OnceDo, TypeOK, storeVars, queryVars, evalVars, outVars
<1>8. CASE Prepare(r)
  BY <1>8 DEF Prepare, PrepareForEval, Revs, TypeOK, PC, Goto, storeVars, queryVars, evalVars, outVars
<1>9. CASE SetPreparedQuery(r)
  <2>1. pc' \in [Requests -> PC]
    <3>1. \/ pc' = [pc EXCEPT ![r] = "load"]
          \/ pc' = [pc EXCEPT ![r] = "stop"]
      BY <1>9 DEF SetPreparedQuery, Fail, Goto
    <3> QED
      BY <3>1 DEF TypeOK, PC
  <2>2. err' \in [Requests -> Errors]
    BY <1>9 DEF SetPreparedQuery, Fail, TypeOK
  <2>3. onceState' \in [Revs -> {"new", "running", "done"}]
    BY <1>9 DEF SetPreparedQuery, TypeOK
  <2>4. preparedQuery' \in Revs \cup {NoQuery, ZeroQuery}
    BY <1>9 DEF SetPreparedQuery, TypeOK
  <2> QED
    BY <1>9, <2>1, <2>2, <2>3, <2>4 DEF SetPreparedQuery, TypeOK, storeVars, queryVars, evalVars, outVars
<1>10. CASE LoadPreparedQuery(r)
  <2>1. pc' \in [Requests -> PC]
    <3>1. \/ pc' = [pc EXCEPT ![r] = "evaluating"]
          \/ pc' = pc
      BY <1>10 DEF LoadPreparedQuery, Goto
    <3> QED
      BY <3>1 DEF TypeOK, PC
  <2>2. pq' \in [Requests -> Revs \cup {NoQuery, ZeroQuery}]
    BY <1>10 DEF LoadPreparedQuery, TypeOK
  <2>3. crashed' \in BOOLEAN
    BY <1>10 DEF LoadPreparedQuery, TypeOK
  <2> QED
    BY <1>10, <2>1, <2>2, <2>3 DEF LoadPreparedQuery, TypeOK, storeVars, queryVars, evalVars, outVars
<1>11. CASE EvalQuery(r)
  <2>1. \A d \in Decisions : [decision |-> d, policy |-> pq[r], data |-> dataRev] \in Results
    BY <1>11 DEF EvalQuery, CallInv, TypeOK, Results
  <2>2. pc' \in [Requests -> PC]
    <3>1. \/ pc' = [pc EXCEPT ![r] = "respond"]
          \/ pc' = [pc EXCEPT ![r] = "stop"]
      BY <1>11 DEF EvalQuery, Fail, Goto
    <3> QED
      BY <3>1 DEF TypeOK, PC
  <2>3. err' \in [Requests -> Errors]
    BY <1>11 DEF EvalQuery, Fail, TypeOK
  <2>4. result' \in [Requests -> {NoResult} \cup Results]
    BY <1>11, <2>1 DEF EvalQuery, TypeOK
  <2> QED
    BY <1>11, <2>2, <2>3, <2>4 DEF EvalQuery, TypeOK, storeVars, queryVars, evalVars, outVars
<1>12. CASE Respond(r)
  <2>1. BuildResponse(result[r].decision, DryRun, r) \in Responses(Requests)
    BY <1>12, BuildResponseType DEF Respond, CallInv, TypeOK, Results
  <2>2. Count(metric, DurationMetric) \in [MetricKeys -> Nat]
    BY CountType DEF TypeOK, MetricKeys
  <2>3. pc' \in [Requests -> PC]
    <3>1. pc' = [pc EXCEPT ![r] = "stop"]
      BY <1>12 DEF Respond, Fail, Goto
    <3> QED
      BY <3>1 DEF TypeOK, PC
  <2>4. err' \in [Requests -> Errors]
    BY <1>12 DEF Respond, Fail, TypeOK
  <2>5. resp' \in [Requests -> {NilResp} \cup Responses(Requests)]
    BY <1>12, <2>1 DEF Respond, TypeOK
  <2>6. metric' \in [MetricKeys -> Nat]
    BY <1>12, <2>2 DEF Respond, TypeOK
  <2> QED
    BY <1>12, <2>3, <2>4, <2>5, <2>6 DEF Respond, TypeOK, storeVars, queryVars, evalVars, outVars
<1>13. CASE LogDecision(r)
  <2>1. CountError(metric, err[r]) \in [MetricKeys -> Nat]
    BY CountErrorType DEF TypeOK
  <2>2. LogEntry(r) \in Entries
    BY DEF LogEntry, Entries, TypeOK, Results, NoResult
  <2> QED
    BY <1>13, <2>1, <2>2 DEF LogDecision, TypeOK, PC, Goto, storeVars, queryVars, evalVars, outVars
<1>14. CASE CloseTxn(r)
  <2>1. Count(metric, LogErrorReason) \in [MetricKeys -> Nat]
    BY CountType DEF TypeOK, MetricKeys
  <2>2. resp[r] # NilResp => ApplyStop(resp[r], entry[r] = LogFailed) \in Responses(Requests)
    BY ApplyStopType DEF TypeOK
  <2> QED
    BY <1>14, <2>1, <2>2 DEF CloseTxn, TypeOK, PC, Goto, storeVars, queryVars, evalVars, outVars
<1>15. CASE Cancel(r)
  BY <1>15 DEF Cancel, TypeOK, PC, Goto, storeVars, queryVars, evalVars, outVars
<1> QED
  BY <1>1, <1>2, <1>3, <1>4, <1>5, <1>6, <1>7, <1>8, <1>9, <1>10, <1>11, <1>12, <1>13, <1>14, <1>15 DEF CallAction, CheckStep

\* All variables keep their types.
LEMMA TypeStep ==
  ASSUME Coherent, [Next]_vars
  PROVE  TypeOK'
<1>1. ASSUME WriteAction PROVE TypeOK'
  <2>1. StoreType /\ StoreInv
    BY DEF Coherent, TypeOK, StoreType
  <2>2. StoreType'
    BY <1>1, <2>1, StoreTypeStep
  <2> QED
    BY <1>1, <2>2, WriterFrame DEF Coherent, TypeOK, StoreType, evalVars, outVars
<1>2. ASSUME NEW r \in Requests, CallAction(r) PROVE TypeOK'
  BY <1>2, CallTypeStep
<1>3. CASE UNCHANGED vars
  BY <1>3 DEF Coherent, TypeOK, vars, storeVars, queryVars, evalVars, outVars
<1> QED
  BY <1>1, <1>2, <1>3, StepCases

-----------------------------------------------------------------------------
(***************************************************************************)
(* The reader-writer lock.                                                 *)
(***************************************************************************)
\* Only a call that opens or closes its transaction changes the readers, and
\* it does so together with its place.
LEMMA LockCall ==
  ASSUME Coherent, NEW r \in Requests, CallAction(r)
  PROVE  /\ readers' = {q \in Requests : pc'[q] \in InTxn}
         /\ writer \in {"committed", "compiled", "triggered"} => readers' \subseteq readers
<1> TypeOK /\ LockInv
  BY DEF Coherent
<1>0. \A q \in Requests : q # r => pc'[q] = pc[q]
  BY OtherCalls
<1>1. CASE NewEvalResult(r)
  BY <1>0, <1>1 DEF NewEvalResult, FailEarly, Goto, TypeOK, LockInv, InTxn, PC
<1>2. CASE GetTxn(r)
  <2>1. CASE CanRLock /\ readers' = readers \cup {r} /\ pc' = [pc EXCEPT ![r] = "parse"]
    BY <1>0, <2>1 DEF CanRLock, TypeOK, LockInv, InTxn, PC
  <2>2. CASE readers' = readers /\ pc' = [pc EXCEPT ![r] = "done"]
    BY <1>0, <1>2, <2>2 DEF GetTxn, TypeOK, LockInv, InTxn, PC
  <2> QED
    BY <1>2, <2>1, <2>2 DEF GetTxn, FailEarly, Goto
<1>3. CASE RequestToInput(r)
  BY <1>0, <1>3 DEF RequestToInput, Fail, Goto, TypeOK, LockInv, InTxn, PC
<1>4. CASE BeforeEval(r)
  BY <1>0, <1>4 DEF BeforeEval, Fail, Goto, TypeOK, LockInv, InTxn, PC
<1>5. CASE getRevision(r)
  BY <1>0, <1>5 DEF getRevision, Fail, Goto, TypeOK, LockInv, InTxn, PC
<1>6. CASE LoadOnce(r)
  BY <1>0, <1>6 DEF LoadOnce, Goto, TypeOK, LockInv, InTxn, PC
<1>7. CASE OnceDo(r)
  BY <1>0, <1>7 DEF OnceDo, Goto, TypeOK, LockInv, InTxn, PC
<1>8. CASE Prepare(r)
  BY <1>0, <1>8 DEF Prepare, Goto, TypeOK, LockInv, InTxn, PC
<1>9. CASE SetPreparedQuery(r)
  BY <1>0, <1>9 DEF SetPreparedQuery, Fail, Goto, TypeOK, LockInv, InTxn, PC
<1>10. CASE LoadPreparedQuery(r)
  BY <1>0, <1>10 DEF LoadPreparedQuery, Goto, TypeOK, LockInv, InTxn, PC
<1>11. CASE EvalQuery(r)
  BY <1>0, <1>11 DEF EvalQuery, Fail, Goto, TypeOK, LockInv, InTxn, PC
<1>12. CASE Respond(r)
  BY <1>0, <1>12 DEF Respond, Fail, Goto, TypeOK, LockInv, InTxn, PC
<1>13. CASE LogDecision(r)
  BY <1>0, <1>13 DEF LogDecision, Goto, TypeOK, LockInv, InTxn, PC
<1>14. CASE CloseTxn(r)
  BY <1>0, <1>14 DEF CloseTxn, Goto, TypeOK, LockInv, InTxn, PC
<1>15. CASE Cancel(r)
  BY <1>0, <1>15 DEF Cancel, Goto, TypeOK, LockInv, InTxn, PC
<1> QED
  BY <1>1, <1>2, <1>3, <1>4, <1>5, <1>6, <1>7, <1>8, <1>9, <1>10, <1>11, <1>12, <1>13, <1>14, <1>15
     DEF CallAction, CheckStep

\* A commit is applied only when no reader is left, and none gets in until it
\* is done.
LEMMA LockStep ==
  ASSUME Coherent, [Next]_vars
  PROVE  LockInv'
<1> LockInv
  BY DEF Coherent
<1>1. ASSUME WriteAction PROVE LockInv'
  <2>1. readers' = readers /\ pc' = pc
    BY <1>1, WriterFrame
  <2>2. writer' \in {"committed", "compiled", "triggered"} => readers = {}
    BY <1>1 DEF WriteAction, WriterStep, BeginWrite, AbortWrite, CommitLock, CommitStore,
                LockGranted, onCommit, compilerUpdated, CommitUnlock, LockInv
  <2> QED
    BY <2>1, <2>2 DEF LockInv
<1>2. ASSUME NEW r \in Requests, CallAction(r) PROVE LockInv'
  <2>1. writer' = writer
    BY <1>2, CallFrame DEF storeVars
  <2> QED
    BY <1>2, <2>1, LockCall DEF LockInv
<1>3. CASE UNCHANGED vars
  BY <1>3 DEF LockInv, vars, storeVars
<1> QED
  BY <1>1, <1>2, <1>3, StepCases

-----------------------------------------------------------------------------
(***************************************************************************)
(* The Once and the query it publishes.                                    *)
(***************************************************************************)
\* A call changes the state of the Once in two places: it enters Do, which no
\* call had entered, or leaves it having published the query.
LEMMA OnceCall ==
  ASSUME Coherent, NEW r \in Requests, CallAction(r)
  PROVE  \/ /\ UNCHANGED <<onceState, preparedQuery>>
            /\ pc'[r] \in Preparing => pc[r] \in Preparing
         \/ /\ onceState[once] = "new"
            /\ onceState' = [onceState EXCEPT ![once] = "running"]
            /\ pc'[r] = "prepare"
            /\ UNCHANGED preparedQuery
         \/ /\ pc[r] = "setquery"
            /\ onceState' = [onceState EXCEPT ![once] = "done"]
            /\ preparedQuery' = PrepareForEval(once)
            /\ pc'[r] \in {"load", "stop"}
<1> TypeOK /\ CallInv(r)
  BY DEF Coherent
<1>1. CASE NewEvalResult(r)
  BY <1>1 DEF NewEvalResult, FailEarly, Goto, TypeOK, Preparing, queryVars
<1>2. CASE GetTxn(r)
  BY <1>2 DEF GetTxn, FailEarly, Goto, TypeOK, Preparing, queryVars
<1>3. CASE RequestToInput(r)
  BY <1>3 DEF RequestToInput, Fail, Goto, TypeOK, Preparing, queryVars
<1>4. CASE BeforeEval(r)
  BY <1>4 DEF BeforeEval, Fail, Goto, TypeOK, Preparing, queryVars
<1>5. CASE getRevision(r)
  BY <1>5 DEF getRevision, Fail, Goto, TypeOK, Preparing, queryVars
<1>6. CASE LoadOnce(r)
  BY <1>6 DEF LoadOnce, Goto, TypeOK, Preparing, queryVars
<1>7. CASE OnceDo(r)
  BY <1>7 DEF OnceDo, Goto, TypeOK, Preparing, CallInv
<1>8. CASE Prepare(r)
  BY <1>8 DEF Prepare, Goto, TypeOK, Preparing, queryVars
<1>9. CASE SetPreparedQuery(r)
  BY <1>9 DEF SetPreparedQuery, Fail, Goto, TypeOK, Preparing, CallInv
<1>10. CASE LoadPreparedQuery(r)
  BY <1>10 DEF LoadPreparedQuery, Goto, TypeOK, Preparing, queryVars
<1>11. CASE EvalQuery(r)
  BY <1>11 DEF EvalQuery, Fail, Goto, TypeOK, Preparing, queryVars
<1>12. CASE Respond(r)
  BY <1>12 DEF Respond, Fail, Goto, TypeOK, Preparing, queryVars
<1>13. CASE LogDecision(r)
  BY <1>13 DEF LogDecision, Goto, TypeOK, Preparing, queryVars
<1>14. CASE CloseTxn(r)
  BY <1>14 DEF CloseTxn, Goto, TypeOK, Preparing, queryVars
<1>15. CASE Cancel(r)
  BY <1>15 DEF Cancel, Goto, TypeOK, Preparing, queryVars
<1> QED
  BY <1>1, <1>2, <1>3, <1>4, <1>5, <1>6, <1>7, <1>8, <1>9, <1>10, <1>11, <1>12, <1>13, <1>14, <1>15
     DEF CallAction, CheckStep

\* The Once made for a new compiler is unused, and whoever evaluates later finds
\* a query of that compiler.
LEMMA OnceStep ==
  ASSUME Coherent, [Next]_vars
  PROVE  OnceInv'
<1> USE ConstantsAssumption
<1> TypeOK /\ OnceInv /\ StoreInv
  BY DEF Coherent
<1>1. ASSUME WriteAction PROVE OnceInv'
  <2>1. UNCHANGED <<onceState, preparedQuery, pc>>
    BY <1>1, WriterFrame
  <2>2. once' = once \/ (once' = once + 1 /\ once' \in Revs)
    <3>1. StoreType' /\ StoreType
      BY <1>1, StoreTypeStep DEF TypeOK, StoreType
    <3> QED
      BY <1>1, <3>1 DEF WriteAction, WriterStep, BeginWrite, AbortWrite, CommitLock, CommitStore,
                  onCommit, compilerUpdated, CommitUnlock, queryVars, StoreType
  <2>3. CASE once' = once
    BY <2>1, <2>3 DEF OnceInv, PrepareForEval
  <2>4. CASE once' = once + 1 /\ once' \in Revs
    BY <2>1, <2>4 DEF OnceInv, TypeOK, Revs
  <2> QED
    BY <2>2, <2>3, <2>4
<1>2. ASSUME NEW r \in Requests, CallAction(r) PROVE OnceInv'
  <2>1. once' = once
    BY <1>2, CallFrame
  <2>2. \A q \in Requests : q # r => pc'[q] = pc[q]
    BY <1>2, OtherCalls
  <2>3. \A q \in Requests : pc[q] \in Preparing => onceState[once] = "running"
    BY DEF Coherent, CallInv
  <2>4. \A o \in Revs : o > once => onceState'[o] = "new"
    <3>1. \A o \in Revs : o # once => onceState'[o] = onceState[o]
      BY <1>2, OnceCall DEF TypeOK
    <3>2. \A o \in Revs : o > once => o # once
      BY DEF TypeOK, Revs
    <3> QED
      BY <3>1, <3>2 DEF OnceInv
  <2>5. onceState'[once] = "done" => preparedQuery' = PrepareForEval(once)
    BY <1>2, OnceCall DEF OnceInv, TypeOK
  <2>6. \A q, t \in Requests : pc'[q] \in Preparing /\ pc'[t] \in Preparing => q = t
    BY <1>2, <2>2, <2>3, OnceCall DEF OnceInv, Preparing
  <2> QED
    BY <2>1, <2>4, <2>5, <2>6 DEF OnceInv, PrepareForEval
<1>3. CASE UNCHANGED vars
  BY <1>3 DEF OnceInv, PrepareForEval, vars, queryVars
<1> QED
  BY <1>1, <1>2, <1>3, StepCases

-----------------------------------------------------------------------------
(***************************************************************************)
(* What a call holds.                                                      *)
(***************************************************************************)
\* The call that takes the step.
LEMMA OwnCall ==
  ASSUME Coherent, NEW r \in Requests, CallAction(r)
  PROVE  CallInv(r)'
<1> USE ConstantsAssumption
<1> TypeOK /\ CallInv(r) /\ StoreInv /\ LockInv /\ OnceInv
  BY DEF Coherent
<1>0. UNCHANGED <<policyRev, dataRev, compiler, writer, once>>
  BY CallFrame DEF storeVars
<1>1. CASE NewEvalResult(r)
  BY <1>0, <1>1 DEF NewEvalResult, FailEarly, Goto, TypeOK, CallInv, Preparing, InTxn, PC, queryVars, evalVars
<1>2. CASE GetTxn(r)
  BY <1>0, <1>2 DEF GetTxn, FailEarly, Goto, TypeOK, CallInv, Preparing, InTxn, PC, queryVars, evalVars
<1>3. CASE RequestToInput(r)
  BY <1>0, <1>3 DEF RequestToInput, Fail, Goto, TypeOK, CallInv, Preparing, InTxn, PC, queryVars, evalVars
<1>4. CASE BeforeEval(r)
  BY <1>0, <1>4 DEF BeforeEval, Fail, Goto, TypeOK, CallInv, Preparing, InTxn, PC, queryVars, evalVars
<1>5. CASE getRevision(r)
  BY <1>0, <1>5 DEF getRevision, Fail, Goto, TypeOK, CallInv, Preparing, InTxn, PC, queryVars, evalVars
<1>6. CASE LoadOnce(r)
  BY <1>0, <1>6 DEF LoadOnce, Goto, TypeOK, CallInv, Preparing, InTxn, PC, queryVars, evalVars
<1>7. CASE OnceDo(r)
  BY <1>0, <1>7 DEF OnceDo, Goto, TypeOK, CallInv, Preparing, InTxn, PC, evalVars
<1>8. CASE Prepare(r)
  BY <1>0, <1>8 DEF Prepare, Goto, TypeOK, CallInv, Preparing, InTxn, PC, queryVars, evalVars, PrepareForEval, StoreInv, LockInv, Uncompiled, Unnotified
<1>9. CASE SetPreparedQuery(r)
  BY <1>0, <1>9 DEF SetPreparedQuery, Fail, Goto, TypeOK, CallInv, Preparing, InTxn, PC, queryVars, evalVars, PrepareForEval
<1>10. CASE LoadPreparedQuery(r)
  BY <1>0, <1>10 DEF LoadPreparedQuery, Goto, TypeOK, CallInv, Preparing, InTxn, PC, queryVars, evalVars, PrepareForEval, OnceInv, Revs, ZeroQuery
<1>11. CASE EvalQuery(r)
  <2>1. \A d : [decision |-> d, policy |-> once, data |-> dataRev] # NoResult
    BY DEF NoResult, NoRev, TypeOK, Revs
  <2>2. pc'[r] \in {"respond", "stop"} /\ UNCHANGED snap
    BY <1>11 DEF EvalQuery, Fail, Goto, TypeOK
  <2>3. pc'[r] = "respond" => result'[r] # NoResult
    BY <1>11, <2>1 DEF EvalQuery, Fail, Goto, TypeOK, CallInv
  <2> QED
    BY <1>0, <1>11, <2>2, <2>3 DEF EvalQuery, CallInv, Preparing, InTxn, PC
<1>12. CASE Respond(r)
  BY <1>0, <1>12 DEF Respond, Fail, Goto, TypeOK, CallInv, Preparing, InTxn, PC, queryVars, evalVars
<1>13. CASE LogDecision(r)
  BY <1>0, <1>13 DEF LogDecision, Goto, TypeOK, CallInv, Preparing, InTxn, PC, queryVars, evalVars
<1>14. CASE CloseTxn(r)
  BY <1>0, <1>14 DEF CloseTxn, Goto, TypeOK, CallInv, Preparing, InTxn, PC, queryVars, evalVars
<1>15. CASE Cancel(r)
  BY <1>0, <1>15 DEF Cancel, Goto, TypeOK, CallInv, Preparing, InTxn, PC, queryVars, evalVars
<1> QED
  BY <1>1, <1>2, <1>3, <1>4, <1>5, <1>6, <1>7, <1>8, <1>9, <1>10, <1>11, <1>12, <1>13, <1>14, <1>15
     DEF CallAction, CheckStep

\* Every call, whoever takes the step.
LEMMA CallStep ==
  ASSUME Coherent, [Next]_vars, NEW q \in Requests
  PROVE  CallInv(q)'
<1> TypeOK /\ CallInv(q) /\ LockInv /\ OnceInv
  BY DEF Coherent
<1>1. ASSUME WriteAction PROVE CallInv(q)'
  <2>1. UNCHANGED <<readers, onceState, preparedQuery, pc, evalVars, snap>>
    BY <1>1, WriterFrame
  <2>2. CASE pc[q] \in InTxn
    <3>1. readers # {}
      BY <2>2 DEF LockInv
    <3>2. UNCHANGED <<policyRev, dataRev, once>>
      BY <1>1, <3>1 DEF WriteAction, WriterStep, BeginWrite, AbortWrite, CommitLock,
                        CommitStore, LockGranted, onCommit, compilerUpdated, CommitUnlock,
                        queryVars, LockInv
    <3> QED
      BY <2>1, <3>2 DEF CallInv, evalVars, PrepareForEval
  <2>3. CASE pc[q] \notin InTxn
    BY <2>1, <2>3 DEF CallInv, TypeOK, InTxn, PC, Preparing, evalVars
  <2> QED
    BY <2>2, <2>3
<1>2. ASSUME NEW r \in Requests, CallAction(r) PROVE CallInv(q)'
  <2>1. CASE q = r
    BY <1>2, <2>1, OwnCall
  <2>2. CASE q # r
    <3>1. UNCHANGED <<policyRev, dataRev, once>>
      BY <1>2, CallFrame DEF storeVars
    <3>2. /\ pc'[q] = pc[q] /\ myOnce'[q] = myOnce[q] /\ pq'[q] = pq[q]
          /\ revision'[q] = revision[q] /\ result'[q] = result[q] /\ snap'[q] = snap[q]
      BY <1>2, <2>2, OtherCalls
    <3>3. pc[q] \in Preparing => onceState'[once] = "running"
      BY <1>2, <2>2, OnceCall DEF CallInv, OnceInv, Preparing, TypeOK
    <3>4. pc[q] = "load" => onceState'[once] = "done"
      BY <1>2, OnceCall DEF CallInv, TypeOK
    <3> QED
      BY <3>1, <3>2, <3>3, <3>4 DEF CallInv, PrepareForEval
  <2> QED
    BY <2>1, <2>2
<1>3. CASE UNCHANGED vars
  BY <1>3 DEF CallInv, PrepareForEval, vars, storeVars, queryVars, evalVars
<1> QED
  BY <1>1, <1>2, <1>3, StepCases

\* A result, once there, stays with the snapshot and the revision it was
\* computed from; a new one comes from the snapshot of its call.
LEMMA SnapshotStep ==
  ASSUME Coherent, [Next]_vars
  PROVE  OneSnapshot'
<1> TypeOK /\ OneSnapshot
  BY DEF Coherent
<1>1. CASE WriteAction
  BY <1>1, WriterFrame DEF OneSnapshot, evalVars
<1>2. ASSUME NEW r \in Requests, CallAction(r) PROVE OneSnapshot'
  <2> CallInv(r)
    BY DEF Coherent
  <2>1. CASE GetTxn(r)
    BY <2>1 DEF GetTxn, CallInv, OneSnapshot, TypeOK, evalVars
  <2>2. CASE getRevision(r)
    BY <2>2 DEF getRevision, CallInv, OneSnapshot, TypeOK
  <2>3. CASE EvalQuery(r)
    <3>1. UNCHANGED <<revision, snap>>
      BY <2>3 DEF EvalQuery
    <3>2. \/ UNCHANGED result
          \/ \E d \in Decisions :
               result' = [result EXCEPT ![r] = [decision |-> d, policy |-> once, data |-> dataRev]]
      BY <2>3 DEF EvalQuery, CallInv
    <3>3. policyRev = once
      <4>1. r \in readers
        BY <2>3 DEF EvalQuery, Coherent, LockInv, InTxn, PC
      <4> QED
        BY <4>1 DEF Coherent, LockInv, StoreInv, Unnotified, Uncompiled, TypeOK, Revs
    <3>4. /\ snap[r].policy = once /\ snap[r].data = dataRev
          /\ revision[r] = dataRev
      BY <2>3, <3>3 DEF EvalQuery, CallInv, InTxn, PC
    <3>5. CASE UNCHANGED result
      BY <3>1, <3>5 DEF OneSnapshot
    <3>6. ASSUME NEW d \in Decisions,
                 result' = [result EXCEPT ![r] = [decision |-> d, policy |-> once,
                                                  data |-> dataRev]]
          PROVE  OneSnapshot'
      <4>1. /\ result'[r].policy = once
            /\ result'[r].data = dataRev
        BY <3>6 DEF TypeOK
      <4>2. \A q \in Requests : q # r => result'[q] = result[q]
        BY <3>6 DEF TypeOK
      <4> QED
        BY <3>1, <3>4, <4>1, <4>2 DEF OneSnapshot
    <3> QED
      BY <3>2, <3>5, <3>6
  <2>4. CASE UNCHANGED <<revision, result, snap>>
    BY <2>4 DEF OneSnapshot
  <2> QED
    BY <1>2, <2>1, <2>2, <2>3, <2>4
       DEF CallAction, CheckStep, NewEvalResult, RequestToInput, BeforeEval, LoadOnce, OnceDo,
           Prepare, SetPreparedQuery, LoadPreparedQuery, Respond, LogDecision, CloseTxn,
           Cancel, evalVars
<1>3. CASE UNCHANGED vars
  BY <1>3 DEF OneSnapshot, vars, evalVars
<1> QED
  BY <1>1, <1>2, <1>3, StepCases

-----------------------------------------------------------------------------
(***************************************************************************)
(* The theorems.                                                           *)
(***************************************************************************)
\* The server starts in a coherent state: policies compiled, nothing cached.
LEMMA InitCoherent == Init => Coherent
<1> SUFFICES ASSUME Init PROVE Coherent
  OBVIOUS
<1> USE ConstantsAssumption
<1>0. 0 \in Revs
  BY DEF Revs
<1>1. TypeOK
  <2>1. err \in [Requests -> Errors]
    BY DEF Init, NoErr, internalError, Errors, Plain
  <2>2. crashed \in BOOLEAN /\ ctxDone \in [Requests -> BOOLEAN]
    BY DEF Init
  <2>3. snap \in [Requests -> [policy : Revs \cup {NoRev}, data : Revs \cup {NoRev}]]
    BY DEF Init
  <2> QED
    BY <1>0, <2>1, <2>2, <2>3 DEF Init, TypeOK, Changes, PC
<1>2. StoreInv
  BY DEF Init, StoreInv, Uncompiled, Unnotified
<1>3. LockInv
  BY DEF Init, LockInv, InTxn
<1>4. OnceInv
  BY <1>0 DEF Init, OnceInv, Preparing
<1>5. \A r \in Requests : CallInv(r)
  BY DEF Init, CallInv, InTxn, Preparing
<1>6. OneSnapshot
  BY DEF Init, OneSnapshot
<1> QED
  BY <1>1, <1>2, <1>3, <1>4, <1>5, <1>6 DEF Coherent

\* Every step keeps it coherent.
LEMMA StepCoherent == Coherent /\ [Next]_vars => Coherent'
<1> SUFFICES ASSUME Coherent, [Next]_vars PROVE Coherent'
  OBVIOUS
<1>1. TypeOK'
  BY TypeStep
<1>2. StoreInv'
  <2>1. ASSUME WriteAction PROVE StoreInv'
    BY <2>1, StoreTypeStep DEF Coherent, TypeOK, StoreType
  <2>2. ASSUME NEW r \in Requests, CallAction(r) PROVE StoreInv'
    BY <2>2, CallFrame DEF Coherent, StoreInv, Uncompiled, Unnotified, storeVars
  <2>3. CASE UNCHANGED vars
    BY <2>3 DEF Coherent, StoreInv, Uncompiled, Unnotified, vars, storeVars, queryVars
  <2> QED
    BY <2>1, <2>2, <2>3, StepCases
<1>3. LockInv'
  BY LockStep
<1>4. OnceInv'
  BY OnceStep
<1>5. \A r \in Requests : CallInv(r)'
  BY CallStep
<1>6. OneSnapshot'
  BY SnapshotStep
<1> QED
  BY <1>1, <1>2, <1>3, <1>4, <1>5, <1>6 DEF Coherent

\* The inductive invariant of the server.
THEOREM CoherentAlways == Spec => []Coherent
BY InitCoherent, StepCoherent, PTL DEF Spec

\* Type correctness of the server, for all constants.
THEOREM TypeCorrect == Spec => []TypeOK
<1>1. Coherent => TypeOK
  BY DEF Coherent
<1> QED
  BY <1>1, CoherentAlways, PTL

\* Whatever calls and commits interleave, a decision rests on the policies,
\* documents and logged revision of one moment: compilerUpdated replacing the
\* Once and the shared prepared query never mix two versions.
THEOREM DecisionsAreConsistent == Spec => []OneSnapshot
<1>1. Coherent => OneSnapshot
  BY DEF Coherent
<1> QED
  BY <1>1, CoherentAlways, PTL

\* The fields preparedQueryDoOnce and preparedQuery need no mutex of their own.
THEOREM RaceFree == Spec => []NoDataRace
<1>1. Coherent => NoDataRace
  <2> SUFFICES ASSUME Coherent, NEW r \in Requests
               PROVE  /\ writer = "compiled" => pc[r] # "once"
                      /\ pc[r] = "setquery" =>
                           \A s \in Requests : pc[s] \notin {"setquery", "load"} \/ s = r
    BY DEF NoDataRace
  <2>1. writer = "compiled" => pc[r] # "once"
    BY DEF Coherent, LockInv, InTxn, PC
  <2>2. ASSUME pc[r] = "setquery", NEW s \in Requests, pc[s] \in {"setquery", "load"}
        PROVE  s = r
    BY <2>2 DEF Coherent, OnceInv, CallInv, Preparing
  <2> QED
    BY <2>1, <2>2
<1> QED
  BY <1>1, CoherentAlways, PTL

\* The writer and the calls exclude each other step by step.
THEOREM WritersWait == Spec => WritersExcludeReaders
<1>1. Coherent /\ [Next]_vars =>
        [readers # {} => UNCHANGED <<policyRev, dataRev, compiler, once>>]_vars
  <2> SUFFICES ASSUME Coherent, [Next]_vars, readers # {}
               PROVE  UNCHANGED <<policyRev, dataRev, compiler, once>>
    OBVIOUS
  <2>1. CASE WriteAction
    BY <2>1 DEF Coherent, LockInv, WriteAction, WriterStep, BeginWrite, AbortWrite,
                CommitLock, CommitStore, LockGranted, onCommit, compilerUpdated,
                CommitUnlock, queryVars
  <2>2. ASSUME NEW r \in Requests, CallAction(r)
        PROVE  UNCHANGED <<policyRev, dataRev, compiler, once>>
    BY <2>2, CallFrame DEF storeVars
  <2>3. CASE UNCHANGED vars
    BY <2>3 DEF vars, storeVars, queryVars
  <2> QED
    BY <2>1, <2>2, <2>3, StepCases
<1> QED
  BY <1>1, CoherentAlways, PTL DEF Spec, WritersExcludeReaders

-----------------------------------------------------------------------------
(***************************************************************************)
(* The answers.  FailClosed and AnswersAreLogged speak of a call that has  *)
(* returned.  The inductive invariant follows its error, response and log  *)
(* entry from the start: nothing of the three before the deferred stop()   *)
(* runs; from then on a call has a response only when it has no error, and *)
(* it is the one its decision makes; after stop() the entry is the one of  *)
(* that decision or a failure, and a failure has replaced the status.      *)
(***************************************************************************)
\* Where check() has neither failed nor built a response.
Before == PC \ {"stop", "close", "done"}

\* A call without an error whose response is its decision's.
Decided(r) ==
  err[r] = NoErr /\ result[r] # NoResult /\ ~ResultErr(result[r].decision)

Written(r) ==
  entry[r] = LogFailed \/ (LoggerConfigured => entry[r] = LogEntry(r))

AnswerInv(r) ==
  /\ pc[r] \in Before => err[r] = NoErr /\ resp[r] = NilResp
  /\ pc[r] \in {"stop", "close"} /\ resp[r] # NilResp =>
       Decided(r) /\ resp[r] = BuildResponse(result[r].decision, DryRun, r)
  /\ pc[r] = "done" /\ resp[r] # NilResp =>
       /\ Decided(r)
       /\ resp[r] = ApplyStop(BuildResponse(result[r].decision, DryRun, r),
                              entry[r] = LogFailed)
  /\ pc[r] \in {"close", "done"} /\ resp[r] # NilResp => Written(r)

Answers == \A r \in Requests : AnswerInv(r)

-----------------------------------------------------------------------------
\* The status of a response before stop(): the verdict, or OK in dry-run mode.
LEMMA BuiltStatus ==
  ASSUME NEW d, NEW id
  PROVE  BuildResponse(d, DryRun, id).status =
           IF IsAllowed(d) \/ DryRun THEN Code_OK ELSE Code_PERMISSION_DENIED
<1>1. DecisionResponse(d, id).status = IF IsAllowed(d) THEN Code_OK ELSE Code_PERMISSION_DENIED
  BY DEF DecisionResponse
<1>2. dryRunOverride(DecisionResponse(d, id)).status = Code_OK
  BY DEF dryRunOverride, DecisionResponse
<1> QED
  BY <1>1, <1>2, ConstantsAssumption DEF BuildResponse

\* What Check makes of it (internal/internal.go 360): UNKNOWN when the log failed.
LEMMA AnswerStatus ==
  ASSUME NEW d \in AllDecisions, NEW id
  PROVE  /\ ApplyStop(BuildResponse(d, DryRun, id), TRUE).status = Code_UNKNOWN
         /\ ApplyStop(BuildResponse(d, DryRun, id), FALSE).status =
              IF IsAllowed(d) \/ DryRun THEN Code_OK ELSE Code_PERMISSION_DENIED
<1>1. BuildResponse(d, DryRun, id) \in Responses({id})
  BY BuildResponseType, ConstantsAssumption
<1>2. ApplyStop(BuildResponse(d, DryRun, id), TRUE).status = Code_UNKNOWN
  BY <1>1 DEF ApplyStop, Responses
<1> QED
  BY <1>2, BuiltStatus DEF ApplyStop

\* A step of one call does not touch error, response and entry of another.
LEMMA OtherAnswers ==
  ASSUME TypeOK, NEW r \in Requests, CallAction(r), NEW q \in Requests, q # r
  PROVE  err'[q] = err[q] /\ resp'[q] = resp[q] /\ entry'[q] = entry[q]
<1>1. CASE NewEvalResult(r)
  BY <1>1 DEF NewEvalResult, TypeOK, FailEarly, outVars
<1>2. CASE GetTxn(r)
  BY <1>2 DEF GetTxn, TypeOK, FailEarly, outVars
<1>3. CASE RequestToInput(r)
  BY <1>3 DEF RequestToInput, TypeOK, Fail, outVars
<1>4. CASE BeforeEval(r)
  BY <1>4 DEF BeforeEval, TypeOK, Fail, outVars
<1>5. CASE getRevision(r)
  BY <1>5 DEF getRevision, TypeOK, Fail, outVars
<1>6. CASE LoadOnce(r)
  BY <1>6 DEF LoadOnce, TypeOK, outVars
<1>7. CASE OnceDo(r)
  BY <1>7 DEF OnceDo, TypeOK, outVars
<1>8. CASE Prepare(r)
  BY <1>8 DEF Prepare, TypeOK, outVars
<1>9. CASE SetPreparedQuery(r)
  BY <1>9 DEF SetPreparedQuery, TypeOK, Fail, outVars
<1>10. CASE LoadPreparedQuery(r)
  BY <1>10 DEF LoadPreparedQuery, TypeOK, outVars
<1>11. CASE EvalQuery(r)
  BY <1>11 DEF EvalQuery, TypeOK, Fail, outVars
<1>12. CASE Respond(r)
  BY <1>12 DEF Respond, TypeOK, Fail, outVars
<1>13. CASE LogDecision(r)
  BY <1>13 DEF LogDecision, TypeOK, outVars
<1>14. CASE CloseTxn(r)
  BY <1>14 DEF CloseTxn, TypeOK, outVars
<1>15. CASE Cancel(r)
  BY <1>15 DEF Cancel, TypeOK, outVars
<1> QED
  BY <1>1, <1>2, <1>3, <1>4, <1>5, <1>6, <1>7, <1>8, <1>9, <1>10, <1>11, <1>12, <1>13, <1>14, <1>15
     DEF CallAction, CheckStep

\* The steps of check() up to the evaluation build no response; they go on
\* without an error or to the end with one.
QuietStep(r) ==
  \/ NewEvalResult(r) \/ GetTxn(r) \/ RequestToInput(r) \/ BeforeEval(r)
  \/ getRevision(r) \/ LoadOnce(r) \/ OnceDo(r) \/ Prepare(r)
  \/ SetPreparedQuery(r) \/ LoadPreparedQuery(r) \/ EvalQuery(r)

\* Where these steps lead.
LEMMA QuietSteps ==
  ASSUME TypeOK, NEW r \in Requests, QuietStep(r)
  PROVE  /\ pc[r] \in Before /\ resp' = resp
         /\ \/ pc'[r] \in Before /\ err'[r] = err[r]
            \/ pc'[r] \in {"stop", "done"}
<1>1. CASE NewEvalResult(r)
  BY <1>1 DEF NewEvalResult, TypeOK, Goto, FailEarly, Before, PC, outVars
<1>2. CASE GetTxn(r)
  BY <1>2 DEF GetTxn, TypeOK, Goto, FailEarly, Before, PC, outVars
<1>3. CASE RequestToInput(r)
  BY <1>3 DEF RequestToInput, TypeOK, Goto, Fail, Before, PC, outVars
<1>4. CASE BeforeEval(r)
  BY <1>4 DEF BeforeEval, TypeOK, Goto, Fail, Before, PC, outVars
<1>5. CASE getRevision(r)
  BY <1>5 DEF getRevision, TypeOK, Goto, Fail, Before, PC, outVars
<1>6. CASE LoadOnce(r)
  BY <1>6 DEF LoadOnce, TypeOK, Goto, Before, PC, outVars
<1>7. CASE OnceDo(r)
  BY <1>7 DEF OnceDo, TypeOK, Goto, Before, PC, outVars
<1>8. CASE Prepare(r)
  BY <1>8 DEF Prepare, TypeOK, Goto, Before, PC, outVars
<1>9. CASE SetPreparedQuery(r)
  BY <1>9 DEF SetPreparedQuery, TypeOK, Goto, Fail, Before, PC, outVars
<1>10. CASE LoadPreparedQuery(r)
  BY <1>10 DEF LoadPreparedQuery, TypeOK, Goto, Before, PC, outVars
<1>11. CASE EvalQuery(r)
  BY <1>11 DEF EvalQuery, TypeOK, Goto, Fail, Before, PC, outVars
<1> QED
  BY <1>1, <1>2, <1>3, <1>4, <1>5, <1>6, <1>7, <1>8, <1>9, <1>10, <1>11
     DEF QuietStep

\* Every step of a call keeps its own part of the invariant.
LEMMA OwnAnswer ==
  ASSUME TypeOK, NEW r \in Requests, CallInv(r), AnswerInv(r), CallAction(r)
  PROVE  AnswerInv(r)'
<1>1. CASE QuietStep(r)
  <2>1. resp'[r] = NilResp
    BY <1>1, QuietSteps DEF AnswerInv
  <2>2. pc'[r] \in Before => err'[r] = NoErr
    BY <1>1, QuietSteps DEF AnswerInv, Before
  <2> QED
    BY <2>1, <2>2 DEF AnswerInv
<1>2. CASE Respond(r)
  <2>1. err[r] = NoErr /\ resp[r] = NilResp /\ result[r] # NoResult /\ pc'[r] = "stop"
    BY <1>2 DEF Respond, AnswerInv, CallInv, Before, PC, Fail, Goto, TypeOK
  <2>2. CASE ResultErr(result[r].decision)
    <3>1. resp'[r] = NilResp
      BY <1>2, <2>1, <2>2 DEF Respond
    <3> QED
      BY <2>1, <3>1 DEF AnswerInv, Before
  <2>3. CASE ~ResultErr(result[r].decision)
    <3>1. resp'[r] = BuildResponse(result[r].decision, DryRun, r) /\ err' = err /\ result' = result
      BY <1>2, <2>3 DEF Respond, TypeOK, evalVars
    <3> QED
      BY <2>1, <2>3, <3>1 DEF AnswerInv, Before, Decided
  <2> QED
    BY <2>2, <2>3
<1>3. CASE LogDecision(r)
  <2>1. pc[r] = "stop" /\ pc'[r] = "close" /\ UNCHANGED <<err, resp, revision, result>>
    BY <1>3 DEF LogDecision, Goto, TypeOK, evalVars
  <2>2. entry'[r] = LogFailed \/ (LoggerConfigured => entry'[r] = LogEntry(r))
    BY <1>3 DEF LogDecision, TypeOK
  <2>3. LogEntry(r)' = LogEntry(r)
    BY <2>1 DEF LogEntry
  <2>4. Written(r)'
    BY <2>2, <2>3 DEF Written
  <2> QED
    BY <2>1, <2>4 DEF AnswerInv, Before, Decided
<1>4. CASE CloseTxn(r)
  <2>1. pc[r] = "close" /\ pc'[r] = "done" /\ UNCHANGED <<err, entry, revision, result>>
    BY <1>4 DEF CloseTxn, Goto, TypeOK, evalVars
  <2>2. CASE resp[r] = NilResp
    <3>1. resp'[r] = NilResp
      BY <1>4, <2>2 DEF CloseTxn
    <3> QED
      BY <2>1, <3>1 DEF AnswerInv, Before
  <2>3. CASE resp[r] # NilResp
    <3>1. resp'[r] = ApplyStop(resp[r], entry[r] = LogFailed)
      BY <1>4, <2>3 DEF CloseTxn, TypeOK
    <3>2. Decided(r) /\ resp[r] = BuildResponse(result[r].decision, DryRun, r) /\ Written(r)
      BY <2>1, <2>3 DEF AnswerInv
    <3>3. Decided(r)' /\ Written(r)'
      BY <2>1, <3>2 DEF Decided, Written, LogEntry
    <3>4. resp'[r] = ApplyStop(BuildResponse(result'[r].decision, DryRun, r), entry'[r] = LogFailed)
      BY <2>1, <3>1, <3>2
    <3> QED
      BY <2>1, <3>3, <3>4 DEF AnswerInv, Before
  <2> QED
    BY <2>2, <2>3
<1>5. CASE Cancel(r)
  <2>1. UNCHANGED <<pc, err, resp, entry, revision, result>>
    BY <1>5 DEF Cancel, evalVars, outVars
  <2> QED
    BY <2>1 DEF AnswerInv, Decided, Written, LogEntry
<1> QED
  BY <1>1, <1>2, <1>3, <1>4, <1>5 DEF CallAction, CheckStep, QuietStep

\* The invariant holds in every reachable state.
LEMMA AnswersInvariant == Spec => [](Coherent /\ Answers)
<1>1. Init => Answers
  BY DEF Init, Answers, AnswerInv, Before
<1>2. Coherent /\ Answers /\ [Next]_vars => Answers'
  <2> SUFFICES ASSUME Coherent, Answers, [Next]_vars, NEW q \in Requests PROVE AnswerInv(q)'
    BY DEF Answers
  <2> TypeOK /\ CallInv(q) /\ AnswerInv(q)
    BY DEF Coherent, Answers
  <2>1. CASE WriteAction \/ UNCHANGED vars
    <3>1. UNCHANGED <<pc, err, resp, entry, revision, result>>
      BY <2>1, WriterFrame DEF vars, evalVars, outVars
    <3> QED
      BY <3>1 DEF AnswerInv, Decided, Written, LogEntry
  <2>2. ASSUME NEW r \in Requests, CallAction(r) PROVE AnswerInv(q)'
    <3>1. CASE q = r
      BY <2>2, <3>1, OwnAnswer
    <3>2. CASE q # r
      <4>1. /\ pc'[q] = pc[q] /\ err'[q] = err[q] /\ resp'[q] = resp[q] /\ entry'[q] = entry[q]
            /\ revision'[q] = revision[q] /\ result'[q] = result[q]
        BY <2>2, <3>2, OtherCalls, OtherAnswers
      <4> QED
        BY <4>1 DEF AnswerInv, Decided, Written, LogEntry
    <3> QED
      BY <3>1, <3>2
  <2> QED
    BY <2>1, <2>2, StepCases
<1> QED
  BY <1>1, <1>2, CoherentAlways, PTL DEF Spec

-----------------------------------------------------------------------------
\* Fail closed: status OK only from a call without an error, whose decision
\* allows (or in dry-run mode) and was not lost by the decision log, for any
\* number of concurrent calls and any failures of check() and stop().
THEOREM FailsClosed == Spec => []FailClosed
<1>1. Coherent /\ Answers => FailClosed
  <2> SUFFICES ASSUME Coherent, Answers, NEW r \in Requests, pc[r] = "done",
                      resp[r].status = Code_OK
               PROVE  err[r] = NoErr /\ Permits(r) /\ entry[r] # LogFailed
    BY DEF FailClosed
  <2>1. resp[r] # NilResp
    BY DEF NilResp, Code_OK
  <2>2. Decided(r) /\ resp[r] = ApplyStop(BuildResponse(result[r].decision, DryRun, r), entry[r] = LogFailed)
    BY <2>1 DEF Answers, AnswerInv
  <2>3. result[r].decision \in AllDecisions
    BY <2>2, ConstantsAssumption DEF Coherent, TypeOK, Decided, Results
  <2>4. entry[r] # LogFailed
    BY <2>2, <2>3, AnswerStatus DEF Code_OK, Code_UNKNOWN
  <2>5. IsAllowed(result[r].decision) \/ DryRun
    BY <2>2, <2>3, <2>4, AnswerStatus DEF Code_OK, Code_PERMISSION_DENIED
  <2> QED
    BY <2>2, <2>4, <2>5 DEF Decided, Permits
<1> QED
  BY <1>1, AnswersInvariant, PTL

\* With a decision logger, every allow and every denial that Envoy receives is in
\* the log, with the decision of the policy and the revision it was made on.
THEOREM EnforcedIsLogged == Spec => []AnswersAreLogged
<1>1. Coherent /\ Answers => AnswersAreLogged
  <2> SUFFICES ASSUME Coherent, Answers, NEW r \in Requests, LoggerConfigured, pc[r] = "done",
                      resp[r].status \in {Code_OK, Code_PERMISSION_DENIED}
               PROVE  entry[r] = [kind |-> "event", revision |-> snap[r].data, error |-> NoErr,
                                  decision |-> result[r].decision]
    BY DEF AnswersAreLogged
  <2>1. resp[r] # NilResp
    BY DEF NilResp, Code_OK, Code_PERMISSION_DENIED
  <2>2. /\ Decided(r) /\ Written(r)
        /\ resp[r] = ApplyStop(BuildResponse(result[r].decision, DryRun, r), entry[r] = LogFailed)
    BY <2>1 DEF Answers, AnswerInv
  <2>3. result[r].decision \in AllDecisions
    BY <2>2, ConstantsAssumption DEF Coherent, TypeOK, Decided, Results
  <2>4. entry[r] # LogFailed
    BY <2>2, <2>3, AnswerStatus DEF Code_OK, Code_UNKNOWN, Code_PERMISSION_DENIED
  <2>5. entry[r] = LogEntry(r)
    BY <2>2, <2>4 DEF Written
  <2>6. revision[r] = snap[r].data
    BY <2>2 DEF Coherent, OneSnapshot, Decided
  <2> QED
    BY <2>2, <2>5, <2>6 DEF LogEntry, Decided
<1> QED
  BY <1>1, AnswersInvariant, PTL

-----------------------------------------------------------------------------
(***************************************************************************)
(* The refinement.  CommitStore is the Update of the service, EvalQuery    *)
(* its Decide, the last step of a call its Answer, the nil dereference its *)
(* Crash; all other steps change nothing Envoy can see.  Beyond Coherent   *)
(* and Answers the argument needs that a call has no result before its     *)
(* evaluation, so that it decides once.                                    *)
(***************************************************************************)
\* Where a call has not evaluated yet.
Undecided == Before \ {"respond"}

DecidesOnce == \A r \in Requests : pc[r] \in Undecided => result[r] = NoResult

Phases == [r \in Requests |-> PhaseOf(r)]
Replies == [r \in Requests |-> AnswerOf(r)]

-----------------------------------------------------------------------------
\* A call step keeps the result, except for the evaluation, which leaves the
\* places where a call has none.
LEMMA ResultKept ==
  ASSUME TypeOK, NEW r \in Requests, CallAction(r), ~EvalQuery(r)
  PROVE  result' = result /\ (pc'[r] \in Undecided => pc[r] \in Undecided)
<1>1. CASE NewEvalResult(r)
  BY <1>1 DEF NewEvalResult, TypeOK, Goto, FailEarly, evalVars, Undecided, Before, PC
<1>2. CASE GetTxn(r)
  BY <1>2 DEF GetTxn, TypeOK, Goto, FailEarly, evalVars, Undecided, Before, PC
<1>3. CASE RequestToInput(r)
  BY <1>3 DEF RequestToInput, TypeOK, Goto, Fail, evalVars, Undecided, Before, PC
<1>4. CASE BeforeEval(r)
  BY <1>4 DEF BeforeEval, TypeOK, Goto, Fail, evalVars, Undecided, Before, PC
<1>5. CASE getRevision(r)
  BY <1>5 DEF getRevision, TypeOK, Goto, Fail, Undecided, Before, PC
<1>6. CASE LoadOnce(r)
  BY <1>6 DEF LoadOnce, TypeOK, Goto, Undecided, Before, PC
<1>7. CASE OnceDo(r)
  BY <1>7 DEF OnceDo, TypeOK, Goto, evalVars, Undecided, Before, PC
<1>8. CASE Prepare(r)
  BY <1>8 DEF Prepare, TypeOK, Goto, Undecided, Before, PC
<1>9. CASE SetPreparedQuery(r)
  BY <1>9 DEF SetPreparedQuery, TypeOK, Goto, Fail, evalVars, Undecided, Before, PC
<1>10. CASE LoadPreparedQuery(r)
  BY <1>10 DEF LoadPreparedQuery, TypeOK, Goto, Undecided, Before, PC
<1>11. CASE Respond(r)
  BY <1>11 DEF Respond, TypeOK, Goto, Fail, evalVars, Undecided, Before, PC
<1>12. CASE LogDecision(r)
  BY <1>12 DEF LogDecision, TypeOK, Goto, evalVars, Undecided, Before, PC
<1>13. CASE CloseTxn(r)
  BY <1>13 DEF CloseTxn, TypeOK, Goto, evalVars, Undecided, Before, PC
<1>14. CASE Cancel(r)
  BY <1>14 DEF Cancel, evalVars
<1> QED
  BY <1>1, <1>2, <1>3, <1>4, <1>5, <1>6, <1>7, <1>8, <1>9, <1>10, <1>11, <1>12, <1>13, <1>14
     DEF CallAction, CheckStep

\* A call evaluates at most once.
LEMMA DecidesOnceInvariant == Spec => []DecidesOnce
<1>1. Init => DecidesOnce
  BY DEF Init, DecidesOnce
<1>2. Coherent /\ DecidesOnce /\ [Next]_vars => DecidesOnce'
  <2> SUFFICES ASSUME Coherent, DecidesOnce, [Next]_vars, NEW q \in Requests,
                      pc'[q] \in Undecided
               PROVE  result'[q] = NoResult
    BY DEF DecidesOnce
  <2> TypeOK
    BY DEF Coherent
  <2>1. CASE WriteAction \/ UNCHANGED vars
    BY <2>1, WriterFrame DEF vars, evalVars, DecidesOnce
  <2>2. ASSUME NEW r \in Requests, CallAction(r) PROVE result'[q] = NoResult
    <3>1. CASE q # r
      BY <2>2, <3>1, OtherCalls DEF DecidesOnce
    <3>2. CASE q = r /\ EvalQuery(r)
      BY <3>2 DEF EvalQuery, Goto, Fail, TypeOK, Undecided, Before
    <3>3. CASE q = r /\ ~EvalQuery(r)
      BY <2>2, <3>3, ResultKept DEF DecidesOnce
    <3> QED
      BY <3>1, <3>2, <3>3
  <2> QED
    BY <2>1, <2>2, StepCases
<1> QED
  BY <1>1, <1>2, CoherentAlways, PTL DEF Spec

-----------------------------------------------------------------------------
\* The step of one call changes the phase and the answer of that call only.
LEMMA OtherPhases ==
  ASSUME TypeOK, NEW r \in Requests, CallAction(r)
  PROVE  /\ Phases' = [Phases EXCEPT ![r] = PhaseOf(r)']
         /\ Replies' = [Replies EXCEPT ![r] = AnswerOf(r)']
<1>1. ASSUME NEW q \in Requests, q # r
      PROVE  PhaseOf(q)' = PhaseOf(q) /\ AnswerOf(q)' = AnswerOf(q)
  <2>1. pc'[q] = pc[q] /\ result'[q] = result[q] /\ resp'[q] = resp[q]
    BY <1>1, OtherCalls, OtherAnswers
  <2> QED
    BY <2>1 DEF PhaseOf, AnswerOf
<1> QED
  BY <1>1 DEF Phases, Replies

\* So a step after which the call looks as before is invisible.
LEMMA Invisible ==
  ASSUME TypeOK, NEW r \in Requests, CallAction(r),
         PhaseOf(r)' = PhaseOf(r), AnswerOf(r)' = AnswerOf(r)
  PROVE  Phases' = Phases /\ Replies' = Replies
<1>1. [Phases EXCEPT ![r] = PhaseOf(r)] = Phases /\ [Replies EXCEPT ![r] = AnswerOf(r)] = Replies
  BY DEF Phases, Replies
<1> QED
  BY <1>1, OtherPhases

\* What Envoy sees of a call, by where it is.
LEMMA Seen ==
  ASSUME NEW r \in Requests
  PROVE  /\ pc[r] = "idle" => PhaseOf(r) = "idle"
         /\ pc[r] = "done" => PhaseOf(r) = "answered"
         /\ pc[r] \notin {"idle", "done"} /\ result[r] = NoResult => PhaseOf(r) = "open"
         /\ pc[r] \notin {"idle", "done"} /\ result[r] # NoResult => PhaseOf(r) = "decided"
         /\ pc[r] # "done" => AnswerOf(r) = "none"
         /\ pc[r] = "done" /\ resp[r].status = Code_OK => AnswerOf(r) = "allow"
         /\ pc[r] = "done" /\ resp[r].status = Code_PERMISSION_DENIED => AnswerOf(r) = "deny"
         /\ pc[r] = "done" /\ resp[r].status \notin {Code_OK, Code_PERMISSION_DENIED} =>
              AnswerOf(r) = "error"
BY DEF PhaseOf, AnswerOf, Code_OK, Code_PERMISSION_DENIED

\* The same after a step.
LEMMA SeenNext ==
  ASSUME NEW r \in Requests
  PROVE  /\ pc'[r] = "idle" => PhaseOf(r)' = "idle"
         /\ pc'[r] = "done" => PhaseOf(r)' = "answered"
         /\ pc'[r] \notin {"idle", "done"} /\ result'[r] = NoResult => PhaseOf(r)' = "open"
         /\ pc'[r] \notin {"idle", "done"} /\ result'[r] # NoResult => PhaseOf(r)' = "decided"
         /\ pc'[r] # "done" => AnswerOf(r)' = "none"
         /\ pc'[r] = "done" /\ resp'[r].status = Code_OK => AnswerOf(r)' = "allow"
         /\ pc'[r] = "done" /\ resp'[r].status = Code_PERMISSION_DENIED => AnswerOf(r)' = "deny"
         /\ pc'[r] = "done" /\ resp'[r].status \notin {Code_OK, Code_PERMISSION_DENIED} =>
              AnswerOf(r)' = "error"
BY DEF PhaseOf, AnswerOf, Code_OK, Code_PERMISSION_DENIED

-----------------------------------------------------------------------------
\* What the steps of a call are to the service, r being the call.
\* A call arrives.
LEMMA SimCall ==
  ASSUME Coherent, ~crashed, NEW r \in Requests, NewEvalResult(r), pc'[r] = "started"
  PROVE  Service!Call(r)
<1> TypeOK /\ CallInv(r) /\ CallAction(r)
  BY DEF Coherent, CallAction
<1>1. /\ UNCHANGED <<policyRev, dataRev, crashed, result, resp>> /\ pc[r] = "idle"
      /\ result[r] = NoResult
  BY DEF NewEvalResult, storeVars, evalVars, CallInv
<1>2. PhaseOf(r) = "idle" /\ PhaseOf(r)' = "open" /\ AnswerOf(r) = "none" /\ AnswerOf(r)' = "none"
  BY <1>1, Seen, SeenNext
<1>3. Phases' = [Phases EXCEPT ![r] = "open"] /\ Phases[r] = "idle" /\ Replies' = Replies
  BY <1>2, OtherPhases DEF Phases, Replies
<1> QED
  BY <1>1, <1>3 DEF Service!Call, Phases, Replies

\* The evaluation decides, on the policies and documents in force.
LEMMA SimDecide ==
  ASSUME Coherent, DecidesOnce, ~crashed, NEW r \in Requests, EvalQuery(r), pc'[r] = "respond"
  PROVE  Service!Decide(r)
<1> TypeOK /\ CallInv(r) /\ LockInv /\ StoreInv /\ CallAction(r)
  BY DEF Coherent, CallAction, CheckStep
<1>1. pc[r] = "evaluating" /\ UNCHANGED <<policyRev, dataRev, crashed, resp>>
  BY DEF EvalQuery, storeVars
<1>2. result[r] = NoResult
  BY <1>1 DEF DecidesOnce, Undecided, Before, PC
<1>3. PICK d \in Decisions :
        result' = [result EXCEPT ![r] = [decision |-> d, policy |-> pq[r], data |-> dataRev]]
  BY DEF EvalQuery, Fail, Goto, TypeOK
<1>4. pq[r] = policyRev
  <2>1. r \in readers
    BY <1>1 DEF LockInv, InTxn, PC
  <2>2. writer \notin {"committed", "compiled", "triggered"}
    BY <2>1 DEF LockInv
  <2> QED
    BY <1>1, <2>2 DEF CallInv, StoreInv, Unnotified, Uncompiled, TypeOK, Revs
<1>5. result'[r] # NoResult
  BY <1>3, <1>4 DEF NoResult, NoRev, TypeOK, Revs
<1>6. /\ PhaseOf(r) = "open" /\ PhaseOf(r)' = "decided"
      /\ AnswerOf(r) = "none" /\ AnswerOf(r)' = "none"
  BY <1>1, <1>2, <1>5, Seen, SeenNext
<1>7. Phases' = [Phases EXCEPT ![r] = "decided"] /\ Phases[r] = "open" /\ Replies' = Replies
  BY <1>6, OtherPhases DEF Phases, Replies
<1> QED
  BY <1>1, <1>3, <1>4, <1>7 DEF Service!Decide, Phases, Replies

\* The service reads a decision document as the server does.
LEMMA SameVerdict ==
  ASSUME NEW d
  PROVE  (Service!ResultErr(d) <=> ResultErr(d)) /\ (Service!IsAllowed(d) <=> IsAllowed(d))
BY DEF Service!ResultErr, ResultErr, Service!IsAllowed, IsAllowed, Service!IsAllowedErr, IsAllowedErr,
       Service!GetErr, GetErr, Service!GetResponseEnvoyHTTPStatusErr, GetResponseEnvoyHTTPStatusErr,
       Service!GetResponseEnvoyHTTPStatus, GetResponseEnvoyHTTPStatus,
       Service!HTTPStatusText, HTTPStatusText, Service!StatusCode_name, StatusCode_name,
       Service!StatusForbidden, StatusForbidden, Service!Missing, Missing,
       Service!Malformed, Malformed

\* A call that returns is answered: with an error, or as its decision supports.
LEMMA SimAnswer ==
  ASSUME Coherent, Answers, DecidesOnce, ~crashed, NEW r \in Requests, CallAction(r),
         pc[r] # "done", pc'[r] = "done", Answers'
  PROVE  \E a \in {"allow", "deny", "error"} : Service!Answer(r, a)
<1> TypeOK /\ CallInv(r) /\ AnswerInv(r)'
  BY DEF Coherent, Answers
<1>1. UNCHANGED <<policyRev, dataRev>>
  BY CallFrame DEF storeVars
<1>2. ~EvalQuery(r) /\ crashed' = crashed
  BY DEF CallAction, CheckStep, NewEvalResult, GetTxn, RequestToInput, BeforeEval, getRevision,
         LoadOnce, OnceDo, Prepare, SetPreparedQuery, LoadPreparedQuery, EvalQuery, Respond,
         LogDecision, CloseTxn, Cancel, Goto, Fail, TypeOK
<1>3. result' = result
  BY <1>2, ResultKept
<1>4. Phases[r] = PhaseOf(r) /\ PhaseOf(r) \in {"idle", "open", "decided"}
  BY Seen DEF Phases
<1>5. Phases' = [Phases EXCEPT ![r] = "answered"]
  BY OtherPhases, SeenNext
<1>6. Replies' = [Replies EXCEPT ![r] = AnswerOf(r)']
  BY OtherPhases
<1>7. CASE AnswerOf(r)' = "error"
  <2>1. Service!Answer(r, "error")
    BY <1>1, <1>2, <1>3, <1>4, <1>5, <1>6, <1>7 DEF Service!Answer, Phases, Replies
  <2> QED
    BY <2>1
<1>8. CASE AnswerOf(r)' # "error"
  <2>1. resp'[r].status \in {Code_OK, Code_PERMISSION_DENIED}
    BY <1>8, SeenNext
  <2>2. resp'[r] # NilResp
    BY <2>1 DEF NilResp, Code_OK, Code_PERMISSION_DENIED
  <2>3. /\ result[r] # NoResult /\ ~ResultErr(result[r].decision)
        /\ resp'[r] = ApplyStop(BuildResponse(result[r].decision, DryRun, r), entry'[r] = LogFailed)
    BY <1>3, <2>2 DEF AnswerInv, Decided
  <2>4. result[r].decision \in AllDecisions
    BY <2>3, ConstantsAssumption DEF TypeOK, Results
  <2>5. entry'[r] # LogFailed
    BY <2>1, <2>3, <2>4, AnswerStatus DEF Code_OK, Code_UNKNOWN, Code_PERMISSION_DENIED
  <2>6. resp'[r].status = IF IsAllowed(result[r].decision) \/ DryRun THEN Code_OK ELSE Code_PERMISSION_DENIED
    BY <2>3, <2>4, <2>5, AnswerStatus
  <2>7. AnswerOf(r)' = IF IsAllowed(result[r].decision) \/ DryRun THEN "allow" ELSE "deny"
    BY <2>6, SeenNext
  <2>8. pc[r] # "idle"
    BY <2>3 DEF CallInv
  <2>9. PhaseOf(r) = "decided"
    BY <2>3, <2>8, Seen
  <2>10. Service!Supports(result[r].decision, AnswerOf(r)')
    BY <2>3, <2>7, SameVerdict DEF Service!Supports
  <2>11. Service!Answer(r, AnswerOf(r)')
    BY <1>1, <1>2, <1>3, <1>4, <1>5, <1>6, <2>9, <2>10 DEF Service!Answer, Phases, Replies
  <2> QED
    BY <2>7, <2>11
<1> QED
  BY <1>7, <1>8

\* Every other step of a call, the nil dereference included, leaves what Envoy
\* sees of the call as it was.
LEMMA HiddenStep ==
  ASSUME TypeOK, NEW r \in Requests, CallAction(r), ~NewEvalResult(r),
         ~(EvalQuery(r) /\ pc'[r] = "respond"), pc'[r] # "done"
  PROVE  /\ result' = result
         /\ pc[r] \notin {"idle", "done"} /\ pc'[r] # "idle"
<1>1. CASE GetTxn(r)
  BY <1>1 DEF GetTxn, TypeOK, Goto, FailEarly, evalVars
<1>2. CASE RequestToInput(r)
  BY <1>2 DEF RequestToInput, TypeOK, Goto, Fail, evalVars
<1>3. CASE BeforeEval(r)
  BY <1>3 DEF BeforeEval, TypeOK, Goto, Fail, evalVars
<1>4. CASE getRevision(r)
  BY <1>4 DEF getRevision, TypeOK, Goto, Fail
<1>5. CASE LoadOnce(r)
  BY <1>5 DEF LoadOnce, TypeOK, Goto
<1>6. CASE OnceDo(r)
  BY <1>6 DEF OnceDo, TypeOK, Goto, evalVars
<1>7. CASE Prepare(r)
  BY <1>7 DEF Prepare, TypeOK, Goto
<1>8. CASE SetPreparedQuery(r)
  BY <1>8 DEF SetPreparedQuery, TypeOK, Goto, Fail, evalVars
<1>9. CASE LoadPreparedQuery(r)
  BY <1>9 DEF LoadPreparedQuery, TypeOK, Goto
<1>10. CASE EvalQuery(r)
  BY <1>10 DEF EvalQuery, TypeOK, Goto, Fail
<1>11. CASE Respond(r)
  BY <1>11 DEF Respond, TypeOK, Goto, Fail, evalVars
<1>12. CASE LogDecision(r)
  BY <1>12 DEF LogDecision, TypeOK, Goto, evalVars
<1>13. CASE CloseTxn(r)
  BY <1>13 DEF CloseTxn, TypeOK, Goto
<1>14. CASE Cancel(r)
  BY <1>14 DEF Cancel, TypeOK, evalVars
<1> QED
  BY <1>1, <1>2, <1>3, <1>4, <1>5, <1>6, <1>7, <1>8, <1>9, <1>10, <1>11, <1>12, <1>13, <1>14
     DEF CallAction, CheckStep

\* A returned call takes no further step.
LEMMA DoneIsLast ==
  ASSUME NEW r \in Requests, CallAction(r)
  PROVE  pc[r] # "done"
BY DEF CallAction, CheckStep, NewEvalResult, GetTxn, RequestToInput, BeforeEval, getRevision,
       LoadOnce, OnceDo, Prepare, SetPreparedQuery, LoadPreparedQuery, EvalQuery, Respond,
       LogDecision, CloseTxn, Cancel

\* The step of a call is one of the service's, or none.
LEMMA SimCallStep ==
  ASSUME Coherent, Answers, DecidesOnce, Coherent', Answers', ~crashed,
         NEW r \in Requests, CallAction(r)
  PROVE  Service!Next \/ UNCHANGED Service!vars
<1> TypeOK /\ TypeOK'
  BY DEF Coherent
<1>1. CASE pc'[r] = "done"
  BY <1>1, DoneIsLast, SimAnswer DEF Service!Next
<1>2. CASE NewEvalResult(r) /\ pc'[r] # "done"
  <2>1. pc'[r] = "started"
    BY <1>2 DEF NewEvalResult, Goto, FailEarly, TypeOK
  <2> QED
    BY <1>2, <2>1, SimCall DEF Service!Next
<1>3. CASE EvalQuery(r) /\ pc'[r] = "respond"
  BY <1>3, SimDecide DEF Service!Next
<1>4. CASE ~NewEvalResult(r) /\ ~(EvalQuery(r) /\ pc'[r] = "respond") /\ pc'[r] # "done"
  <2>1. result' = result /\ pc[r] \notin {"idle", "done"} /\ pc'[r] \notin {"idle", "done"}
    BY <1>4, HiddenStep
  <2>2. PhaseOf(r)' = PhaseOf(r) /\ AnswerOf(r)' = AnswerOf(r)
    BY <2>1, Seen, SeenNext
  <2>3. Phases' = Phases /\ Replies' = Replies
    BY <2>2, Invisible
  <2>4. UNCHANGED <<policyRev, dataRev>>
    BY CallFrame DEF storeVars
  <2>5. CASE crashed'
    BY <2>1, <2>3, <2>4, <2>5 DEF Service!Next, Service!Crash, Phases, Replies
  <2>6. CASE ~crashed'
    BY <2>1, <2>3, <2>4, <2>6 DEF Service!vars, Phases, Replies
  <2> QED
    BY <2>5, <2>6
<1> QED
  BY <1>1, <1>2, <1>3, <1>4

\* What Envoy sees depends on pc, result and resp only.
LEMMA SeenFrame ==
  ASSUME UNCHANGED <<pc, result, resp>>
  PROVE  Phases' = Phases /\ Replies' = Replies
BY DEF Phases, Replies, PhaseOf, AnswerOf

\* The writer's step is an Update when it applies a commit, and else invisible.
LEMMA SimWrite ==
  ASSUME TypeOK, ~crashed, WriteAction
  PROVE  Service!Next \/ UNCHANGED Service!vars
<1>1. UNCHANGED <<crashed, result>> /\ Phases' = Phases /\ Replies' = Replies
  BY WriterFrame, SeenFrame DEF evalVars, outVars
<1>2. CASE CommitStore
  <2>1. policyRev' \in {policyRev, policyRev + 1} /\ dataRev' \in {dataRev, dataRev + 1}
    BY <1>2 DEF CommitStore
  <2>2. Service!Update
    BY <1>1, <2>1 DEF Service!Update, Phases, Replies
  <2> QED
    BY <2>2 DEF Service!Next
<1>3. CASE ~CommitStore
  <2>1. UNCHANGED <<policyRev, dataRev>>
    BY <1>3 DEF WriteAction, WriterStep, BeginWrite, AbortWrite, CommitLock, onCommit,
                compilerUpdated, CommitUnlock
  <2> QED
    BY <1>1, <2>1 DEF Service!vars, Phases, Replies
<1> QED
  BY <1>2, <1>3

-----------------------------------------------------------------------------
\* The server, with its reader-writer lock, its compiler trigger and the prepared
\* query that all calls share and each recompilation replaces, is an
\* AuthzService: every call decides once, on the policies and documents of one
\* instant between its arrival and its answer, and is answered with what that
\* decision supports or with an error.
THEOREM Implements == Spec => ImplementsService
<1>1. Init => Service!Init
  <2> SUFFICES ASSUME Init PROVE Service!Init
    OBVIOUS
  <2>1. /\ policyRev = 0 /\ dataRev = 0 /\ crashed = FALSE
        /\ result = [r \in Requests |-> NoResult]
        /\ \A r \in Requests : pc[r] = "idle"
    BY DEF Init
  <2>2. \A r \in Requests : PhaseOf(r) = "idle" /\ AnswerOf(r) = "none"
    BY <2>1, Seen
  <2> QED
    BY <2>1, <2>2 DEF Service!Init, Service!NoBasis, NoResult, NoDecision, NoRev
<1>2. /\ Coherent /\ Answers /\ DecidesOnce
      /\ Coherent' /\ Answers'
      /\ [Next]_vars
      => [Service!Next]_(Service!vars)
  <2> SUFFICES ASSUME Coherent, Answers, DecidesOnce, Coherent', Answers', [Next]_vars
               PROVE  Service!Next \/ UNCHANGED Service!vars
    OBVIOUS
  <2>1. CASE UNCHANGED vars
    <3>1. UNCHANGED <<policyRev, dataRev, crashed, result>> /\ Phases' = Phases /\ Replies' = Replies
      BY <2>1, SeenFrame DEF vars, storeVars, evalVars, outVars
    <3> QED
      BY <3>1 DEF Service!vars, Phases, Replies
  <2>2. CASE ~crashed /\ WriteAction
    BY <2>2, SimWrite DEF Coherent
  <2>3. ASSUME ~crashed, NEW r \in Requests, CallAction(r)
        PROVE  Service!Next \/ UNCHANGED Service!vars
    BY <2>3, SimCallStep
  <2> QED
    BY <2>1, <2>2, <2>3 DEF Next, WriteAction, CallAction, Quiescent
<1> QED
  BY <1>1, <1>2, AnswersInvariant, DecidesOnceInvariant, PTL DEF Spec, ImplementsService, Service!Spec

-----------------------------------------------------------------------------
(***************************************************************************)
(* The counters.  Each counts the calls that have a property; the property *)
(* of a call, once gained, stays, and the step in which it is gained is    *)
(* the one that counts.                                                    *)
(***************************************************************************)
Reasons == ErrorCodes \cup TopdownCodes

FailedFor(r, k) ==
  pc[r] \in {"close", "done"} /\ snap[r].policy # NoRev /\ ErrorReason(err[r]) = k
LogLost(r)   == pc[r] = "done" /\ entry[r] = LogFailed
Responded(r) == resp[r] # NilResp

\* A call that has no transaction yet is not counted at its end, nobody has
\* written the log before stop(), and the cause of no error is none.
TallyInv(r) ==
  /\ pc[r] \in {"idle", "started"} => snap[r].policy = NoRev
  /\ pc[r] \in Before \cup {"stop"} => entry[r] = NoEntry
  /\ err[r].code = "" => err[r].cause = Plain

Tallies == \A r \in Requests : TallyInv(r)

Counted ==
  EnablePerformanceMetrics =>
    /\ \A k \in Reasons : metric[k] = Cardinality({r \in Requests : FailedFor(r, k)})
    /\ metric[LogErrorReason] = Cardinality({r \in Requests : LogLost(r)})
    /\ metric[DurationMetric] = Cardinality({r \in Requests : Responded(r)})

\* The keys of the counters differ.
LEMMA KeysDiffer ==
  /\ LogErrorReason \notin Reasons /\ DurationMetric \notin Reasons
  /\ LogErrorReason # DurationMetric /\ "" \notin Reasons
  /\ MetricKeys = Reasons \cup {LogErrorReason, DurationMetric}
BY DEF Reasons, MetricKeys, ErrorCodes, TopdownCodes, LogErrorReason, DurationMetric,
       StartCheckErr, StartTxnErr, RequestParseErr, CheckRequestTimeoutErr, InputParseErr,
       EnvoyAuthEvalErr, EnvoyAuthResultErr, EvalCancelErr, EvalConflictErr

\* The reason of an error is a key of error_counter, and no error has none
\* (internal/internal.go 395-402).
LEMMA ReasonOf ==
  ASSUME NEW e \in Errors, e.code = "" => e.cause = Plain
  PROVE  /\ e.code = "" => ErrorReason(e) = ""
         /\ e.code # "" => ErrorReason(e) \in Reasons
BY DEF Errors, ErrorReason, Reasons, TopdownCodes, EvalCancelErr, EvalConflictErr, Plain

\* Counting one key adds one to it and leaves the others alone.
LEMMA CountOne ==
  ASSUME TypeOK, EnablePerformanceMetrics, NEW key \in MetricKeys
  PROVE  /\ Count(metric, key)[key] = metric[key] + 1
         /\ \A k \in MetricKeys : k # key => Count(metric, key)[k] = metric[k]
BY DEF TypeOK, Count

\* stop() replaces a response and never takes it back.
LEMMA AnswerIsSome ==
  ASSUME NEW d \in AllDecisions, NEW id, NEW failed
  PROVE  ApplyStop(BuildResponse(d, DryRun, id), failed) # NilResp
<1>1. ApplyStop(BuildResponse(d, DryRun, id), TRUE).status # NilResp.status
  BY AnswerStatus DEF NilResp, Code_UNKNOWN
<1>2. ApplyStop(BuildResponse(d, DryRun, id), FALSE).status # NilResp.status
  BY AnswerStatus DEF NilResp, Code_OK, Code_PERMISSION_DENIED
<1>3. \/ ApplyStop(BuildResponse(d, DryRun, id), failed) = ApplyStop(BuildResponse(d, DryRun, id), TRUE)
      \/ ApplyStop(BuildResponse(d, DryRun, id), failed) = ApplyStop(BuildResponse(d, DryRun, id), FALSE)
  BY DEF ApplyStop
<1> QED
  BY <1>1, <1>2, <1>3

-----------------------------------------------------------------------------
\* An error that is recorded has a code.
LEMMA FailedErr ==
  ASSUME TypeOK, NEW r \in Requests, NEW code \in ErrorCodes, NEW cause,
         err' = [err EXCEPT ![r] = internalError(code, cause)]
  PROVE  err'[r].code # ""
<1>1. err'[r] = internalError(code, cause)
  BY DEF TypeOK
<1>2. internalError(code, cause).code = code
  BY DEF internalError
<1> QED
  BY <1>1, <1>2, KeysDiffer DEF Reasons

\* Every error that check() records has a code (internal/errors.go).
LEMMA ErrorHasCode ==
  ASSUME TypeOK, NEW r \in Requests, CallAction(r)
  PROVE  err'[r] = err[r] \/ err'[r].code # ""
<1> USE FailedErr DEF Fail, FailEarly, ErrorCodes, outVars
<1>1. CASE NewEvalResult(r)
  BY <1>1 DEF NewEvalResult
<1>2. CASE GetTxn(r)
  BY <1>2 DEF GetTxn
<1>3. CASE RequestToInput(r)
  BY <1>3 DEF RequestToInput
<1>4. CASE BeforeEval(r)
  BY <1>4 DEF BeforeEval
<1>5. CASE getRevision(r)
  BY <1>5 DEF getRevision
<1>6. CASE SetPreparedQuery(r)
  BY <1>6 DEF SetPreparedQuery
<1>7. CASE EvalQuery(r)
  BY <1>7 DEF EvalQuery
<1>8. CASE Respond(r)
  BY <1>8 DEF Respond
<1>9. CASE LoadOnce(r) \/ OnceDo(r) \/ Prepare(r) \/ LoadPreparedQuery(r) \/ LogDecision(r)
             \/ CloseTxn(r) \/ Cancel(r)
  BY <1>9 DEF LoadOnce, OnceDo, Prepare, LoadPreparedQuery, LogDecision, CloseTxn, Cancel
<1> QED
  BY <1>1, <1>2, <1>3, <1>4, <1>5, <1>6, <1>7, <1>8, <1>9 DEF CallAction, CheckStep

\* The steps up to the evaluation count nothing and write no log, and the calls
\* they end have no transaction.
LEMMA QuietTally ==
  ASSUME TypeOK, NEW r \in Requests, QuietStep(r), TallyInv(r)
  PROVE  /\ metric' = metric /\ entry' = entry /\ resp' = resp
         /\ pc[r] \in Before
         /\ pc'[r] \in {"idle", "started"} => snap'[r].policy = NoRev
         /\ \/ pc'[r] \in Before \cup {"stop"}
            \/ pc'[r] = "done" /\ snap'[r].policy = NoRev
<1> USE DEF TallyInv, TypeOK, Goto, Before, PC, outVars
<1>1. CASE NewEvalResult(r)
  BY <1>1 DEF NewEvalResult, FailEarly
<1>2. CASE GetTxn(r)
  BY <1>2 DEF GetTxn, FailEarly
<1>3. CASE RequestToInput(r)
  BY <1>3 DEF RequestToInput, Fail
<1>4. CASE BeforeEval(r)
  BY <1>4 DEF BeforeEval, Fail
<1>5. CASE getRevision(r)
  BY <1>5 DEF getRevision, Fail
<1>6. CASE LoadOnce(r)
  BY <1>6 DEF LoadOnce
<1>7. CASE OnceDo(r)
  BY <1>7 DEF OnceDo
<1>8. CASE Prepare(r)
  BY <1>8 DEF Prepare
<1>9. CASE SetPreparedQuery(r)
  BY <1>9 DEF SetPreparedQuery, Fail
<1>10. CASE LoadPreparedQuery(r)
  BY <1>10 DEF LoadPreparedQuery
<1>11. CASE EvalQuery(r)
  BY <1>11 DEF EvalQuery, Fail
<1> QED
  BY <1>1, <1>2, <1>3, <1>4, <1>5, <1>6, <1>7, <1>8, <1>9, <1>10, <1>11 DEF QuietStep

\* A step of a call keeps its part of the invariant.
LEMMA OwnTally ==
  ASSUME TypeOK, NEW r \in Requests, CallAction(r), TallyInv(r)
  PROVE  TallyInv(r)'
<1>1. err'[r].code = "" => err'[r].cause = Plain
  BY ErrorHasCode DEF TallyInv
<1>2. CASE QuietStep(r)
  BY <1>1, <1>2, QuietTally DEF TallyInv, Before, PC
<1>3. CASE Respond(r)
  BY <1>1, <1>3 DEF Respond, Fail, Goto, TallyInv, Before, PC, TypeOK
<1>4. CASE LogDecision(r)
  BY <1>1, <1>4 DEF LogDecision, Goto, TallyInv, Before, PC, TypeOK
<1>5. CASE CloseTxn(r)
  BY <1>1, <1>5 DEF CloseTxn, Goto, TallyInv, Before, PC, TypeOK
<1>6. CASE Cancel(r)
  BY <1>1, <1>6 DEF Cancel, TallyInv, outVars
<1> QED
  BY <1>2, <1>3, <1>4, <1>5, <1>6 DEF CallAction, CheckStep, QuietStep

\* The step of a call counts for a reason, for the log or for the histogram exactly
\* when the call gains the property that is counted.
LEMMA OwnCount ==
  ASSUME Coherent, Answers, EnablePerformanceMetrics, NEW r \in Requests, CallAction(r),
         TallyInv(r)
  PROVE  /\ \A k \in Reasons :
              \/ (FailedFor(r, k)' <=> FailedFor(r, k)) /\ metric'[k] = metric[k]
              \/ ~FailedFor(r, k) /\ FailedFor(r, k)' /\ metric'[k] = metric[k] + 1
         /\ \/ (LogLost(r)' <=> LogLost(r)) /\ metric'[LogErrorReason] = metric[LogErrorReason]
            \/ /\ ~LogLost(r) /\ LogLost(r)'
               /\ metric'[LogErrorReason] = metric[LogErrorReason] + 1
         /\ \/ (Responded(r)' <=> Responded(r)) /\ metric'[DurationMetric] = metric[DurationMetric]
            \/ /\ ~Responded(r) /\ Responded(r)'
               /\ metric'[DurationMetric] = metric[DurationMetric] + 1
<1> TypeOK /\ CallInv(r) /\ AnswerInv(r)
  BY DEF Coherent, Answers
<1> NoEntry # LogFailed
  BY DEF NoEntry, LogFailed
<1>1. CASE QuietStep(r)
  <2>1. /\ metric' = metric /\ entry' = entry /\ resp' = resp /\ pc[r] \in Before
        /\ \/ pc'[r] \in Before \cup {"stop"}
           \/ pc'[r] = "done" /\ snap'[r].policy = NoRev
    BY <1>1, QuietTally
  <2>2. entry[r] = NoEntry
    BY <2>1 DEF TallyInv
  <2> QED
    BY <2>1, <2>2 DEF FailedFor, LogLost, Responded, Before, PC
<1>2. CASE Cancel(r)
  BY <1>2 DEF Cancel, outVars, FailedFor, LogLost, Responded
<1>3. CASE Respond(r)
  <2>1. /\ pc[r] = "respond" /\ pc'[r] = "stop" /\ entry' = entry /\ resp[r] = NilResp
    BY <1>3 DEF Respond, Fail, Goto, TypeOK, AnswerInv, Before, PC
  <2>2. CASE ResultErr(result[r].decision)
    BY <1>3, <2>1, <2>2 DEF Respond, FailedFor, LogLost, Responded
  <2>3. CASE ~ResultErr(result[r].decision)
    <3>1. /\ resp'[r] = BuildResponse(result[r].decision, DryRun, r)
          /\ metric' = Count(metric, DurationMetric)
      BY <1>3, <2>3 DEF Respond, TypeOK
    <3>2. resp'[r] # NilResp
      BY <3>1, BuiltStatus DEF NilResp, Code_OK, Code_PERMISSION_DENIED
    <3>3. /\ metric'[DurationMetric] = metric[DurationMetric] + 1
          /\ metric'[LogErrorReason] = metric[LogErrorReason]
          /\ \A k \in Reasons : metric'[k] = metric[k]
      BY <3>1, CountOne, KeysDiffer
    <3> QED
      BY <2>1, <3>2, <3>3 DEF FailedFor, LogLost, Responded
  <2> QED
    BY <2>2, <2>3
<1>4. CASE LogDecision(r)
  <2>1. /\ pc[r] = "stop" /\ pc'[r] = "close" /\ err' = err /\ resp' = resp /\ snap' = snap
        /\ metric' = CountError(metric, err[r])
    BY <1>4 DEF LogDecision, Goto, TypeOK
  <2>2. snap[r].policy # NoRev
    BY <2>1 DEF CallInv, InTxn, PC, TypeOK, NoRev, Revs
  <2>3. /\ err[r].code = "" => ErrorReason(err[r]) = ""
        /\ err[r].code # "" => ErrorReason(err[r]) \in Reasons
    BY ReasonOf DEF TypeOK, TallyInv
  <2>4. /\ metric'[LogErrorReason] = metric[LogErrorReason]
        /\ metric'[DurationMetric] = metric[DurationMetric]
        /\ \A k \in Reasons :
             metric'[k] = IF k = ErrorReason(err[r]) THEN metric[k] + 1 ELSE metric[k]
    BY <2>1, <2>3, CountOne, KeysDiffer DEF CountError
  <2> QED
    BY <2>1, <2>2, <2>4 DEF FailedFor, LogLost, Responded
<1>5. CASE CloseTxn(r)
  <2>1. /\ pc[r] = "close" /\ pc'[r] = "done" /\ err' = err /\ snap' = snap /\ entry' = entry
        /\ metric' = IF entry[r] = LogFailed THEN Count(metric, LogErrorReason) ELSE metric
    BY <1>5 DEF CloseTxn, Goto, TypeOK
  <2>2. Responded(r)' <=> Responded(r)
    <3>1. CASE resp[r] = NilResp
      BY <1>5, <3>1 DEF CloseTxn, Responded
    <3>2. CASE resp[r] # NilResp
      <4>1. resp'[r] = ApplyStop(resp[r], entry[r] = LogFailed)
        BY <1>5, <3>2 DEF CloseTxn, TypeOK
      <4>2. resp[r] = BuildResponse(result[r].decision, DryRun, r) /\ result[r] # NoResult
        BY <2>1, <3>2 DEF AnswerInv, Decided
      <4>3. result[r].decision \in AllDecisions
        BY <4>2, ConstantsAssumption DEF TypeOK, Results
      <4>4. resp'[r] # NilResp
        BY <4>1, <4>2, <4>3, AnswerIsSome
      <4> QED
        BY <3>2, <4>4 DEF Responded
    <3> QED
      BY <3>1, <3>2
  <2>3. /\ metric'[LogErrorReason] =
             IF entry[r] = LogFailed THEN metric[LogErrorReason] + 1 ELSE metric[LogErrorReason]
        /\ metric'[DurationMetric] = metric[DurationMetric]
        /\ \A k \in Reasons : metric'[k] = metric[k]
    BY <2>1, CountOne, KeysDiffer
  <2> QED
    BY <2>1, <2>2, <2>3 DEF FailedFor, LogLost
<1> QED
  BY <1>1, <1>2, <1>3, <1>4, <1>5 DEF CallAction, CheckStep, QuietStep

\* A set of calls that one call may join.
LEMMA OneMore ==
  ASSUME NEW S \in SUBSET Requests, NEW T \in SUBSET Requests, NEW r \in Requests,
         \A q \in Requests : q # r => (q \in T <=> q \in S)
  PROVE  /\ (r \in T <=> r \in S) => Cardinality(T) = Cardinality(S)
         /\ r \notin S /\ r \in T => Cardinality(T) = Cardinality(S) + 1
<1>1. ASSUME r \in T <=> r \in S PROVE Cardinality(T) = Cardinality(S)
  <2>1. S = T
    BY <1>1
  <2> QED
    BY <2>1
<1>2. ASSUME r \notin S, r \in T PROVE Cardinality(T) = Cardinality(S) + 1
  <2>1. T = S \cup {r}
    BY <1>2
  <2>2. IsFiniteSet(S)
    BY FS_Subset, ConstantsAssumption
  <2>3. Cardinality(S \cup {r}) = Cardinality(S) + 1
    BY <1>2, <2>2, FS_AddElement
  <2> QED
    BY <2>1, <2>3
<1> QED
  BY <1>1, <1>2

\* A call step keeps the counters equal to the numbers of calls they count.
LEMMA CallCounts ==
  ASSUME Coherent, Answers, Tallies, Counted, EnablePerformanceMetrics,
         NEW r \in Requests, CallAction(r)
  PROVE  Counted'
<1> TypeOK /\ TallyInv(r)
  BY DEF Coherent, Tallies
<1>1. ASSUME NEW q \in Requests, q # r
      PROVE  /\ \A k \in Reasons : FailedFor(q, k)' <=> FailedFor(q, k)
             /\ LogLost(q)' <=> LogLost(q)
             /\ Responded(q)' <=> Responded(q)
  <2>1. /\ pc'[q] = pc[q] /\ snap'[q] = snap[q] /\ err'[q] = err[q] /\ resp'[q] = resp[q]
        /\ entry'[q] = entry[q]
    BY <1>1, OtherCalls, OtherAnswers
  <2> QED
    BY <2>1 DEF FailedFor, LogLost, Responded
<1>2. ASSUME NEW k \in Reasons
      PROVE  metric'[k] = Cardinality({q \in Requests : FailedFor(q, k)'})
  <2> DEFINE S == {q \in Requests : FailedFor(q, k)}
             T == {q \in Requests : FailedFor(q, k)'}
  <2>1. metric[k] = Cardinality(S)
    BY <1>2 DEF Counted
  <2>2. \A q \in Requests : q # r => (q \in T <=> q \in S)
    BY <1>1, <1>2
  <2>3. \/ (r \in T <=> r \in S) /\ metric'[k] = metric[k]
        \/ r \notin S /\ r \in T /\ metric'[k] = metric[k] + 1
    BY <1>2, OwnCount
  <2>4. S \in SUBSET Requests /\ T \in SUBSET Requests
    OBVIOUS
  <2> HIDE DEF S, T
  <2>5. metric'[k] = Cardinality(T)
    BY <2>1, <2>2, <2>3, <2>4, OneMore
  <2> QED
    BY <2>5 DEF T
<1>3. metric'[LogErrorReason] = Cardinality({q \in Requests : LogLost(q)'})
  <2> DEFINE S == {q \in Requests : LogLost(q)}
             T == {q \in Requests : LogLost(q)'}
  <2>1. metric[LogErrorReason] = Cardinality(S)
    BY DEF Counted
  <2>2. \A q \in Requests : q # r => (q \in T <=> q \in S)
    BY <1>1
  <2>3. \/ (r \in T <=> r \in S) /\ metric'[LogErrorReason] = metric[LogErrorReason]
        \/ r \notin S /\ r \in T /\ metric'[LogErrorReason] = metric[LogErrorReason] + 1
    BY OwnCount
  <2>4. S \in SUBSET Requests /\ T \in SUBSET Requests
    OBVIOUS
  <2> HIDE DEF S, T
  <2>5. metric'[LogErrorReason] = Cardinality(T)
    BY <2>1, <2>2, <2>3, <2>4, OneMore
  <2> QED
    BY <2>5 DEF T
<1>4. metric'[DurationMetric] = Cardinality({q \in Requests : Responded(q)'})
  <2> DEFINE S == {q \in Requests : Responded(q)}
             T == {q \in Requests : Responded(q)'}
  <2>1. metric[DurationMetric] = Cardinality(S)
    BY DEF Counted
  <2>2. \A q \in Requests : q # r => (q \in T <=> q \in S)
    BY <1>1
  <2>3. \/ (r \in T <=> r \in S) /\ metric'[DurationMetric] = metric[DurationMetric]
        \/ r \notin S /\ r \in T /\ metric'[DurationMetric] = metric[DurationMetric] + 1
    BY OwnCount
  <2>4. S \in SUBSET Requests /\ T \in SUBSET Requests
    OBVIOUS
  <2> HIDE DEF S, T
  <2>5. metric'[DurationMetric] = Cardinality(T)
    BY <2>1, <2>2, <2>3, <2>4, OneMore
  <2> QED
    BY <2>5 DEF T
<1> QED
  BY <1>2, <1>3, <1>4 DEF Counted

\* The invariant of the counters holds in every reachable state.
LEMMA CountedAlways == Spec => [](Tallies /\ Counted)
<1>1. Init => Tallies /\ Counted
  <2> SUFFICES ASSUME Init PROVE Tallies /\ Counted
    OBVIOUS
  <2>1. Tallies
    BY DEF Init, Tallies, TallyInv, NoErr, internalError
  <2>2. \A r \in Requests : ~LogLost(r) /\ ~Responded(r) /\ \A k \in Reasons : ~FailedFor(r, k)
    BY DEF Init, LogLost, Responded, FailedFor
  <2>3. /\ \A k \in Reasons : {r \in Requests : FailedFor(r, k)} = {}
        /\ {r \in Requests : LogLost(r)} = {}
        /\ {r \in Requests : Responded(r)} = {}
    BY <2>2
  <2>4. \A k \in MetricKeys : metric[k] = 0
    BY DEF Init
  <2> QED
    BY <2>1, <2>3, <2>4, KeysDiffer, FS_EmptySet DEF Counted
<1>2. Coherent /\ Answers /\ Tallies /\ Counted /\ [Next]_vars => Tallies' /\ Counted'
  <2> SUFFICES ASSUME Coherent, Answers, Tallies, Counted, [Next]_vars PROVE Tallies' /\ Counted'
    OBVIOUS
  <2> TypeOK
    BY DEF Coherent
  <2>1. CASE WriteAction \/ UNCHANGED vars
    <3>1. UNCHANGED <<metric, pc, err, resp, entry, snap>>
      BY <2>1, WriterFrame DEF vars, outVars
    <3> QED
      BY <3>1 DEF Tallies, TallyInv, Counted, FailedFor, LogLost, Responded
  <2>2. ASSUME NEW r \in Requests, CallAction(r) PROVE Tallies' /\ Counted'
    <3>1. ASSUME NEW q \in Requests PROVE TallyInv(q)'
      <4>1. CASE q = r
        BY <2>2, <4>1, OwnTally DEF Tallies
      <4>2. CASE q # r
        <5>1. pc'[q] = pc[q] /\ snap'[q] = snap[q] /\ err'[q] = err[q] /\ entry'[q] = entry[q]
          BY <2>2, <4>2, OtherCalls, OtherAnswers
        <5> QED
          BY <5>1 DEF Tallies, TallyInv
      <4> QED
        BY <4>1, <4>2
    <3>2. Counted'
      <4>1. CASE EnablePerformanceMetrics
        BY <2>2, <4>1, CallCounts
      <4>2. CASE ~EnablePerformanceMetrics
        BY <4>2 DEF Counted
      <4> QED
        BY <4>1, <4>2
    <3> QED
      BY <3>1, <3>2 DEF Tallies
  <2> QED
    BY <2>1, <2>2, StepCases
<1> QED
  BY <1>1, <1>2, AnswersInvariant, PTL DEF Spec

\* The counters are exact: for any number of concurrent calls, in every state,
\* error_counter holds under each reason the number of calls that failed for it, the log
\* failures under their own, and the histogram one observation for each response.
THEOREM CountersCountCalls == Spec => []CountersAreExact
<1>1. Counted => CountersAreExact
  <2> SUFFICES ASSUME Counted PROVE CountersAreExact
    OBVIOUS
  <2>1. \A k : {r \in Stopped : ErrorReason(err[r]) = k} = {r \in Requests : FailedFor(r, k)}
    BY DEF Stopped, FailedFor
  <2> QED
    BY <2>1 DEF Counted, CountersAreExact, Reasons, LogLost, Responded
<1> QED
  BY <1>1, CountedAlways, PTL
=============================================================================
