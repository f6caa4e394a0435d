----------------------------- MODULE ExtAuthz -----------------------------
(***************************************************************************)
(* The authorization server under concurrency: any number of Check calls,  *)
(* each its own goroutine, against the policy store of the plugin manager  *)
(* that a writer (bundle activation, REST API) updates meanwhile.          *)
(*                                                                         *)
(*   internal/internal.go       check, stop, log, compilerUpdated          *)
(*   envoyauth/evaluation.go    Eval, constructPreparedQuery, getRevision  *)
(*   envoyauth/response.go      NewEvalResult, GetTxn and its closer       *)
(*   opa/decisionlog            LogDecision                                *)
(*                                                                         *)
(* Of OPA itself the module has what these call: the reader-writer lock    *)
(* of storage/inmem (rmu, wmu), Commit with its triggers, the compiler of  *)
(* plugins.Manager, and rego's PrepareForEval and Eval.                    *)
(*                                                                         *)
(* A revision stands for the contents it numbers: policyRev for the        *)
(* modules in the store, dataRev for the base documents, among them the    *)
(* bundle manifests that getRevision reads.  A compiler and a prepared     *)
(* query carry the policy revision they were built from, so that "this     *)
(* decision came from that policy" is a statement about numbers.           *)
(***************************************************************************)
EXTENDS Integers, FiniteSets, CheckResponse

CONSTANTS
  Requests,         \* the Check calls, one goroutine each
  Decisions,        \* the documents policies may evaluate to
  MaxCommits,       \* bound: number of commits to the store
  Preparable,       \* policy revisions for which PrepareForEval succeeds
  Faults,           \* which calls out of the plugin may fail
  DryRun,           \* cfg.DryRun
  LoggerConfigured, \* logs.Lookup(manager) # nil
  EnablePerformanceMetrics

FaultKinds == {"uuid", "txn", "parse", "input", "storage", "topdown",
               "undefined", "ndcache", "log"}

ASSUME ConstantsAssumption ==
  /\ IsFiniteSet(Requests)
  /\ Decisions \subseteq AllDecisions
  /\ MaxCommits \in Nat
  /\ Preparable \subseteq 0 .. MaxCommits
  /\ Faults \subseteq FaultKinds
  /\ DryRun \in BOOLEAN
  /\ LoggerConfigured \in BOOLEAN
  /\ EnablePerformanceMetrics \in BOOLEAN

Revs == 0 .. MaxCommits

\* What a write transaction changes: bundle activation replaces modules,
\* manifest and data; the REST API writes a policy or a document.
Changes       == {"bundle", "policy", "data"}
PolicyChanged == {"bundle", "policy"}
DataChanged   == {"bundle", "data"}

\* preparedQuery before the first request, and after a failed PrepareForEval:
\* a pointer to the zero PreparedEvalQuery, whose Eval dereferences nil.
NoQuery   == -1
ZeroQuery == -2
NoRev     == -1

\* internal/errors.go
StartCheckErr          == "start_check_error"
StartTxnErr            == "start_txn_error"
RequestParseErr        == "request_parse_error"
CheckRequestTimeoutErr == "check_request_timeout"
InputParseErr          == "input_parse_error"
EnvoyAuthEvalErr       == "envoyauth_eval_error"
EnvoyAuthResultErr     == "envoyauth_result_error"

ErrorCodes == {StartCheckErr, StartTxnErr, RequestParseErr, CheckRequestTimeoutErr,
               InputParseErr, EnvoyAuthEvalErr, EnvoyAuthResultErr}

\* The error wrapped by an internal Error: a *topdown.Error, by its code, or
\* any other error.
EvalCancelErr   == "eval_cancel_error"
EvalConflictErr == "eval_conflict_error"
TopdownCodes    == {EvalCancelErr, EvalConflictErr}
Plain           == "plain"

internalError(code, cause) == [code |-> code, cause |-> cause]
NoErr  == internalError("", Plain)
Errors == [code : ErrorCodes \cup {""}, cause : TopdownCodes \cup {Plain}]

LogErrorReason == "unknown_log_error"
DurationMetric == "grpc_request_duration_seconds"
MetricKeys == ErrorCodes \cup TopdownCodes \cup {LogErrorReason, DurationMetric}

NoDecision == [type |-> "none"]
NoResult   == [decision |-> NoDecision, policy |-> NoRev, data |-> NoRev]
Results    == [decision : Decisions, policy : Revs, data : Revs]

NoEntry   == [kind |-> "none"]
LogFailed == [kind |-> "failed"]

VARIABLES
  \* storage/inmem and plugins.Manager
  policyRev,      \* revision of the policies committed to the store
  dataRev,        \* revision of the base documents committed to the store
  compiler,       \* revision manager.compiler was compiled from
  readers,        \* the calls holding rmu for reading (an open transaction)
  writer,         \* where the write transaction is
  change,         \* what it changes, one of Changes
  \* envoyExtAuthzGrpcServer
  once,           \* identity of the sync.Once preparedQueryDoOnce points to
  onceState,      \* state of each sync.Once: "new", "running", "done"
  preparedQuery,  \* revision of the prepared query, NoQuery or ZeroQuery
  metric,         \* error_counter by reason, and the duration observations
  crashed,        \* a goroutine panicked: the process is gone
  \* one Check call
  pc,             \* where the call is
  ctxDone,        \* its context is cancelled or past its deadline
  myOnce,         \* the sync.Once it loaded
  pq,             \* the query it built, or loaded to evaluate
  revision,       \* result.Revision: the manifests as getRevision read them
  result,         \* result.Decision and the revisions it was computed from
  err,            \* internalErr
  resp,           \* the response
  entry,          \* what the decision log got from this call
  snap            \* history: the store's revisions when its transaction opened

storeVars == <<policyRev, dataRev, compiler, writer, change>>
queryVars == <<once, onceState, preparedQuery>>
evalVars  == <<myOnce, pq, revision, result>>
outVars   == <<err, resp, entry>>
vars == <<storeVars, readers, queryVars, metric, crashed, pc, ctxDone, evalVars, outVars, snap>>

PC == {"idle", "started", "parse", "precheck", "revision", "once", "do",
       "prepare", "setquery", "load", "evaluating", "respond", "stop",
       "close", "done"}

\* Where a call has an open transaction.
InTxn == PC \ {"idle", "started", "done"}

Entries == [kind : {"event"}, revision : Revs \cup {NoRev}, error : Errors,
            decision : Decisions \cup {NoDecision}]

Init ==
  /\ policyRev = 0 /\ dataRev = 0 /\ compiler = 0
  /\ readers = {} /\ writer = "idle" /\ change = "policy"
  /\ once = 0 /\ onceState = [o \in Revs |-> "new"] /\ preparedQuery = NoQuery
  /\ metric = [k \in MetricKeys |-> 0]
  /\ crashed = FALSE
  /\ pc = [r \in Requests |-> "idle"]
  /\ ctxDone = [r \in Requests |-> FALSE]
  /\ myOnce = [r \in Requests |-> 0]
  /\ pq = [r \in Requests |-> NoQuery]
  /\ revision = [r \in Requests |-> NoRev]
  /\ result = [r \in Requests |-> NoResult]
  /\ err = [r \in Requests |-> NoErr]
  /\ resp = [r \in Requests |-> NilResp]
  /\ entry = [r \in Requests |-> NoEntry]
  /\ snap = [r \in Requests |-> [policy |-> NoRev, data |-> NoRev]]

Goto(r, l) == pc' = [pc EXCEPT ![r] = l]

\* An early return of check(): record internalErr and run the deferred part.
Fail(r, code, cause) ==
  /\ err' = [err EXCEPT ![r] = internalError(code, cause)]
  /\ Goto(r, "stop")

-----------------------------------------------------------------------------
(***************************************************************************)
(* The write transaction: NewTransaction(write), Commit, the manager's     *)
(* onCommit trigger and this plugin's compilerUpdated.                     *)
(***************************************************************************)
BeginWrite(k) ==
  /\ writer = "idle"
  /\ policyRev + dataRev < MaxCommits
  /\ writer' = "open"
  /\ change' = k
  /\ UNCHANGED <<policyRev, dataRev, compiler, readers, queryVars, metric, crashed,
                 pc, ctxDone, evalVars, outVars, snap>>

AbortWrite ==
  /\ writer = "open"
  /\ writer' = "idle"
  /\ UNCHANGED <<policyRev, dataRev, compiler, change, readers, queryVars, metric,
                 crashed, pc, ctxDone, evalVars, outVars, snap>>

\* db.rmu.Lock() is called: from here on no new reader gets in.
CommitLock ==
  /\ writer = "open"
  /\ writer' = "pending"
  /\ UNCHANGED <<policyRev, dataRev, compiler, change, readers, queryVars, metric,
                 crashed, pc, ctxDone, evalVars, outVars, snap>>

\* The lock is granted once the last reader is out.
M_LockGranted_IgnoresReaders == writer = "pending"

LockGranted == writer = "pending" /\ readers = {}

CommitStore ==
  /\ LockGranted
  /\ policyRev' = IF change \in PolicyChanged THEN policyRev + 1 ELSE policyRev
  /\ dataRev'   = IF change \in DataChanged THEN dataRev + 1 ELSE dataRev
  /\ writer' = "committed"
  /\ UNCHANGED <<compiler, change, readers, queryVars, metric, crashed, pc, ctxDone,
                 evalVars, outVars, snap>>

\* Manager.onCommit: a new compiler only when the policies changed.
onCommit ==
  /\ writer = "committed"
  /\ \/ /\ change \in PolicyChanged
        /\ compiler' = policyRev
        /\ writer' = "compiled"
     \/ /\ change \notin PolicyChanged
        /\ writer' = "triggered"
        /\ UNCHANGED compiler
  /\ UNCHANGED <<policyRev, dataRev, change, readers, queryVars, metric, crashed, pc,
                 ctxDone, evalVars, outVars, snap>>

M_compilerUpdated_KeepsOnce ==
  /\ writer = "compiled"
  /\ writer' = "triggered"
  /\ UNCHANGED <<policyRev, dataRev, compiler, change, readers, once, onceState,
                 preparedQuery, metric, crashed, pc, ctxDone, evalVars, outVars, snap>>

\* The pointer is cleared, and no Once is made.
M_compilerUpdated_NilOnce ==
  /\ writer = "compiled"
  /\ once' = NoQuery
  /\ writer' = "triggered"
  /\ UNCHANGED <<policyRev, dataRev, compiler, change, readers, onceState,
                 preparedQuery, metric, crashed, pc, ctxDone, evalVars, outVars, snap>>

\* The registered trigger: p.preparedQueryDoOnce = new(sync.Once).
compilerUpdated ==
  /\ writer = "compiled"
  /\ once' = once + 1
  /\ writer' = "triggered"
  /\ UNCHANGED <<policyRev, dataRev, compiler, change, readers, onceState,
                 preparedQuery, metric, crashed, pc, ctxDone, evalVars, outVars, snap>>

CommitUnlock ==
  /\ writer = "triggered"
  /\ writer' = "idle"
  /\ UNCHANGED <<policyRev, dataRev, compiler, change, readers, queryVars, metric,
                 crashed, pc, ctxDone, evalVars, outVars, snap>>

-----------------------------------------------------------------------------
(***************************************************************************)
(* One Check call.                                                         *)
(***************************************************************************)
\* The two early returns before stop exists: no decision log entry, no count.
FailEarly(r, code) ==
  /\ err' = [err EXCEPT ![r] = internalError(code, Plain)]
  /\ Goto(r, "done")

NewEvalResult(r) ==
  /\ pc[r] = "idle"
  /\ \/ /\ Goto(r, "started")
        /\ UNCHANGED err
     \/ /\ "uuid" \in Faults
        /\ FailEarly(r, StartCheckErr)
  /\ UNCHANGED <<storeVars, readers, queryVars, metric, crashed, ctxDone, evalVars,
                 resp, entry, snap>>

\* A sync.RWMutex admits no reader while a writer holds or waits for it.
CanRLock == writer \in {"idle", "open"}

GetTxn(r) ==
  /\ pc[r] = "started"
  /\ \/ /\ CanRLock
        /\ readers' = readers \cup {r}
        /\ snap' = [snap EXCEPT ![r] = [policy |-> policyRev, data |-> dataRev]]
        /\ Goto(r, "parse")
        /\ UNCHANGED err
     \/ /\ "txn" \in Faults
        /\ FailEarly(r, StartTxnErr)
        /\ UNCHANGED <<readers, snap>>
  /\ UNCHANGED <<storeVars, queryVars, metric, crashed, ctxDone, evalVars, resp, entry>>

\* envoyauth.RequestToInput: reads the request only.
RequestToInput(r) ==
  /\ pc[r] = "parse"
  /\ \/ /\ Goto(r, "precheck")
        /\ UNCHANGED err
     \/ /\ "parse" \in Faults
        /\ Fail(r, RequestParseErr, Plain)
  /\ UNCHANGED <<storeVars, readers, queryVars, metric, crashed, ctxDone, evalVars,
                 resp, entry, snap>>

\* ctx.Err(), then ast.InterfaceToValue.
BeforeEval(r) ==
  /\ pc[r] = "precheck"
  /\ \/ /\ ctxDone[r]
        /\ Fail(r, CheckRequestTimeoutErr, Plain)
     \/ /\ ~ctxDone[r]
        /\ "input" \in Faults
        /\ Fail(r, InputParseErr, Plain)
     \/ /\ ~ctxDone[r]
        /\ Goto(r, "revision")
        /\ UNCHANGED err
  /\ UNCHANGED <<storeVars, readers, queryVars, metric, crashed, ctxDone, evalVars,
                 resp, entry, snap>>

\* The revision is read only when the query is prepared.
M_getRevision_OnlyWhenPreparing(r) ==
  /\ pc[r] = "revision"
  /\ revision' = IF onceState[once] = "done" THEN revision
                 ELSE [revision EXCEPT ![r] = dataRev]
  /\ Goto(r, "once")
  /\ UNCHANGED <<storeVars, readers, queryVars, metric, crashed, ctxDone, myOnce, pq,
                 result, outVars, snap>>

\* The bundle manifests, read through the transaction of the call.
getRevision(r) ==
  /\ pc[r] = "revision"
  /\ \/ /\ revision' = [revision EXCEPT ![r] = dataRev]
        /\ Goto(r, "once")
        /\ UNCHANGED err
     \/ /\ "storage" \in Faults
        /\ Fail(r, EnvoyAuthEvalErr, Plain)
        /\ UNCHANGED revision
  /\ UNCHANGED <<storeVars, readers, queryVars, metric, crashed, ctxDone, myOnce, pq,
                 result, resp, entry, snap>>

\* evalContext.PreparedQueryDoOnce()
LoadOnce(r) ==
  /\ pc[r] = "once"
  /\ myOnce' = [myOnce EXCEPT ![r] = once]
  /\ Goto(r, "do")
  /\ UNCHANGED <<storeVars, readers, queryVars, metric, crashed, ctxDone, pq, revision,
                 result, outVars, snap>>

\* (*sync.Once).Do: the first caller runs the function, the others wait for it.
M_OnceDo_NoWait(r) ==
  /\ pc[r] = "do"
  /\ \/ /\ onceState[myOnce[r]] = "new"
        /\ onceState' = [onceState EXCEPT ![myOnce[r]] = "running"]
        /\ Goto(r, "prepare")
     \/ /\ onceState[myOnce[r]] # "new"
        /\ Goto(r, "load")
        /\ UNCHANGED onceState
  /\ UNCHANGED <<storeVars, readers, once, preparedQuery, metric, crashed, ctxDone,
                 evalVars, outVars, snap>>

OnceDo(r) ==
  /\ pc[r] = "do"
  /\ \/ /\ onceState[myOnce[r]] = "new"
        /\ onceState' = [onceState EXCEPT ![myOnce[r]] = "running"]
        /\ Goto(r, "prepare")
     \/ /\ onceState[myOnce[r]] = "done"
        /\ Goto(r, "load")
        /\ UNCHANGED onceState
  /\ UNCHANGED <<storeVars, readers, once, preparedQuery, metric, crashed, ctxDone,
                 evalVars, outVars, snap>>

\* rego.New(...).PrepareForEval with the compiler of that moment.
PrepareForEval(rev) == IF rev \in Preparable THEN rev ELSE ZeroQuery

\* The query is prepared in a transaction of its own instead of the caller's.
M_Prepare_OwnTxn(r) ==
  /\ pc[r] = "prepare"
  /\ CanRLock
  /\ pq' = [pq EXCEPT ![r] = PrepareForEval(compiler)]
  /\ Goto(r, "setquery")
  /\ UNCHANGED <<storeVars, readers, queryVars, metric, crashed, ctxDone, myOnce,
                 revision, result, outVars, snap>>

Prepare(r) ==
  /\ pc[r] = "prepare"
  /\ pq' = [pq EXCEPT ![r] = PrepareForEval(compiler)]
  /\ Goto(r, "setquery")
  /\ UNCHANGED <<storeVars, readers, queryVars, metric, crashed, ctxDone, myOnce,
                 revision, result, outVars, snap>>

\* SetPreparedQuery(&pq), also when err # nil; Do returns and marks the Once
\* done.  Only this caller of Do sees the error.
SetPreparedQuery(r) ==
  /\ pc[r] = "setquery"
  /\ preparedQuery' = pq[r]
  /\ onceState' = [onceState EXCEPT ![myOnce[r]] = "done"]
  /\ \/ /\ pq[r] = ZeroQuery
        /\ Fail(r, EnvoyAuthEvalErr, Plain)
     \/ /\ pq[r] # ZeroQuery
        /\ Goto(r, "load")
        /\ UNCHANGED err
  /\ UNCHANGED <<storeVars, readers, once, metric, crashed, ctxDone, evalVars, resp,
                 entry, snap>>

\* evalContext.PreparedQuery().Eval(...): the load, or the nil dereference.
LoadPreparedQuery(r) ==
  /\ pc[r] = "load"
  /\ \/ /\ preparedQuery \in Revs
        /\ pq' = [pq EXCEPT ![r] = preparedQuery]
        /\ Goto(r, "evaluating")
        /\ UNCHANGED crashed
     \/ /\ preparedQuery \notin Revs
        /\ crashed' = TRUE
        /\ UNCHANGED <<pq, pc>>
  /\ UNCHANGED <<storeVars, readers, queryVars, metric, ctxDone, myOnce, revision,
                 result, outVars, snap>>

\* The evaluation reads the store through the transaction of the call.  The
\* three failures: a topdown error, cancellation, zero or several results.
EvalQuery(r) ==
  /\ pc[r] = "evaluating"
  /\ \/ \E d \in Decisions :
          /\ result' = [result EXCEPT ![r] = [decision |-> d, policy |-> pq[r],
                                              data |-> dataRev]]
          /\ Goto(r, "respond")
          /\ UNCHANGED err
     \/ /\ ctxDone[r]
        /\ Fail(r, EnvoyAuthEvalErr, EvalCancelErr)
        /\ UNCHANGED result
     \/ /\ "topdown" \in Faults
        /\ Fail(r, EnvoyAuthEvalErr, EvalConflictErr)
        /\ UNCHANGED result
     \/ /\ "undefined" \in Faults
        /\ Fail(r, EnvoyAuthEvalErr, Plain)
        /\ UNCHANGED result
  /\ UNCHANGED <<storeVars, readers, queryVars, metric, crashed, ctxDone, myOnce, pq,
                 revision, resp, entry, snap>>

Count(m, key) ==
  IF EnablePerformanceMetrics THEN [m EXCEPT ![key] = @ + 1] ELSE m

\* IsAllowed to the end of check().  The call itself serves as decision id.
Respond(r) ==
  /\ pc[r] = "respond"
  /\ \/ /\ ResultErr(result[r].decision)
        /\ Fail(r, EnvoyAuthResultErr, Plain)
        /\ UNCHANGED <<resp, metric>>
     \/ /\ ~ResultErr(result[r].decision)
        /\ resp' = [resp EXCEPT ![r] = BuildResponse(result[r].decision, DryRun, r)]
        /\ metric' = Count(metric, DurationMetric)
        /\ Goto(r, "stop")
        /\ UNCHANGED err
  /\ UNCHANGED <<storeVars, readers, queryVars, crashed, ctxDone, evalVars, entry, snap>>

-----------------------------------------------------------------------------
(***************************************************************************)
(* stop(): count the error, write the decision log, close the transaction. *)
(***************************************************************************)
\* The reason label: the code of a wrapped topdown error, else the code of
\* internalErr, which is "" when the check succeeded.
ErrorReason(e) == IF e.cause \in TopdownCodes THEN e.cause ELSE e.code

M_CountError_Both(m, e) ==
  IF e.code = "" THEN m
  ELSE IF e.cause \in TopdownCodes THEN Count(Count(m, e.cause), e.code)
  ELSE Count(m, e.code)

CountError(m, e) == IF e.code = "" THEN m ELSE Count(m, ErrorReason(e))

\* The log shows the answer the dry-run override produced.
M_LogEntry_Overridden(r) ==
  [kind |-> "event", revision |-> revision[r], error |-> err[r],
   decision |-> IF err[r] # NoErr THEN NoDecision
                ELSE IF DryRun THEN [type |-> "bool", allowed |-> "true"]
                ELSE result[r].decision]

\* info.Error or info.Results, never both.
LogEntry(r) ==
  [kind |-> "event", revision |-> revision[r], error |-> err[r],
   decision |-> IF err[r] = NoErr THEN result[r].decision ELSE NoDecision]

\* log and LogDecision.  The non-deterministic builtin cache exists only
\* after a successful evaluation; without a logger plugin nothing is written.
LogDecision(r) ==
  /\ pc[r] = "stop"
  /\ metric' = CountError(metric, err[r])
  /\ \/ /\ LoggerConfigured
        /\ entry' = [entry EXCEPT ![r] = LogEntry(r)]
     \/ /\ LoggerConfigured
        /\ "log" \in Faults
        /\ entry' = [entry EXCEPT ![r] = LogFailed]
     \/ /\ result[r] # NoResult
        /\ "ndcache" \in Faults
        /\ entry' = [entry EXCEPT ![r] = LogFailed]
     \/ /\ ~LoggerConfigured
        /\ UNCHANGED entry
  /\ Goto(r, "close")
  /\ UNCHANGED <<storeVars, readers, queryVars, crashed, ctxDone, evalVars, err, resp,
                 snap>>

\* The log failed and the function returned before closing.
M_CloseTxn_LeakOnLogError(r) ==
  /\ pc[r] = "close"
  /\ readers' = IF entry[r] = LogFailed THEN readers ELSE readers \ {r}
  /\ metric' = IF entry[r] = LogFailed THEN Count(metric, LogErrorReason) ELSE metric
  /\ resp' = IF resp[r] = NilResp THEN resp
             ELSE [resp EXCEPT ![r] = ApplyStop(resp[r], entry[r] = LogFailed)]
  /\ Goto(r, "done")
  /\ UNCHANGED <<storeVars, queryVars, crashed, ctxDone, evalVars, err, entry, snap>>

\* The closer returned by GetTxn, the count of a log error, and Check's use of
\* the status stop() returned.
CloseTxn(r) ==
  /\ pc[r] = "close"
  /\ readers' = readers \ {r}
  /\ metric' = IF entry[r] = LogFailed THEN Count(metric, LogErrorReason) ELSE metric
  /\ resp' = IF resp[r] = NilResp THEN resp
             ELSE [resp EXCEPT ![r] = ApplyStop(resp[r], entry[r] = LogFailed)]
  /\ Goto(r, "done")
  /\ UNCHANGED <<storeVars, queryVars, crashed, ctxDone, evalVars, err, entry, snap>>

\* Envoy gives up on the call, or its deadline passes.
Cancel(r) ==
  /\ pc[r] \notin {"idle", "done"}
  /\ ~ctxDone[r]
  /\ ctxDone' = [ctxDone EXCEPT ![r] = TRUE]
  /\ UNCHANGED <<storeVars, readers, queryVars, metric, crashed, pc, evalVars, outVars,
                 snap>>

-----------------------------------------------------------------------------
WriterStep == CommitStore \/ onCommit \/ compilerUpdated \/ CommitUnlock

CheckStep(r) ==
  \/ GetTxn(r) \/ RequestToInput(r) \/ BeforeEval(r) \/ getRevision(r)
  \/ LoadOnce(r) \/ OnceDo(r) \/ Prepare(r) \/ SetPreparedQuery(r)
  \/ LoadPreparedQuery(r) \/ EvalQuery(r) \/ Respond(r)
  \/ LogDecision(r) \/ CloseTxn(r)

\* Nothing is left to do: every call is answered and no write is under way.
Quiescent ==
  /\ \/ crashed
     \/ /\ \A r \in Requests : pc[r] = "done"
        /\ writer = "idle"
  /\ UNCHANGED vars

Next ==
  \/ /\ ~crashed
     /\ \/ \E k \in Changes : BeginWrite(k)
        \/ AbortWrite
        \/ CommitLock
        \/ WriterStep
        \/ \E r \in Requests : NewEvalResult(r) \/ CheckStep(r) \/ Cancel(r)
  \/ Quiescent

Spec == Init /\ [][Next]_vars

(***************************************************************************)
(* Goroutines that can run eventually do, a policy evaluation terminates,  *)
(* and a commit that was begun is carried through.  Nothing obliges Envoy  *)
(* to call, a call to be cancelled, or a write to begin or to commit.      *)
(***************************************************************************)
Fairness ==
  /\ WF_vars(~crashed /\ WriterStep)
  /\ \A r \in Requests : WF_vars(~crashed /\ CheckStep(r))

FairSpec == Spec /\ Fairness

-----------------------------------------------------------------------------
(***************************************************************************)
(* Properties.                                                             *)
(***************************************************************************)
\* Every variable has its type.
TypeOK ==
  /\ policyRev \in Revs /\ dataRev \in Revs /\ compiler \in Revs /\ once \in Revs
  /\ readers \subseteq Requests
  /\ writer \in {"idle", "open", "pending", "committed", "compiled", "triggered"}
  /\ change \in Changes
  /\ onceState \in [Revs -> {"new", "running", "done"}]
  /\ preparedQuery \in Revs \cup {NoQuery, ZeroQuery}
  /\ metric \in [MetricKeys -> Nat]
  /\ crashed \in BOOLEAN
  /\ pc \in [Requests -> PC]
  /\ ctxDone \in [Requests -> BOOLEAN]
  /\ myOnce \in [Requests -> Revs]
  /\ pq \in [Requests -> Revs \cup {NoQuery, ZeroQuery}]
  /\ revision \in [Requests -> Revs \cup {NoRev}]
  /\ result \in [Requests -> {NoResult} \cup Results]
  /\ err \in [Requests -> Errors]
  /\ resp \in [Requests -> {NilResp} \cup Responses(Requests)]
  /\ entry \in [Requests -> {NoEntry, LogFailed} \cup Entries]
  /\ snap \in [Requests -> [policy : Revs \cup {NoRev}, data : Revs \cup {NoRev}]]

\* A decision comes from one version of the world: the compiled policy that
\* was evaluated, the documents it read and the revision that is logged are
\* those of the store at the moment the call opened its transaction, whatever
\* was committed, recompiled or cached meanwhile.
OneSnapshot ==
  \A r \in Requests : result[r] # NoResult =>
    /\ result[r].policy = snap[r].policy
    /\ result[r].data = snap[r].data
    /\ revision[r] = snap[r].data

\* The two fields of the server that no mutex protects are never written
\* while another goroutine is about to read them: preparedQueryDoOnce by
\* compilerUpdated against Eval, preparedQuery by the function inside Do
\* against the Eval of another call.
NoDataRace ==
  \A r \in Requests :
    /\ writer = "compiled" => pc[r] # "once"
    /\ pc[r] = "setquery" => \A s \in Requests : pc[s] \notin {"setquery", "load"} \/ s = r

\* The decisions a call with response OK may rest on.
Permits(r) ==
  /\ result[r] # NoResult
  /\ ~ResultErr(result[r].decision)
  /\ IsAllowed(result[r].decision) \/ DryRun

\* Fail closed: Envoy gets status OK only from a call without any error whose
\* policy said yes (or in dry-run mode), and never when the decision could not
\* be logged; every other answer is an error or a denial.
FailClosed ==
  \A r \in Requests : pc[r] = "done" /\ resp[r].status = Code_OK =>
    err[r] = NoErr /\ Permits(r) /\ entry[r] # LogFailed

\* Whatever Envoy was told to enforce is in the decision log: the entry holds
\* the decision of the policy (in dry-run mode too: what would have happened),
\* no error, and the revision of the snapshot the decision was made on.
AnswersAreLogged ==
  \A r \in Requests :
    /\ LoggerConfigured
    /\ pc[r] = "done"
    /\ resp[r].status \in {Code_OK, Code_PERMISSION_DENIED}
    => entry[r] = [kind |-> "event", revision |-> snap[r].data, error |-> NoErr,
                   decision |-> result[r].decision]

\* The calls whose stop() has counted errors.
Stopped == {r \in Requests : pc[r] \in {"close", "done"} /\ snap[r].policy # NoRev}

\* error_counter says what happened: under each reason the number of calls
\* that failed for it, each once, and log failures under their own reason; the
\* histogram has one observation for each call that got a response.
CountersAreExact ==
  EnablePerformanceMetrics =>
    /\ \A k \in ErrorCodes \cup TopdownCodes :
         metric[k] = Cardinality({r \in Stopped : ErrorReason(err[r]) = k})
    /\ metric[LogErrorReason] =
         Cardinality({r \in Requests : pc[r] = "done" /\ entry[r] = LogFailed})
    /\ metric[DurationMetric] = Cardinality({r \in Requests : resp[r] # NilResp})

\* While any call has a transaction open, no step changes the store, the
\* compiler or the Once that call relies on.
WritersExcludeReaders ==
  [][readers # {} => UNCHANGED <<policyRev, dataRev, compiler, once>>]_vars

\* Every call that was started is answered: no call waits for ever for a
\* transaction, for the Once, or for a writer that waits for it.
EveryCheckReturns ==
  \A r \in Requests : pc[r] # "idle" ~> pc[r] = "done"

\* A commit that waits for the readers to leave gets the lock and finishes,
\* whatever the calls do: none of them leaks its transaction.
CommitCompletes == writer = "pending" ~> writer = "idle"

-----------------------------------------------------------------------------
(***************************************************************************)
(* The inductive invariant behind OneSnapshot and NoDataRace.              *)
(***************************************************************************)
\* The committed policies the compiler trigger has not caught up with yet.
Uncompiled == writer = "committed" /\ change \in PolicyChanged
Unnotified == Uncompiled \/ writer = "compiled"

\* Outside a commit the compiler is that of the stored policies and the Once
\* is the one made for it.
StoreInv ==
  /\ writer \in {"open", "pending"} => policyRev + dataRev < MaxCommits
  /\ policyRev = compiler + (IF Uncompiled THEN 1 ELSE 0)
  /\ policyRev = once + (IF Unnotified THEN 1 ELSE 0)

\* The reader lock is held exactly by the calls with an open transaction, and
\* by none while a commit is applied.
LockInv ==
  /\ readers = {r \in Requests : pc[r] \in InTxn}
  /\ writer \in {"committed", "compiled", "triggered"} => readers = {}

Preparing == {"prepare", "setquery"}

\* Onces to come are unused; a Once that is done has published its query; one
\* call at most is inside Do.
OnceInv ==
  /\ \A o \in Revs : o > once => onceState[o] = "new"
  /\ onceState[once] = "done" => preparedQuery = PrepareForEval(once)
  /\ \A r, s \in Requests : pc[r] \in Preparing /\ pc[s] \in Preparing => r = s

\* What a call holds is what the server holds, as long as its transaction
\* is open.
CallInv(r) ==
  /\ pc[r] \in InTxn => snap[r] = [policy |-> policyRev, data |-> dataRev]
  /\ pc[r] \in {"do", "prepare", "setquery", "load"} => myOnce[r] = once
  /\ pc[r] \in Preparing => onceState[once] = "running"
  /\ pc[r] = "setquery" => pq[r] = PrepareForEval(once)
  /\ pc[r] = "load" => onceState[once] = "done"
  /\ pc[r] = "evaluating" => pq[r] = once
  /\ pc[r] \in {"once", "do", "prepare", "setquery", "load", "evaluating"} =>
       revision[r] = dataRev
  /\ pc[r] \in {"idle", "started", "parse", "precheck", "revision"} => result[r] = NoResult
  /\ pc[r] = "respond" => result[r] # NoResult

\* The state of the server is coherent: this is what makes it impossible for a
\* call to evaluate a query that belongs to another version of the policies.
Coherent ==
  /\ TypeOK
  /\ StoreInv
  /\ LockInv
  /\ OnceInv
  /\ \A r \in Requests : CallInv(r)
  /\ OneSnapshot

-----------------------------------------------------------------------------
(***************************************************************************)
(* Statements of the repository that the code does not meet.               *)
(***************************************************************************)
\* internal/errors.go: "EnvoyAuthEvalErr error code returned when auth eval
\* fails".  A failed evaluation is an error of its call, not of the process.
EvalFailureIsReturned == ~crashed

\* internal/internal.go: "If dry-run mode, override the Status code to
\* unconditionally Allow the request".
DryRunAllows ==
  DryRun => \A r \in Requests : pc[r] = "done" => resp[r].status = Code_OK

\* internal/internal.go registers error_counter as "A counter for errors":
\* a call that failed has been counted under its reason.
EveryErrorIsCounted ==
  EnablePerformanceMetrics =>
    \A r \in Requests : pc[r] = "done" /\ err[r] # NoErr => metric[ErrorReason(err[r])] > 0
=============================================================================
