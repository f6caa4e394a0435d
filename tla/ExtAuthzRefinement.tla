------------------------ MODULE ExtAuthzRefinement ------------------------
(***************************************************************************)
(* ExtAuthz implements AuthzService.  A commit takes effect when the store *)
(* applies it, a call decides when its evaluation yields a result, and it  *)
(* is answered when Check returns.                                         *)
(***************************************************************************)
EXTENDS ExtAuthz

PhaseOf(r) ==
  CASE pc[r] = "idle" -> "idle"
    [] pc[r] = "done" -> "answered"
    [] pc[r] \notin {"idle", "done"} /\ result[r] = NoResult -> "open"
    [] pc[r] \notin {"idle", "done"} /\ result[r] # NoResult -> "decided"

AnswerOf(r) ==
  CASE pc[r] # "done" -> "none"
    [] pc[r] = "done" /\ resp[r].status = Code_OK -> "allow"
    [] pc[r] = "done" /\ resp[r].status = Code_PERMISSION_DENIED -> "deny"
    [] pc[r] = "done" /\ resp[r].status \notin {Code_OK, Code_PERMISSION_DENIED} -> "error"

Service ==
  INSTANCE AuthzService
    WITH policy <- policyRev, data <- dataRev, up <- ~crashed,
         phase  <- [r \in Requests |-> PhaseOf(r)],
         basis  <- result,
         answer <- [r \in Requests |-> AnswerOf(r)]

\* The server of the code is an AuthzService: every decision is one the policy
\* and the documents in force at some instant of the call support, and the
\* answer is that decision's or an error, in spite of the prepared query being
\* shared by all calls and replaced behind their backs.
ImplementsService == Service!Spec
=============================================================================
