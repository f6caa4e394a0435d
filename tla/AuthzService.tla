--------------------------- MODULE AuthzService ---------------------------
(***************************************************************************)
(* What the plugin promises Envoy, without locks, caches or compilers.     *)
(*                                                                         *)
(* The policies and the documents change at any time, each change at once. *)
(* A call, somewhere between its arrival and its answer, takes a decision  *)
(* from the policies and documents in force at that instant, and is then   *)
(* answered: with what the decision says or with an error, but never with  *)
(* an allow or a deny that the decision does not support.  The process     *)
(* may also go down.                                                       *)
(***************************************************************************)
EXTENDS Integers, CheckResponse

CONSTANTS Requests, Decisions, DryRun

VARIABLES
  policy,     \* version of the policies in force
  data,       \* version of the documents in force
  up,         \* the process is alive
  phase,      \* of each call: "idle", "open", "decided", "answered"
  basis,      \* the decision of each call and the versions it came from
  answer      \* of each call: "none", "allow", "deny", "error"

vars == <<policy, data, up, phase, basis, answer>>

NoBasis == [decision |-> [type |-> "none"], policy |-> -1, data |-> -1]

Init ==
  /\ policy = 0 /\ data = 0 /\ up = TRUE
  /\ phase = [r \in Requests |-> "idle"]
  /\ basis = [r \in Requests |-> NoBasis]
  /\ answer = [r \in Requests |-> "none"]

Update ==
  /\ policy' \in {policy, policy + 1}
  /\ data' \in {data, data + 1}
  /\ UNCHANGED <<up, phase, basis, answer>>

Call(r) ==
  /\ phase[r] = "idle"
  /\ phase' = [phase EXCEPT ![r] = "open"]
  /\ UNCHANGED <<policy, data, up, basis, answer>>

Decide(r) ==
  /\ phase[r] = "open"
  /\ \E d \in Decisions :
       basis' = [basis EXCEPT ![r] = [decision |-> d, policy |-> policy, data |-> data]]
  /\ phase' = [phase EXCEPT ![r] = "decided"]
  /\ UNCHANGED <<policy, data, up, answer>>

\* The answers a decision supports.
Supports(d, a) ==
  /\ ~ResultErr(d)
  /\ a = IF IsAllowed(d) \/ DryRun THEN "allow" ELSE "deny"

Answer(r, a) ==
  /\ \/ /\ phase[r] \in {"idle", "open", "decided"}
        /\ a = "error"
     \/ /\ phase[r] = "decided"
        /\ Supports(basis[r].decision, a)
  /\ phase' = [phase EXCEPT ![r] = "answered"]
  /\ answer' = [answer EXCEPT ![r] = a]
  /\ UNCHANGED <<policy, data, up, basis>>

Crash ==
  /\ up' = FALSE
  /\ UNCHANGED <<policy, data, phase, basis, answer>>

Next ==
  /\ up
  /\ \/ Update
     \/ Crash
     \/ \E r \in Requests :
          Call(r) \/ Decide(r) \/ \E a \in {"allow", "deny", "error"} : Answer(r, a)

Spec == Init /\ [][Next]_vars
=============================================================================
