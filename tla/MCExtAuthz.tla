---------------------------- MODULE MCExtAuthz ----------------------------
(***************************************************************************)
(* Instances of ExtAuthz for TLC.                                          *)
(***************************************************************************)
EXTENDS ExtAuthzRefinement, TLC

CONSTANT h            \* a payload

Plainly(a) == [type |-> "bool", allowed |-> a]

Object(a, headers) ==
  [type |-> "object", allowed |-> a, headers |-> headers,
   response_headers_to_add |-> Missing, request_headers_to_remove |-> Missing,
   body |-> h, http_status |-> Missing, dynamic_metadata |-> Missing]

\* Yes and no, as a boolean and as an object; an object that cannot be turned
\* into a response; a decision that is neither.
MCDecisions == {Plainly("true"), Object("false", h), Object("true", Malformed), OtherDecision}
OneDecision ==  {Plainly("true")}
TwoDecisions == {Plainly("true"), Object("false", h)}

AllFaults  == FaultKinds
SomeFaults == {"parse", "log"}
NoFaults   == {}
Symmetry   == Permutations(Requests)
=============================================================================
