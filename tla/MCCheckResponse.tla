-------------------------- MODULE MCCheckResponse --------------------------
(***************************************************************************)
(* The headers of a decision are converted in any map order, and then the  *)
(* decision is put through both versions of Check, with dry-run mode on    *)
(* and off and the decision log working and failing.                       *)
(***************************************************************************)
EXTENDS CheckResponse, HeaderValues

CONSTANTS a1, a2, b, u, w     \* header names and values

VARIABLES d, dryRun, logFailed, answered, v3, v2

answer == <<d, dryRun, logFailed, answered, v3, v2>>

Id == "id"

-----------------------------------------------------------------------------
\* Two spellings of one name and a second name.
MCCanonical == [k \in {a1, a2, b} |-> IF k = b THEN "B" ELSE "A"]

Str(v) == [type |-> "string", value |-> v]
List(s) == [type |-> "list", items |-> s]

Shapes == {Str(u), List(<<u, w>>), List(<<w, u>>), List(<<>>), List(<<u, NotString>>), Other}

ObjectsOver(ks, shapes) ==
  {[type |-> "object", fields |-> f] : f \in UNION {[s -> shapes] : s \in SUBSET ks}}

Small == ObjectsOver({a1, a2}, {Str(w), List(<<u, w>>), List(<<NotString>>)})

\* The documents under "headers" that are put through every decision.
Plainest == {List(<<>>), Other}

MCDocuments ==
  ObjectsOver(Keys, Shapes)
    \cup Plainest \cup {List(<<Other>>)}
    \cup {List(<<x, y>>) : x \in Small, y \in Small \cup {Other}}

\* The decisions that can have doc as their headers: every one for the
\* plainest documents, the two verdicts with nothing else for the others.
DecisionsFor ==
  {x \in ObjectDecisions :
     /\ x.headers = Malformed <=> pc = "error"
     /\ x.headers = Missing => options = <<>>
     /\ doc \in Plainest \/
        /\ x.allowed \in {"true", "false"}
        /\ x.headers # Missing
        /\ \A k \in DOMAIN x \ {"type", "allowed", "headers"} : x[k] = Missing}
  \cup (IF doc \in Plainest THEN BoolDecisions \cup {OtherDecision} ELSE {})

MCInit ==
  /\ Init
  /\ d = OtherDecision /\ dryRun = FALSE /\ logFailed = FALSE
  /\ answered = FALSE
  /\ v3 = NilResp /\ v2 = NilResp

\* One decision, handled by a v3 and by a v2 call.
Respond ==
  /\ pc \in {"done", "error"} /\ ~answered
  /\ answered' = TRUE
  /\ d' \in DecisionsFor
  /\ dryRun' \in BOOLEAN
  /\ logFailed' \in BOOLEAN
  /\ v3' = v3Check(d', dryRun', logFailed', Id)
  /\ v2' = v2Check(d', dryRun', logFailed', Id)
  /\ UNCHANGED vars

MCNext == Respond \/ (Next /\ UNCHANGED answer)

MCSpec == MCInit /\ [][MCNext]_<<vars, answer>>

-----------------------------------------------------------------------------
\* What Envoy does with a response: it lets the request through when the
\* status is OK, and then applies the headers of an OkHttpResponse.
Enforced(resp) ==
  CASE resp.status = Code_OK -> "allow"
    [] resp.status = Code_PERMISSION_DENIED -> "deny"
    [] OTHER -> "error"

\* The verdict and the body of a response never contradict each other: status
\* OK comes with no denied response, PERMISSION_DENIED with no OK response, on
\* both versions of the API, dry-run override and log failure included.
VerdictMatchesBody ==
  \A resp \in {v3, v2} :
    /\ Enforced(resp) = "allow" => resp.http.kind # "denied"
    /\ Enforced(resp) = "deny" => resp.http.kind # "ok"

\* Reference definition: the keys check() may read for each verdict.
UsedKeys(dec) ==
  {"allowed", "headers", "dynamic_metadata"} \cup
    (IF IsAllowed(dec) THEN {"request_headers_to_remove", "response_headers_to_add"}
     ELSE {"body", "http_status"})

\* A key that the verdict does not use has no influence: whatever an allow
\* decision puts under body or http_status, and a deny decision under the
\* header lists of an allow, well-formed or not, the outcome is the same as
\* without that key.
UnusedKeysIgnored ==
  d.type = "object" =>
    \A k \in DOMAIN d \ ({"type"} \cup UsedKeys(d)) :
      v3 = v3Check([d EXCEPT ![k] = Missing], dryRun, logFailed, Id)

\* Envoy enforces the same thing whichever version of the API it speaks: both
\* fail together, and otherwise the status, the request headers of an allow
\* and the whole body of a denial agree.
VersionsAgree ==
  /\ v3 = NilResp <=> v2 = NilResp
  /\ v3 # NilResp =>
       /\ v2.status = v3.status
       /\ v2.http.kind = v3.http.kind
       /\ v3.http.kind = "ok" => v2.http.headers = v3.http.headers
       /\ v3.http.kind = "denied" => v2.http = v3.http

\* A decision that denies is never enforced as an allow outside dry-run mode,
\* and in dry-run mode it is, without any trace of the denial in the response.
DryRunIsTheOnlyOverride ==
  (v3 # NilResp /\ ~IsAllowed(d)) =>
    /\ Enforced(v3) = "allow" => dryRun
    /\ dryRun => v3.http = OkHttp(Empty, Empty, Empty)
    /\ dryRun /\ ~logFailed => Enforced(v3) = "allow"
=============================================================================
