--------------------------- MODULE CheckResponse ---------------------------
(***************************************************************************)
(* From the decision document a policy evaluates to, to the CheckResponse  *)
(* Envoy receives: the accessors of envoyauth/response.go, the second half *)
(* of check() in internal/internal.go (448-580), what Check does with the  *)
(* status returned by stop() (358-368) and the ext_authz v2 wrapper        *)
(* (640-700).                                                              *)
(*                                                                         *)
(* A decision is a boolean, an object, or something else.  The value of an *)
(* object's key is Missing when the key is absent, Malformed when the      *)
(* accessor of that key rejects it (wrong type, or a nested value of the   *)
(* wrong type), and otherwise a payload that the code passes on unchanged: *)
(* a member of the constant set Values, or, for http_status, a number.     *)
(***************************************************************************)
CONSTANT Values                 \* headers, bodies and metadata, opaque

Missing   == "missing"
Malformed == "malformed"
Empty     == "empty"            \* what an accessor returns for a Missing key

ASSUME ValuesAssumption == {Missing, Malformed, Empty} \cap Values = {}

(***************************************************************************)
(* Statuses.  Numbers are abstracted to one representative of each class   *)
(* the two lookups tell apart: 403 is known to both net/http and Envoy,    *)
(* 418 only to net/http, 0 only to Envoy and 999 to neither.               *)
(***************************************************************************)
HTTPStatusText  == {"403", "418"}
StatusCode_name == {"403", "0"}
HTTPNumbers     == {"0", "403", "418", "999"}
StatusForbidden == "403"

Code_OK                == "OK"
Code_PERMISSION_DENIED == "PERMISSION_DENIED"
Code_UNKNOWN           == "UNKNOWN"
Codes == {Code_OK, Code_PERMISSION_DENIED, Code_UNKNOWN}

(***************************************************************************)
(* Decision documents.                                                     *)
(***************************************************************************)
Field == {Missing, Malformed} \cup Values

BoolDecisions == [type : {"bool"}, allowed : {"true", "false"}]

ObjectDecisions ==
  [type : {"object"},
   allowed                   : {"true", "false", Missing, Malformed},
   headers                   : Field,
   response_headers_to_add   : Field,
   request_headers_to_remove : Field,
   body                      : Field,
   http_status               : {Missing, Malformed} \cup HTTPNumbers,
   dynamic_metadata          : Field]

OtherDecision == [type |-> "other"]

AllDecisions == BoolDecisions \cup ObjectDecisions \cup {OtherDecision}

(***************************************************************************)
(* The accessors.  An accessor that can fail has a companion XxxErr that   *)
(* holds when the Go function returns a non-nil error.                     *)
(***************************************************************************)
IsAllowedErr(d) ==
  \/ d.type = "other"
  \/ d.type = "object" /\ d.allowed \in {Missing, Malformed}

IsAllowed(d) == d.type # "other" /\ d.allowed = "true"

\* GetResponseBody, GetResponseHTTPHeaders, GetResponseHTTPHeadersToAdd,
\* GetRequestHTTPHeadersToRemove and GetDynamicMetadata on an object.
Get(d, key) == IF d[key] = Missing THEN Empty ELSE d[key]
GetErr(d, key) == d[key] = Malformed

GetResponseEnvoyHTTPStatus(d) ==
  IF d.http_status = Missing THEN StatusForbidden ELSE d.http_status

\* The two lookups: http.StatusText, then the stricter Envoy enumeration.
GetResponseEnvoyHTTPStatusErr(d) ==
  \/ GetErr(d, "http_status")
  \/ GetResponseEnvoyHTTPStatus(d) \notin HTTPStatusText
  \/ GetResponseEnvoyHTTPStatus(d) \notin StatusCode_name

(***************************************************************************)
(* check(): the early returns between Eval and the end of the function,    *)
(* all with code EnvoyAuthResultErr.  Which keys are read depends on the   *)
(* verdict.                                                                *)
(***************************************************************************)
M_ResultErr_ReadsAllKeys(d) ==
  \/ IsAllowedErr(d)
  \/ /\ d.type = "object"
     /\ \/ GetErr(d, "headers")
        \/ GetErr(d, "dynamic_metadata")
        \/ GetErr(d, "request_headers_to_remove")
        \/ GetErr(d, "response_headers_to_add")
        \/ GetErr(d, "body")
        \/ GetResponseEnvoyHTTPStatusErr(d)

ResultErr(d) ==
  \/ IsAllowedErr(d)
  \/ /\ d.type = "object"
     /\ \/ GetErr(d, "headers")
        \/ GetErr(d, "dynamic_metadata")
        \/ /\ IsAllowed(d)
           /\ \/ GetErr(d, "request_headers_to_remove")
              \/ GetErr(d, "response_headers_to_add")
        \/ /\ ~IsAllowed(d)
           /\ \/ GetErr(d, "body")
              \/ GetResponseEnvoyHTTPStatusErr(d)

\* The responses, with payloads taken from Out; ids are the decision ids.
Out == {Empty} \cup Field
HttpResponses ==
  [kind : {"none"}]
    \cup [kind : {"ok"}, headers : Out, headersToRemove : Out,
          responseHeadersToAdd : Out]
    \cup [kind : {"denied"}, headers : Out, body : Out,
          status : {Malformed} \cup HTTPNumbers]

Responses(ids) ==
  [status : Codes, http : HttpResponses,
   metadata : [policy : Out, decision_id : ids]]

NoHttp == [kind |-> "none"]

OkHttp(headers, remove, add) ==
  [kind |-> "ok", headers |-> headers, headersToRemove |-> remove,
   responseHeadersToAdd |-> add]

DeniedHttp(headers, body, status) ==
  [kind |-> "denied", headers |-> headers, body |-> body, status |-> status]

HttpResponse(d) ==
  CASE d.type # "object" -> NoHttp
    [] d.type = "object" /\ IsAllowed(d) ->
         OkHttp(Get(d, "headers"), Get(d, "request_headers_to_remove"),
                Get(d, "response_headers_to_add"))
    [] OTHER ->
         DeniedHttp(Get(d, "headers"), Get(d, "body"),
                    GetResponseEnvoyHTTPStatus(d))

PolicyMetadata(d) == IF d.type = "object" THEN Get(d, "dynamic_metadata") ELSE Empty

\* resp before the dry-run override; decision_id is written over whatever the
\* policy put under that key.
DecisionResponse(d, id) ==
  [status   |-> IF IsAllowed(d) THEN Code_OK ELSE Code_PERMISSION_DENIED,
   http     |-> HttpResponse(d),
   metadata |-> [policy |-> PolicyMetadata(d), decision_id |-> id]]

M_dryRunOverride_StatusOnly(resp) == [resp EXCEPT !.status = Code_OK]

dryRunOverride(resp) ==
  IF resp.status = Code_OK THEN resp
  ELSE [resp EXCEPT !.status = Code_OK, !.http = OkHttp(Empty, Empty, Empty)]

M_BuildResponse_AlwaysOverride(d, dryRun, id) == dryRunOverride(DecisionResponse(d, id))

BuildResponse(d, dryRun, id) ==
  IF dryRun THEN dryRunOverride(DecisionResponse(d, id)) ELSE DecisionResponse(d, id)

(***************************************************************************)
(* v2Response drops the metadata and two of the three header lists.        *)
(***************************************************************************)
v2Http(http) ==
  CASE http.kind = "none" -> NoHttp
    [] http.kind = "ok" -> [kind |-> "ok", headers |-> http.headers]
    [] http.kind = "denied" -> DeniedHttp(http.headers, http.body, http.status)

v2Response(resp) == [status |-> resp.status, http |-> v2Http(resp.http)]

(***************************************************************************)
(* Check (v3) and the Check of the v2 wrapper, from the decision on: the   *)
(* status returned by stop() replaces the one of a non-nil response.       *)
(***************************************************************************)
NilResp == [status |-> "nil"]

M_ApplyStop_KeepsAllow(resp, logFailed) ==
  IF logFailed /\ resp.status # Code_OK
  THEN [resp EXCEPT !.status = Code_UNKNOWN] ELSE resp

ApplyStop(resp, logFailed) ==
  IF logFailed THEN [resp EXCEPT !.status = Code_UNKNOWN] ELSE resp

v3Check(d, dryRun, logFailed, id) ==
  IF ResultErr(d) THEN NilResp
  ELSE ApplyStop(BuildResponse(d, dryRun, id), logFailed)

\* The deferred function wrote to the response made before check() returned.
M_v2Check_StaleResponse(d, dryRun, logFailed, id) ==
  IF ResultErr(d) THEN NilResp ELSE v2Response(BuildResponse(d, dryRun, id))

v2Check(d, dryRun, logFailed, id) ==
  IF ResultErr(d) THEN NilResp
  ELSE ApplyStop(v2Response(BuildResponse(d, dryRun, id)), logFailed)
=============================================================================
