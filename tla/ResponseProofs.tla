--------------------------- MODULE ResponseProofs ---------------------------
(***************************************************************************)
(* Proofs about the response that is made of a decision, for every         *)
(* decision, every payload, every document of headers and both versions of *)
(* the API.                                                                *)
(*                                                                         *)
(*   VerdictMatchesBody, VersionsAgree, DryRunIsTheOnlyOverride,           *)
(*   UnusedKeysIgnored                  what Check answers (MCSpec)        *)
(*   ErrorIsDeterministic, HeadersArePreserved, OrderIsKept                *)
(*                                      the header lists (Spec)            *)
(***************************************************************************)
EXTENDS MCCheckResponse, TLAPS, FiniteSetTheorems, FunctionTheorems

(***************************************************************************)
(* The answers.  The invariant says what v3 and v2 are: nothing before the *)
(* calls return, and then the outcome of the two versions of Check for one *)
(* decision.  The rest is about the operators: what check() makes of a     *)
(* decision, and what the dry-run override, the v2 wrapper and a failed    *)
(* log do to it.                                                           *)
(***************************************************************************)
Unanswered == d = OtherDecision /\ v3 = NilResp /\ v2 = NilResp

Answered ==
  /\ d \in AllDecisions /\ dryRun \in BOOLEAN /\ logFailed \in BOOLEAN
  /\ v3 = v3Check(d, dryRun, logFailed, Id)
  /\ v2 = v2Check(d, dryRun, logFailed, Id)

AnswerInv == Unanswered \/ Answered

-----------------------------------------------------------------------------
\* Nothing is answered at first, and the one answer is that of Check.
LEMMA AnswersAreChecks == MCSpec => []AnswerInv
<1>1. MCInit => AnswerInv
  BY DEF MCInit, AnswerInv, Unanswered
<1>2. AnswerInv /\ [MCNext]_<<vars, answer>> => AnswerInv'
  <2> SUFFICES ASSUME AnswerInv, [MCNext]_<<vars, answer>> PROVE AnswerInv'
    OBVIOUS
  <2>1. CASE Respond
    <3>1. DecisionsFor \subseteq AllDecisions
      BY DEF DecisionsFor, AllDecisions
    <3> QED
      BY <2>1, <3>1 DEF Respond, AnswerInv, Answered
  <2>2. CASE UNCHANGED answer
    BY <2>2 DEF answer, AnswerInv, Unanswered, Answered
  <2> QED
    BY <2>1, <2>2 DEF MCNext
<1> QED
  BY <1>1, <1>2, PTL DEF MCSpec

-----------------------------------------------------------------------------
\* The body of a response before the overrides: none for a boolean, an OK
\* response for an object that allows and a denied one for an object that denies.
LEMMA BodyKinds ==
  ASSUME NEW dec \in AllDecisions
  PROVE  /\ HttpResponse(dec).kind \in {"none", "ok", "denied"}
         /\ IsAllowed(dec) => HttpResponse(dec).kind # "denied"
         /\ ~IsAllowed(dec) => HttpResponse(dec).kind # "ok"
BY DEF HttpResponse, NoHttp, OkHttp, DeniedHttp

\* The override of a denial: its status and its body are replaced.
LEMMA OverrideOf ==
  ASSUME NEW http, NEW metadata
  PROVE  dryRunOverride([status |-> Code_PERMISSION_DENIED, http |-> http, metadata |-> metadata])
           = [status |-> Code_OK, http |-> OkHttp(Empty, Empty, Empty), metadata |-> metadata]
BY DEF dryRunOverride, Code_OK, Code_PERMISSION_DENIED

\* What check() builds, field by field.
LEMMA Built ==
  ASSUME NEW dec \in AllDecisions, NEW dry \in BOOLEAN
  PROVE  LET resp == BuildResponse(dec, dry, Id) IN
         /\ resp = [status |-> resp.status, http |-> resp.http, metadata |-> resp.metadata]
         /\ resp.status = IF IsAllowed(dec) \/ dry THEN Code_OK ELSE Code_PERMISSION_DENIED
         /\ resp.http = IF IsAllowed(dec) \/ ~dry THEN HttpResponse(dec)
                        ELSE OkHttp(Empty, Empty, Empty)
<1>1. DecisionResponse(dec, Id) =
        [status   |-> IF IsAllowed(dec) THEN Code_OK ELSE Code_PERMISSION_DENIED,
         http     |-> HttpResponse(dec),
         metadata |-> [policy |-> PolicyMetadata(dec), decision_id |-> Id]]
  BY DEF DecisionResponse
<1>2. dryRunOverride(DecisionResponse(dec, Id)) =
        [status   |-> Code_OK,
         http     |-> IF IsAllowed(dec) THEN HttpResponse(dec) ELSE OkHttp(Empty, Empty, Empty),
         metadata |-> [policy |-> PolicyMetadata(dec), decision_id |-> Id]]
  <2>1. CASE IsAllowed(dec)
    BY <1>1, <2>1 DEF dryRunOverride
  <2>2. CASE ~IsAllowed(dec)
    <3>1. DecisionResponse(dec, Id) =
            [status   |-> Code_PERMISSION_DENIED,
             http     |-> HttpResponse(dec),
             metadata |-> [policy |-> PolicyMetadata(dec), decision_id |-> Id]]
      BY <1>1, <2>2
    <3> QED
      BY <2>2, <3>1, OverrideOf
  <2> QED
    BY <2>1, <2>2
<1> QED
  BY <1>1, <1>2 DEF BuildResponse

\* What the v3 call answers: the status is UNKNOWN when the log failed.
LEMMA V3Fields ==
  ASSUME NEW dec \in AllDecisions, NEW dry \in BOOLEAN, NEW lost \in BOOLEAN, ~ResultErr(dec)
  PROVE  LET resp == v3Check(dec, dry, lost, Id) IN
         /\ resp.status = IF lost THEN Code_UNKNOWN
                          ELSE IF IsAllowed(dec) \/ dry THEN Code_OK ELSE Code_PERMISSION_DENIED
         /\ resp.http = IF IsAllowed(dec) \/ ~dry THEN HttpResponse(dec)
                        ELSE OkHttp(Empty, Empty, Empty)
BY Built DEF v3Check, ApplyStop

\* What the v2 call answers: the same, with the body cut down by v2Response.
LEMMA V2Fields ==
  ASSUME NEW dec \in AllDecisions, NEW dry \in BOOLEAN, NEW lost \in BOOLEAN, ~ResultErr(dec)
  PROVE  /\ v2Check(dec, dry, lost, Id).status = v3Check(dec, dry, lost, Id).status
         /\ v2Check(dec, dry, lost, Id).http = v2Http(v3Check(dec, dry, lost, Id).http)
<1> DEFINE resp == BuildResponse(dec, dry, Id)
<1>1. v2Response(resp) = [status |-> resp.status, http |-> v2Http(resp.http)]
  BY DEF v2Response
<1>2. resp = [status |-> resp.status, http |-> resp.http, metadata |-> resp.metadata]
  BY Built
<1> HIDE DEF resp
<1>3. /\ ApplyStop(v2Response(resp), lost).status = ApplyStop(resp, lost).status
      /\ ApplyStop(v2Response(resp), lost).http = v2Http(ApplyStop(resp, lost).http)
  BY <1>1, <1>2 DEF ApplyStop
<1> QED
  BY <1>3 DEF v3Check, v2Check, resp

-----------------------------------------------------------------------------
\* The verdict and the body never contradict each other, whatever the decision
\* holds, on both versions of the API, dry-run override and log failure included.
THEOREM VerdictsMatchBodies == MCSpec => []VerdictMatchesBody
<1>1. AnswerInv => VerdictMatchesBody
  <2> SUFFICES ASSUME AnswerInv, NEW resp \in {v3, v2}
               PROVE  /\ Enforced(resp) = "allow" => resp.http.kind # "denied"
                      /\ Enforced(resp) = "deny" => resp.http.kind # "ok"
    BY DEF VerdictMatchesBody
  <2>1. CASE resp = NilResp
    BY <2>1 DEF Enforced, NilResp, Code_OK, Code_PERMISSION_DENIED
  <2>2. CASE resp # NilResp
    <3>1. Answered /\ ~ResultErr(d)
      BY <2>2 DEF AnswerInv, Unanswered, Answered, v3Check, v2Check
    <3>2. /\ v3.status = IF logFailed THEN Code_UNKNOWN
                         ELSE IF IsAllowed(d) \/ dryRun THEN Code_OK ELSE Code_PERMISSION_DENIED
          /\ v3.http = IF IsAllowed(d) \/ ~dryRun THEN HttpResponse(d)
                       ELSE OkHttp(Empty, Empty, Empty)
      BY <3>1, V3Fields DEF Answered
    <3>3. v2.status = v3.status /\ v2.http = v2Http(v3.http)
      BY <3>1, V2Fields DEF Answered
    <3>4. /\ v3.http.kind \in {"none", "ok", "denied"}
          /\ v3.status = Code_OK => v3.http.kind # "denied"
          /\ v3.status = Code_PERMISSION_DENIED => v3.http.kind # "ok"
      BY <3>1, <3>2, BodyKinds
         DEF Answered, OkHttp, Code_OK, Code_PERMISSION_DENIED, Code_UNKNOWN
    <3>5. v2.http.kind = v3.http.kind
      BY <3>3, <3>4 DEF v2Http, NoHttp, DeniedHttp
    <3>6. /\ Enforced(resp) = "allow" => resp.status = Code_OK
          /\ Enforced(resp) = "deny" => resp.status = Code_PERMISSION_DENIED
      BY DEF Enforced
    <3> QED
      BY <3>3, <3>4, <3>5, <3>6
  <2> QED
    BY <2>1, <2>2
<1> QED
  BY <1>1, AnswersAreChecks, PTL

\* Envoy enforces the same thing whichever version of the API it speaks.
THEOREM VersionsNeverDiffer == MCSpec => []VersionsAgree
<1>1. AnswerInv => VersionsAgree
  <2> SUFFICES ASSUME AnswerInv PROVE VersionsAgree
    OBVIOUS
  <2>1. CASE Unanswered \/ ResultErr(d)
    <3>1. v3 = NilResp /\ v2 = NilResp
      BY <2>1 DEF AnswerInv, Unanswered, Answered, v3Check, v2Check
    <3> QED
      BY <3>1 DEF VersionsAgree
  <2>2. CASE Answered /\ ~ResultErr(d)
    <3>1. /\ v3.status \in Codes
          /\ v3.http = IF IsAllowed(d) \/ ~dryRun THEN HttpResponse(d)
                       ELSE OkHttp(Empty, Empty, Empty)
      BY <2>2, V3Fields DEF Answered, Codes
    <3>2. v2.status = v3.status /\ v2.http = v2Http(v3.http)
      BY <2>2, V2Fields DEF Answered
    <3>3. v3 # NilResp /\ v2 # NilResp
      BY <3>1, <3>2 DEF NilResp, Codes, Code_OK, Code_PERMISSION_DENIED, Code_UNKNOWN
    <3>4. \/ v3.http = NoHttp
          \/ \E x, y, z : v3.http = OkHttp(x, y, z)
          \/ \E x, y, z : v3.http = DeniedHttp(x, y, z)
      BY <3>1 DEF HttpResponse
    <3>5. /\ v2.http.kind = v3.http.kind
          /\ v3.http.kind = "ok" => v2.http.headers = v3.http.headers
          /\ v3.http.kind = "denied" => v2.http = v3.http
      <4>1. CASE v3.http = NoHttp
        BY <3>2, <4>1 DEF v2Http, NoHttp
      <4>2. ASSUME NEW x, NEW y, NEW z, v3.http = OkHttp(x, y, z)
            PROVE  /\ v2.http.kind = v3.http.kind /\ v3.http.kind = "ok"
                   /\ v2.http.headers = v3.http.headers
        BY <3>2, <4>2 DEF v2Http, OkHttp
      <4>3. ASSUME NEW x, NEW y, NEW z, v3.http = DeniedHttp(x, y, z)
            PROVE  v2.http = v3.http /\ v3.http.kind = "denied"
        BY <3>2, <4>3 DEF v2Http, DeniedHttp
      <4> QED
        BY <3>4, <4>1, <4>2, <4>3 DEF NoHttp
    <3> QED
      BY <3>2, <3>3, <3>5 DEF VersionsAgree
  <2> QED
    BY <2>1, <2>2 DEF AnswerInv
<1> QED
  BY <1>1, AnswersAreChecks, PTL

\* A denial is enforced as an allow in dry-run mode only, and then without a trace.
THEOREM OnlyDryRunOverrides == MCSpec => []DryRunIsTheOnlyOverride
<1>1. AnswerInv => DryRunIsTheOnlyOverride
  <2> SUFFICES ASSUME AnswerInv, v3 # NilResp, ~IsAllowed(d)
               PROVE  /\ Enforced(v3) = "allow" => dryRun
                      /\ dryRun => v3.http = OkHttp(Empty, Empty, Empty)
                      /\ dryRun /\ ~logFailed => Enforced(v3) = "allow"
    BY DEF DryRunIsTheOnlyOverride
  <2>1. Answered /\ ~ResultErr(d)
    BY DEF AnswerInv, Unanswered, Answered, v3Check
  <2>2. /\ v3.status = IF logFailed THEN Code_UNKNOWN
                       ELSE IF IsAllowed(d) \/ dryRun THEN Code_OK ELSE Code_PERMISSION_DENIED
        /\ v3.http = IF IsAllowed(d) \/ ~dryRun THEN HttpResponse(d)
                     ELSE OkHttp(Empty, Empty, Empty)
    BY <2>1, V3Fields DEF Answered
  <2>3. Enforced(v3) = "allow" <=> v3.status = Code_OK
    BY DEF Enforced, Code_OK, Code_PERMISSION_DENIED
  <2> QED
    BY <2>1, <2>2, <2>3 DEF Answered, Code_OK, Code_PERMISSION_DENIED, Code_UNKNOWN
<1> QED
  BY <1>1, AnswersAreChecks, PTL

\* Two objects with the same verdict that agree on the keys check() reads for it
\* have the same outcome.
LEMMA UsedKeysDecide ==
  ASSUME NEW x, NEW y, x.type = "object", y.type = "object",
         \A k \in UsedKeys(x) : x[k] = y[k]
  PROVE  \A dry, lost : v3Check(y, dry, lost, Id) = v3Check(x, dry, lost, Id)
<1>1. /\ x["allowed"] = y["allowed"] /\ x["headers"] = y["headers"]
      /\ x["dynamic_metadata"] = y["dynamic_metadata"]
  BY DEF UsedKeys
<1>2. IsAllowed(x) <=> IsAllowed(y)
  BY <1>1 DEF IsAllowed
<1>3. /\ IsAllowed(x) =>
           /\ x["request_headers_to_remove"] = y["request_headers_to_remove"]
           /\ x["response_headers_to_add"] = y["response_headers_to_add"]
      /\ ~IsAllowed(x) => x["body"] = y["body"] /\ x["http_status"] = y["http_status"]
  BY DEF UsedKeys
<1>4. ResultErr(y) <=> ResultErr(x)
  BY <1>1, <1>2, <1>3
     DEF ResultErr, IsAllowedErr, GetErr, GetResponseEnvoyHTTPStatusErr, GetResponseEnvoyHTTPStatus
<1>5. HttpResponse(y) = HttpResponse(x)
  BY <1>1, <1>2, <1>3 DEF HttpResponse, Get, GetResponseEnvoyHTTPStatus
<1>6. PolicyMetadata(y) = PolicyMetadata(x)
  BY <1>1 DEF PolicyMetadata, Get
<1>7. DecisionResponse(y, Id) = DecisionResponse(x, Id)
  BY <1>2, <1>5, <1>6 DEF DecisionResponse
<1> QED
  BY <1>4, <1>7 DEF v3Check, BuildResponse

\* A key that the verdict does not use has no influence, well-formed or not.
THEOREM OnlyUsedKeysCount == MCSpec => []UnusedKeysIgnored
<1>1. AnswerInv => UnusedKeysIgnored
  <2> SUFFICES ASSUME AnswerInv, d.type = "object",
                      NEW k \in DOMAIN d \ ({"type"} \cup UsedKeys(d))
               PROVE  v3 = v3Check([d EXCEPT ![k] = Missing], dryRun, logFailed, Id)
    BY DEF UnusedKeysIgnored
  <2> DEFINE x == [d EXCEPT ![k] = Missing]
  <2>1. Answered
    BY DEF AnswerInv, Unanswered, OtherDecision
  <2>2. d \in ObjectDecisions
    BY <2>1 DEF Answered, AllDecisions, BoolDecisions, OtherDecision
  <2>3. d = [j \in DOMAIN d |-> d[j]]
    BY <2>2 DEF ObjectDecisions
  <2>4. \A j \in DOMAIN d : j # k => x[j] = d[j]
    BY <2>3
  <2>5. UsedKeys(d) \cup {"type"} \subseteq DOMAIN d
    BY <2>2 DEF ObjectDecisions, UsedKeys
  <2>6. x["type"] = d["type"] /\ \A j \in UsedKeys(d) : d[j] = x[j]
    BY <2>4, <2>5
  <2>7. x.type = "object"
    BY <2>6
  <2> HIDE DEF x
  <2>8. v3Check(x, dryRun, logFailed, Id) = v3Check(d, dryRun, logFailed, Id)
    BY <2>6, <2>7, UsedKeysDecide
  <2> QED
    BY <2>1, <2>8 DEF Answered, x
<1> QED
  BY <1>1, AnswersAreChecks, PTL

-----------------------------------------------------------------------------
(***************************************************************************)
(* The header lists.  Which key or name comes next is open at every step,  *)
(* so the invariant says what has been taken, not in which order: for each *)
(* name there is a way to place the occurrences taken so far, one at each  *)
(* of its values (Placed), and the options of an emitted name are its      *)
(* values in one block (Block).  HeadersArePreserved then follows from a   *)
(* bijection, and OrderIsKept from the placement itself.                   *)
(***************************************************************************)
\* How many objects are finished, and the keys of an object that were taken.
Finished == Len(Objects(doc)) - Len(todo)

TakenKeys(i) ==
  IF i <= Finished THEN DOMAIN Objects(doc)[i].fields
  ELSE IF i = Finished + 1 THEN seen ELSE {}

\* The occurrences that were taken and belong to name n.
TakenOf(n) ==
  UNION {UNION {{<<i, k, j>> : j \in DOMAIN Items(Objects(doc)[i].fields[k])} :
                k \in {x \in TakenKeys(i) : Canonical[x] = n}} : i \in DOMAIN Objects(doc)}

\* todo is what is left of the list, and seen belongs to its first object.
WalkInv ==
  /\ doc \in Documents
  /\ pc \in {"take", "emit", "done", "error"}
  /\ todo \in Seq({Objects(doc)[i] : i \in DOMAIN Objects(doc)})
  /\ Len(todo) <= Len(Objects(doc))
  /\ \A j \in 1 .. Len(todo) : todo[j] = Objects(doc)[Finished + j]
  /\ seen # {} => todo # <<>> /\ Head(todo).type = "object" /\ seen \subseteq DOMAIN Head(todo).fields
  /\ pc \in {"emit", "done"} => todo = <<>>

\* Nothing bad was taken, and an error has its reason in the document.
GoodInv ==
  /\ \A i \in 1 .. Finished : Objects(doc)[i].type = "object"
  /\ \A i \in DOMAIN Objects(doc) : \A k \in TakenKeys(i) : ~IsBad(Objects(doc)[i].fields[k])
  /\ pc = "error" => ~WellFormed
  /\ pc \in {"take", "error"} => emitted = {} /\ options = <<>>

-----------------------------------------------------------------------------
\* The list of objects of a document is a sequence.
LEMMA ObjectsAreASeq ==
  ASSUME doc \in Documents
  PROVE  /\ Objects(doc) \in Seq({Objects(doc)[i] : i \in DOMAIN Objects(doc)})
         /\ Len(Objects(doc)) \in Nat /\ DOMAIN Objects(doc) = 1 .. Len(Objects(doc))
<1>1. Objects(doc) \in Seq({Objects(doc)[i] : i \in DOMAIN Objects(doc)})
  BY DocumentsAssumption
<1> QED
  BY <1>1

\* The first object that is left is the one behind the finished ones.
LEMMA Current ==
  ASSUME WalkInv, todo # <<>>
  PROVE  /\ Len(todo) \in Nat \ {0}
         /\ Finished \in Nat /\ Finished + 1 \in DOMAIN Objects(doc)
         /\ Head(todo) = Objects(doc)[Finished + 1]
         /\ Tail(todo) \in Seq({Objects(doc)[i] : i \in DOMAIN Objects(doc)})
         /\ Len(Tail(todo)) = Len(todo) - 1
         /\ \A j \in 1 .. Len(Tail(todo)) : Tail(todo)[j] = todo[j + 1]
<1>1. /\ Len(Objects(doc)) \in Nat /\ DOMAIN Objects(doc) = 1 .. Len(Objects(doc))
      /\ todo \in Seq({Objects(doc)[i] : i \in DOMAIN Objects(doc)})
  BY ObjectsAreASeq DEF WalkInv
<1>2. Len(todo) \in Nat \ {0} /\ Head(todo) = todo[1]
  BY <1>1
<1>3. Finished \in Nat /\ Finished + 1 \in 1 .. Len(Objects(doc))
  BY <1>1, <1>2 DEF WalkInv, Finished
<1>4. todo[1] = Objects(doc)[Finished + 1]
  BY <1>2 DEF WalkInv
<1> QED
  BY <1>1, <1>2, <1>3, <1>4

\* The walk through the document keeps to it.
LEMMA WalkStep ==
  ASSUME WalkInv, [Next]_vars
  PROVE  WalkInv'
<1>1. CASE NotAnObject \/ Taken \/ Emitted \/ UNCHANGED vars
  BY <1>1 DEF NotAnObject, Fail, Taken, Emitted, vars, WalkInv, Finished
<1>2. ASSUME NEW n \in Names, EmitName(n) PROVE WalkInv'
  BY <1>2 DEF EmitName, WalkInv, Finished
<1>3. ASSUME NEW k \in Keys, TakeKey(k) PROVE WalkInv'
  BY <1>3 DEF TakeKey, Fail, WalkInv, Finished
<1>4. CASE NextObject
  <2>1. /\ doc' = doc /\ pc' = pc /\ pc = "take" /\ seen' = {} /\ todo # <<>> /\ todo' = Tail(todo)
    BY <1>4 DEF NextObject
  <2>2. Finished' = Finished + 1
    BY <2>1, Current, ObjectsAreASeq DEF Finished, WalkInv
  <2>3. Len(todo) <= Len(Objects(doc)) /\ Len(Objects(doc)) \in Nat
    BY ObjectsAreASeq DEF WalkInv
  <2>4. todo' \in Seq({Objects(doc)[i] : i \in DOMAIN Objects(doc)}) /\ Len(todo') = Len(todo) - 1
    BY <2>1, Current
  <2>5. ASSUME NEW j \in 1 .. Len(todo') PROVE todo'[j] = Objects(doc)[Finished + 1 + j]
    <3>1. todo'[j] = todo[j + 1] /\ j + 1 \in 1 .. Len(todo)
      BY <2>1, <2>4, <2>5, Current
    <3>2. todo[j + 1] = Objects(doc)[Finished + (j + 1)]
      BY <3>1 DEF WalkInv
    <3>3. Finished + (j + 1) = Finished + 1 + j
      BY <2>1, <2>5, Current
    <3> QED
      BY <3>1, <3>2, <3>3
  <2> QED
    BY <2>1, <2>2, <2>3, <2>4, <2>5, Current DEF WalkInv
<1> QED
  BY <1>1, <1>2, <1>3, <1>4 DEF Next

\* A finished object counts as taken with all its keys, as it did before.
LEMMA TakenAfterObject ==
  ASSUME WalkInv, NextObject
  PROVE  /\ doc' = doc /\ Finished' = Finished + 1
         /\ \A i \in DOMAIN Objects(doc) : TakenKeys(i)' = TakenKeys(i)
<1>1. /\ doc' = doc /\ seen' = {} /\ todo # <<>> /\ todo' = Tail(todo)
      /\ DOMAIN Head(todo).fields = seen
  BY DEF NextObject
<1>2. Len(Objects(doc)) \in Nat /\ DOMAIN Objects(doc) = 1 .. Len(Objects(doc))
  BY ObjectsAreASeq DEF WalkInv
<1>3. Finished' = Finished + 1 /\ Finished \in Nat
  BY <1>1, <1>2, Current DEF Finished
<1>4. DOMAIN Objects(doc)[Finished + 1].fields = seen
  BY <1>1, Current
<1>5. ASSUME NEW i \in DOMAIN Objects(doc) PROVE TakenKeys(i)' = TakenKeys(i)
  <2>1. i \in Nat
    BY <1>2, <1>5
  <2>2. TakenKeys(i)' = IF i <= Finished + 1 THEN DOMAIN Objects(doc)[i].fields ELSE {}
    BY <1>1, <1>3 DEF TakenKeys
  <2>3. CASE i = Finished + 1
    BY <1>3, <1>4, <2>2, <2>3 DEF TakenKeys
  <2>4. CASE i # Finished + 1
    BY <1>3, <2>1, <2>2, <2>4 DEF TakenKeys
  <2> QED
    BY <2>3, <2>4
<1> QED
  BY <1>1, <1>3, <1>5

\* A key that is taken is added to those of the current object.
LEMMA TakenAfterKey ==
  ASSUME WalkInv, NEW k \in Keys, TakeKey(k)
  PROVE  /\ doc' = doc /\ Finished' = Finished /\ todo # <<>>
         /\ k \in DOMAIN Objects(doc)[Finished + 1].fields
         /\ k \notin TakenKeys(Finished + 1)
         /\ Objects(doc)[Finished + 1].type = "object"
         /\ \/ /\ IsBad(Objects(doc)[Finished + 1].fields[k])
               /\ Fail
            \/ /\ ~IsBad(Objects(doc)[Finished + 1].fields[k])
               /\ header' = Add(header, k, Items(Objects(doc)[Finished + 1].fields[k]))
               /\ UNCHANGED <<pc, emitted, options>>
               /\ \A i \in DOMAIN Objects(doc) :
                    TakenKeys(i)' = IF i = Finished + 1 THEN TakenKeys(i) \cup {k} ELSE TakenKeys(i)
<1>1. doc' = doc /\ todo' = todo /\ todo # <<>>
  BY DEF TakeKey, Fail
<1>2. Finished' = Finished /\ Finished \in Nat /\ Head(todo) = Objects(doc)[Finished + 1]
  BY <1>1, Current DEF Finished
<1>3. TakenKeys(Finished + 1) = seen
  BY <1>2 DEF TakenKeys
<1>4. ASSUME seen' = seen \cup {k}
      PROVE  \A i \in DOMAIN Objects(doc) :
               TakenKeys(i)' = IF i = Finished + 1 THEN TakenKeys(i) \cup {k} ELSE TakenKeys(i)
  <2> TAKE i \in DOMAIN Objects(doc)
  <2>1. i \in Nat
    BY ObjectsAreASeq DEF WalkInv
  <2>2. CASE i = Finished + 1
    BY <1>1, <1>2, <1>4, <2>2 DEF TakenKeys
  <2>3. CASE i # Finished + 1
    BY <1>1, <1>2, <2>1, <2>3 DEF TakenKeys
  <2> QED
    BY <2>2, <2>3
<1>5. \/ IsBad(Objects(doc)[Finished + 1].fields[k]) /\ Fail
      \/ /\ ~IsBad(Objects(doc)[Finished + 1].fields[k])
         /\ header' = Add(header, k, Items(Objects(doc)[Finished + 1].fields[k]))
         /\ seen' = seen \cup {k}
         /\ UNCHANGED <<pc, emitted, options>>
  BY <1>2 DEF TakeKey
<1> QED
  BY <1>1, <1>2, <1>3, <1>4, <1>5 DEF TakeKey

\* What is taken is good, and what is refused is bad.
LEMMA GoodStep ==
  ASSUME WalkInv, GoodInv, [Next]_vars
  PROVE  GoodInv'
<1>1. CASE Taken \/ Emitted \/ UNCHANGED vars
  <2>1. doc' = doc /\ todo' = todo /\ seen' = seen
    BY <1>1 DEF Taken, Emitted, vars
  <2>2. Finished' = Finished /\ \A i \in DOMAIN Objects(doc) : TakenKeys(i)' = TakenKeys(i)
    BY <2>1 DEF Finished, TakenKeys
  <2>3. pc' \in {"take", "error"} => pc' = pc /\ emitted' = emitted /\ options' = options
    BY <1>1 DEF Taken, Emitted, vars
  <2> QED
    BY <2>1, <2>2, <2>3 DEF GoodInv, WellFormed
<1>2. CASE NotAnObject
  <2>1. UNCHANGED <<doc, todo, seen, emitted, options>> /\ pc = "take" /\ todo # <<>>
        /\ Head(todo).type # "object"
    BY <1>2 DEF NotAnObject, Fail
  <2>2. ~WellFormed
    BY <2>1, Current DEF WellFormed
  <2>3. Finished' = Finished /\ \A i \in DOMAIN Objects(doc) : TakenKeys(i)' = TakenKeys(i)
    BY <2>1 DEF Finished, TakenKeys
  <2> QED
    BY <2>1, <2>2, <2>3 DEF GoodInv, WellFormed
<1>3. ASSUME NEW n \in Names, EmitName(n) PROVE GoodInv'
  <2>1. UNCHANGED <<doc, todo, seen, pc>> /\ pc = "emit"
    BY <1>3 DEF EmitName
  <2>2. Finished' = Finished /\ \A i \in DOMAIN Objects(doc) : TakenKeys(i)' = TakenKeys(i)
    BY <2>1 DEF Finished, TakenKeys
  <2> QED
    BY <2>1, <2>2 DEF GoodInv
<1>4. CASE NextObject
  <2>1. UNCHANGED <<pc, emitted, options>> /\ pc = "take" /\ todo # <<>> /\ Head(todo).type = "object"
    BY <1>4 DEF NextObject
  <2>2. Finished \in Nat /\ Objects(doc)[Finished + 1].type = "object"
    BY <2>1, Current
  <2>3. \A i \in 1 .. Finished + 1 : Objects(doc)[i].type = "object"
    BY <2>2 DEF GoodInv
  <2> QED
    BY <1>4, <2>1, <2>3, TakenAfterObject DEF GoodInv
<1>5. ASSUME NEW k \in Keys, TakeKey(k) PROVE GoodInv'
  <2>1. CASE Fail
    <3>1. UNCHANGED <<doc, todo, seen, emitted, options>>
      BY <2>1 DEF Fail
    <3>2. Finished' = Finished /\ \A i \in DOMAIN Objects(doc) : TakenKeys(i)' = TakenKeys(i)
      BY <3>1 DEF Finished, TakenKeys
    <3>3. CASE IsBad(Objects(doc)[Finished + 1].fields[k])
      <4>1. ~WellFormed
        BY <1>5, <3>3, TakenAfterKey, Current DEF WellFormed
      <4>2. pc = "take"
        BY <1>5 DEF TakeKey
      <4> QED
        BY <3>1, <3>2, <4>1, <4>2 DEF GoodInv, WellFormed
    <3>4. CASE ~IsBad(Objects(doc)[Finished + 1].fields[k])
      <4>1. pc' = pc /\ pc = "take"
        BY <1>5, <3>4, TakenAfterKey DEF TakeKey
      <4> QED
        BY <2>1, <4>1 DEF Fail
    <3> QED
      BY <3>3, <3>4
  <2>2. CASE ~Fail
    <3>1. /\ ~IsBad(Objects(doc)[Finished + 1].fields[k])
          /\ UNCHANGED <<doc, pc, emitted, options>> /\ Finished' = Finished
          /\ \A i \in DOMAIN Objects(doc) :
               TakenKeys(i)' = IF i = Finished + 1 THEN TakenKeys(i) \cup {k} ELSE TakenKeys(i)
      BY <1>5, <2>2, TakenAfterKey
    <3> QED
      BY <3>1 DEF GoodInv, WellFormed
  <2> QED
    BY <2>1, <2>2
<1> QED
  BY <1>1, <1>2, <1>3, <1>4, <1>5 DEF Next

\* Both hold in every reachable state.
LEMMA WalkAlways == Spec => [](WalkInv /\ GoodInv)
<1>1. Init => WalkInv /\ GoodInv
  <2> SUFFICES ASSUME Init PROVE WalkInv /\ GoodInv
    OBVIOUS
  <2>1. doc \in Documents /\ pc = "take" /\ todo = Objects(doc) /\ seen = {} /\ emitted = {} /\ options = <<>>
    BY DEF Init
  <2>2. /\ Objects(doc) \in Seq({Objects(doc)[i] : i \in DOMAIN Objects(doc)})
        /\ Len(Objects(doc)) \in Nat /\ DOMAIN Objects(doc) = 1 .. Len(Objects(doc))
    BY <2>1, ObjectsAreASeq
  <2>3. Finished = 0
    BY <2>1, <2>2 DEF Finished
  <2>4. \A i \in DOMAIN Objects(doc) : TakenKeys(i) = {}
    BY <2>1, <2>2, <2>3 DEF TakenKeys
  <2>5. WalkInv
    BY <2>1, <2>2, <2>3 DEF WalkInv
  <2> QED
    BY <2>1, <2>3, <2>4, <2>5 DEF GoodInv
<1>2. WalkInv /\ GoodInv /\ [Next]_vars => WalkInv' /\ GoodInv'
  BY WalkStep, GoodStep
<1> QED
  BY <1>1, <1>2, PTL DEF Spec

\* Whether a document is refused does not depend on the map order.
THEOREM ErrorsAreDeterministic == Spec => []ErrorIsDeterministic
<1>1. WalkInv /\ GoodInv => ErrorIsDeterministic
  <2> SUFFICES ASSUME WalkInv, GoodInv PROVE ErrorIsDeterministic
    OBVIOUS
  <2>1. ASSUME pc = "done" PROVE WellFormed
    <3>1. todo = <<>> /\ DOMAIN Objects(doc) = 1 .. Len(Objects(doc)) /\ Len(Objects(doc)) \in Nat
      BY <2>1, ObjectsAreASeq DEF WalkInv
    <3>2. Finished = Len(Objects(doc))
      BY <3>1 DEF Finished
    <3>3. \A i \in DOMAIN Objects(doc) : TakenKeys(i) = DOMAIN Objects(doc)[i].fields
      BY <3>1, <3>2 DEF TakenKeys
    <3> QED
      BY <3>1, <3>2, <3>3 DEF GoodInv, WellFormed
  <2> QED
    BY <2>1 DEF GoodInv, ErrorIsDeterministic
<1> QED
  BY <1>1, WalkAlways, PTL

-----------------------------------------------------------------------------
\* at puts every occurrence that was taken at its place among the values of its
\* name, and fills them.
Placed(n, at) ==
  /\ at \in [TakenOf(n) -> 1 .. Len(header[n])]
  /\ \A p \in 1 .. Len(header[n]) : \E o \in TakenOf(n) : at[o] = p
  /\ \A o \in TakenOf(n) : header[n][at[o]] = ValueOf(o)
  /\ \A o1, o2 \in TakenOf(n) :
       (o1 # o2 => at[o1] # at[o2]) /\ (Precedes(o1, o2) => at[o1] < at[o2])

HeaderInv ==
  /\ header \in [Names -> Seq(Strings)]
  /\ \A n \in Names : \E at : Placed(n, at)

\* What TakenOf and Occurrences hold.
LEMMA TakenMember ==
  ASSUME NEW n, NEW o
  PROVE  o \in TakenOf(n) <=>
           \E i \in DOMAIN Objects(doc) : \E k \in TakenKeys(i) :
             /\ Canonical[k] = n
             /\ \E j \in DOMAIN Items(Objects(doc)[i].fields[k]) : o = <<i, k, j>>
BY DEF TakenOf

\* The values of a key that is not bad are a sequence of strings.
LEMMA GoodItems ==
  ASSUME doc \in Documents, NEW i \in DOMAIN Objects(doc), Objects(doc)[i].type = "object",
         NEW k \in DOMAIN Objects(doc)[i].fields, ~IsBad(Objects(doc)[i].fields[k])
  PROVE  k \in Keys /\ Items(Objects(doc)[i].fields[k]) \in Seq(Strings)
<1> DEFINE v == Objects(doc)[i].fields[k]
<1>1. /\ k \in Keys /\ v.type \in {"string", "list", "other"}
      /\ v.type = "string" => v.value \in Strings
      /\ v.type = "list" => v.items \in Seq(Strings \cup {NotString})
  BY DocumentsAssumption
<1> HIDE DEF v
<1>2. CASE v.type = "string"
  BY <1>1, <1>2 DEF Items, v
<1>3. CASE v.type = "list"
  <2>1. v.items \in Seq(Strings \cup {NotString}) /\ \A j \in DOMAIN v.items : v.items[j] # NotString
    BY <1>1, <1>3 DEF IsBad, v
  <2>2. v.items \in Seq(Strings)
    BY <2>1
  <2>3. Items(v) = v.items
    BY <1>3 DEF Items
  <2> QED
    BY <1>1, <2>2, <2>3 DEF v
<1> QED
  BY <1>1, <1>2, <1>3 DEF IsBad, v

\* A step that takes nothing keeps every occurrence in its place.
LEMMA PlacedFrame ==
  ASSUME HeaderInv, doc' = doc, header' = header,
         \A i \in DOMAIN Objects(doc) : TakenKeys(i)' = TakenKeys(i)
  PROVE  HeaderInv'
<1>1. ASSUME NEW n PROVE TakenOf(n)' = TakenOf(n)
  BY DEF TakenOf
<1>2. ASSUME NEW n, NEW at, Placed(n, at) PROVE Placed(n, at)'
  BY <1>1, <1>2 DEF Placed, ValueOf
<1> QED
  BY <1>2 DEF HeaderInv

\* Two sequences in one.
LEMMA Joined ==
  ASSUME NEW S, NEW s \in Seq(S), NEW t \in Seq(S)
  PROVE  /\ s \o t \in Seq(S) /\ Len(s \o t) = Len(s) + Len(t)
         /\ \A i \in 1 .. Len(s) : (s \o t)[i] = s[i]
         /\ \A i \in 1 .. Len(t) : (s \o t)[Len(s) + i] = t[i]
OBVIOUS

\* The step in which the values of key k of object c are added behind the others.
AddsKey(n, c, k, items) ==
  /\ TakenOf(n)' = TakenOf(n) \cup {<<c, k, j>> : j \in 1 .. Len(items)}
  /\ \A o \in TakenOf(n) : o[1] \in Nat /\ o[1] <= c /\ (o[1] = c => o[2] # k)
  /\ header'[n] = header[n] \o items
  /\ \A o \in TakenOf(n) : ValueOf(o)' = ValueOf(o)
  /\ \A j \in 1 .. Len(items) : ValueOf(<<c, k, j>>)' = items[j]

\* Every occurrence has its place after that step.
LEMMA PlaceMore ==
  ASSUME NEW n, NEW at, Placed(n, at), header[n] \in Seq(Strings),
         NEW c \in Nat, NEW k, NEW items \in Seq(Strings), AddsKey(n, c, k, items)
  PROVE  \E more : Placed(n, more)'
<1>0. /\ TakenOf(n)' = TakenOf(n) \cup {<<c, k, j>> : j \in 1 .. Len(items)}
      /\ \A o \in TakenOf(n) : o[1] \in Nat /\ o[1] <= c /\ (o[1] = c => o[2] # k)
      /\ header'[n] = header[n] \o items
      /\ \A o \in TakenOf(n) : ValueOf(o)' = ValueOf(o)
      /\ \A j \in 1 .. Len(items) : ValueOf(<<c, k, j>>)' = items[j]
  BY DEF AddsKey
<1> DEFINE New == {<<c, k, j>> : j \in 1 .. Len(items)}
           L == Len(header[n])
<1>1. L \in Nat /\ Len(items) \in Nat
  OBVIOUS
<1>2. /\ Len(header'[n]) = L + Len(items)
      /\ \A p \in 1 .. L : header'[n][p] = header[n][p]
      /\ \A j \in 1 .. Len(items) : header'[n][L + j] = items[j]
  <2>1. header'[n] = header[n] \o items
    BY <1>0
  <2>2. PICK s \in Seq(Strings) : s = header[n]
    OBVIOUS
  <2>3. /\ Len(s \o items) = Len(s) + Len(items)
        /\ \A p \in 1 .. Len(s) : (s \o items)[p] = s[p]
        /\ \A j \in 1 .. Len(items) : (s \o items)[Len(s) + j] = items[j]
    BY Joined
  <2> QED
    BY <2>1, <2>2, <2>3, Zenon
<1>3. ASSUME NEW o \in New
      PROVE  /\ o[1] = c /\ o[2] = k /\ o[3] \in 1 .. Len(items) /\ o = <<c, k, o[3]>>
             /\ o \notin TakenOf(n)
  <2>1. PICK j \in 1 .. Len(items) : o = <<c, k, j>>
    BY <1>3
  <2>2. o[1] = c /\ o[2] = k /\ o[3] = j
    BY <2>1
  <2> QED
    BY <1>0, <2>1, <2>2
<1>4. TakenOf(n)' = TakenOf(n) \cup New
  BY <1>0
<1>5. \A j \in 1 .. Len(items) : <<c, k, j>> \in New /\ <<c, k, j>>[3] = j
  OBVIOUS
<1>6. /\ \A o \in TakenOf(n) : at[o] \in 1 .. L /\ header[n][at[o]] = ValueOf(o)
      /\ \A p \in 1 .. L : \E o \in TakenOf(n) : at[o] = p
      /\ \A o1, o2 \in TakenOf(n) :
           (o1 # o2 => at[o1] # at[o2]) /\ (Precedes(o1, o2) => at[o1] < at[o2])
  BY DEF Placed
<1>7. PICK more : more = [o \in TakenOf(n)' |-> IF o \in TakenOf(n) THEN at[o] ELSE L + o[3]]
  OBVIOUS
<1> HIDE DEF New, L
<1>8. ASSUME NEW o \in TakenOf(n) PROVE more[o] = at[o] /\ at[o] \in 1 .. L /\ more[o] \in 1 .. L
  BY <1>4, <1>6, <1>7, <1>8
<1>9. ASSUME NEW o \in New PROVE more[o] = L + o[3]
  BY <1>3, <1>4, <1>7, <1>9
<1>10. ASSUME NEW o \in New PROVE more[o] \in L + 1 .. L + Len(items)
  <2>1. more[o] = L + o[3] /\ o[3] \in 1 .. Len(items)
    BY <1>3, <1>9, <1>10
  <2> QED
    BY <1>1, <2>1
<1>11. \A o \in TakenOf(n)' : more[o] \in 1 .. L + Len(items)
  <2> TAKE o \in TakenOf(n)'
  <2>1. o \in TakenOf(n) \/ o \in New
    BY <1>4
  <2>2. more[o] \in 1 .. L \/ more[o] \in L + 1 .. L + Len(items)
    BY <2>1, <1>8, <1>10
  <2> QED
    BY <1>1, <2>2
<1>12. more \in [TakenOf(n)' -> 1 .. Len(header'[n])]
  BY <1>2, <1>7, <1>11
<1>13. ASSUME NEW p \in 1 .. L + Len(items) PROVE \E o \in TakenOf(n)' : more[o] = p
  <2>1. CASE p <= L
    <3>1. PICK o \in TakenOf(n) : at[o] = p
      BY <1>1, <1>6, <1>13, <2>1
    <3> QED
      BY <1>4, <1>8, <3>1
  <2>2. CASE p > L
    <3>1. p - L \in 1 .. Len(items) /\ L + (p - L) = p
      BY <1>1, <1>13, <2>2
    <3>2. <<c, k, p - L>> \in New /\ <<c, k, p - L>>[3] = p - L
      BY <3>1, <1>5
    <3> QED
      BY <1>4, <1>9, <3>1, <3>2
  <2> QED
    BY <1>1, <1>13, <2>1, <2>2
<1>14. ASSUME NEW o \in TakenOf(n)' PROVE header'[n][more[o]] = ValueOf(o)'
  <2>1. CASE o \in TakenOf(n)
    <3>1. more[o] = at[o] /\ at[o] \in 1 .. L /\ header[n][at[o]] = ValueOf(o)
      BY <1>6, <1>8, <2>1
    <3>2. header'[n][at[o]] = header[n][at[o]]
      BY <1>2, <3>1
    <3>3. ValueOf(o)' = ValueOf(o)
      BY <1>0, <2>1
    <3> QED
      BY <3>1, <3>2, <3>3
  <2>2. CASE o \in New
    <3>1. o[3] \in 1 .. Len(items) /\ o = <<c, k, o[3]>> /\ more[o] = L + o[3]
      BY <1>3, <1>9, <2>2
    <3>2. header'[n][L + o[3]] = items[o[3]] /\ ValueOf(<<c, k, o[3]>>)' = items[o[3]]
      BY <1>0, <1>2, <3>1
    <3> QED
      BY <3>1, <3>2
  <2> QED
    BY <1>4, <2>1, <2>2
<1>15. ASSUME NEW o1 \in TakenOf(n)', NEW o2 \in TakenOf(n)'
       PROVE  (o1 # o2 => more[o1] # more[o2]) /\ (Precedes(o1, o2) => more[o1] < more[o2])
  <2>1. CASE o1 \in TakenOf(n) /\ o2 \in TakenOf(n)
    BY <1>6, <1>8, <2>1
  <2>2. CASE o1 \in TakenOf(n) /\ o2 \in New
    <3>1. more[o1] \in 1 .. L /\ more[o2] \in L + 1 .. L + Len(items)
      BY <1>8, <1>10, <2>2
    <3> QED
      BY <1>1, <3>1
  <2>3. CASE o1 \in New /\ o2 \in TakenOf(n)
    <3>1. more[o1] \in L + 1 .. L + Len(items) /\ more[o2] \in 1 .. L
      BY <1>8, <1>10, <2>3
    <3>2. o1[1] = c /\ o1[2] = k /\ o2[1] \in Nat /\ o2[1] <= c /\ (o2[1] = c => o2[2] # k)
      BY <1>0, <1>3, <2>3
    <3>3. ~Precedes(o1, o2)
      BY <3>2 DEF Precedes
    <3> QED
      BY <1>1, <3>1, <3>3
  <2>4. CASE o1 \in New /\ o2 \in New
    <3>1. /\ o1[1] = c /\ o1[2] = k /\ o1 = <<c, k, o1[3]>>
          /\ o2[1] = c /\ o2[2] = k /\ o2 = <<c, k, o2[3]>>
          /\ o1[3] \in 1 .. Len(items) /\ o2[3] \in 1 .. Len(items)
          /\ more[o1] = L + o1[3] /\ more[o2] = L + o2[3]
      BY <1>3, <1>9, <2>4
    <3>2. o1 # o2 => o1[3] # o2[3]
      BY <3>1
    <3>3. Precedes(o1, o2) => o1[3] < o2[3]
      BY <3>1 DEF Precedes
    <3> QED
      BY <1>1, <3>1, <3>2, <3>3
  <2> QED
    BY <1>4, <2>1, <2>2, <2>3, <2>4
<1>16. Placed(n, more)'
  BY <1>2, <1>12, <1>13, <1>14, <1>15 DEF Placed, Precedes
<1> QED
  BY <1>16

\* Taking the values of a key.
LEMMA PlacedKey ==
  ASSUME WalkInv, GoodInv, HeaderInv, NEW k \in Keys, TakeKey(k), ~Fail
  PROVE  HeaderInv'
<1> PICK c : c = Finished + 1
  OBVIOUS
<1> PICK items : items = Items(Objects(doc)[c].fields[k])
  OBVIOUS
<1>1. /\ doc' = doc /\ todo # <<>>
      /\ k \in DOMAIN Objects(doc)[c].fields /\ k \notin TakenKeys(c)
      /\ Objects(doc)[c].type = "object" /\ ~IsBad(Objects(doc)[c].fields[k])
      /\ header' = Add(header, k, items)
      /\ \A i \in DOMAIN Objects(doc) :
           TakenKeys(i)' = IF i = c THEN TakenKeys(i) \cup {k} ELSE TakenKeys(i)
  BY TakenAfterKey
<1>2. /\ c \in Nat /\ c \in DOMAIN Objects(doc) /\ Finished \in Nat
      /\ \A i \in DOMAIN Objects(doc) : i \in Nat /\ (i > c => TakenKeys(i) = {})
  <2>1. c \in Nat /\ c \in DOMAIN Objects(doc) /\ Finished \in Nat /\ c = Finished + 1
    BY <1>1, Current
  <2>2. ASSUME NEW i \in DOMAIN Objects(doc) PROVE i \in Nat /\ (i > c => TakenKeys(i) = {})
    <3>1. i \in Nat
      BY <2>2, ObjectsAreASeq DEF WalkInv
    <3> QED
      BY <2>1, <3>1 DEF TakenKeys
  <2> QED
    BY <2>1, <2>2
<1>3. items \in Seq(Strings)
  BY <1>1, <1>2, GoodItems DEF WalkInv
<1>4. Canonical[k] \in Names
  BY DEF Names
<1>5. /\ header' \in [Names -> Seq(Strings)]
      /\ header'[Canonical[k]] = header[Canonical[k]] \o items
      /\ \A n \in Names : n # Canonical[k] => header'[n] = header[n]
  <2>1. header[Canonical[k]] \o items \in Seq(Strings)
    BY <1>3, <1>4 DEF HeaderInv
  <2>2. header' = [header EXCEPT ![Canonical[k]] = header[Canonical[k]] \o items]
    BY <1>1 DEF Add
  <2> QED
    BY <1>4, <2>1, <2>2 DEF HeaderInv
<1>6. ASSUME NEW n, NEW o
      PROVE  o \in TakenOf(n)' <=>
               \/ o \in TakenOf(n)
               \/ n = Canonical[k] /\ o \in {<<c, k, j>> : j \in DOMAIN items}
  <2>1. o \in TakenOf(n)' <=>
          \E i \in DOMAIN Objects(doc) : \E x \in TakenKeys(i)' :
            /\ Canonical[x] = n
            /\ \E j \in DOMAIN Items(Objects(doc)[i].fields[x]) : o = <<i, x, j>>
    BY <1>1 DEF TakenOf
  <2>2. o \in TakenOf(n) <=>
          \E i \in DOMAIN Objects(doc) : \E x \in TakenKeys(i) :
            /\ Canonical[x] = n
            /\ \E j \in DOMAIN Items(Objects(doc)[i].fields[x]) : o = <<i, x, j>>
    BY TakenMember
  <2>3. \A i \in DOMAIN Objects(doc) : \A x :
          x \in TakenKeys(i)' <=> x \in TakenKeys(i) \/ (i = c /\ x = k)
    BY <1>1
  <2>4. o \in {<<c, k, j>> : j \in DOMAIN items} <=>
          \E j \in DOMAIN Items(Objects(doc)[c].fields[k]) : o = <<c, k, j>>
    OBVIOUS
  <2> QED
    BY <1>2, <2>1, <2>2, <2>3, <2>4
<1>7. ASSUME NEW o PROVE ValueOf(o)' = ValueOf(o)
  BY <1>1 DEF ValueOf
<1>8. \A j \in DOMAIN items : ValueOf(<<c, k, j>>) = items[j]
  BY DEF ValueOf
<1>9. ASSUME NEW n \in Names, n # Canonical[k], NEW at, Placed(n, at) PROVE Placed(n, at)'
  <2>1. TakenOf(n)' = TakenOf(n) /\ header'[n] = header[n]
    BY <1>5, <1>6, <1>9
  <2> QED
    BY <1>7, <1>9, <2>1 DEF Placed
<1>10. ASSUME NEW n, n = Canonical[k], NEW at, Placed(n, at) PROVE \E more : Placed(n, more)'
  <2>1. TakenOf(n)' = TakenOf(n) \cup {<<c, k, j>> : j \in 1 .. Len(items)}
    BY <1>3, <1>6, <1>10
  <2>2. ASSUME NEW o \in TakenOf(n) PROVE o[1] \in Nat /\ o[1] <= c /\ (o[1] = c => o[2] # k)
    <3>1. PICK i \in DOMAIN Objects(doc) :
            \E x \in TakenKeys(i) : \E j \in DOMAIN Items(Objects(doc)[i].fields[x]) : o = <<i, x, j>>
      BY <2>2, TakenMember
    <3>2. PICK x \in TakenKeys(i) : o[1] = i /\ o[2] = x
      BY <3>1
    <3> QED
      BY <1>1, <1>2, <3>1, <3>2
  <2>3. header[n] \in Seq(Strings) /\ header'[n] = header[n] \o items
    BY <1>4, <1>5, <1>10 DEF HeaderInv
  <2>4. /\ \A j \in 1 .. Len(items) : ValueOf(<<c, k, j>>)' = items[j]
        /\ \A o \in TakenOf(n) : ValueOf(o)' = ValueOf(o)
    BY <1>3, <1>7, <1>8
  <2>5. AddsKey(n, c, k, items)
    BY <2>1, <2>2, <2>3, <2>4 DEF AddsKey
  <2> QED
    BY <1>2, <1>3, <1>10, <2>3, <2>5, PlaceMore
<1> QED
  BY <1>4, <1>5, <1>9, <1>10 DEF HeaderInv

\* Every step keeps the values of the names explained.
LEMMA HeaderStep ==
  ASSUME WalkInv, GoodInv, HeaderInv, [Next]_vars
  PROVE  HeaderInv'
<1>1. CASE Taken \/ Emitted \/ NotAnObject \/ Fail \/ UNCHANGED vars
  <2>1. doc' = doc /\ todo' = todo /\ seen' = seen /\ header' = header
    BY <1>1 DEF Taken, Emitted, NotAnObject, Fail, vars
  <2>2. \A i \in DOMAIN Objects(doc) : TakenKeys(i)' = TakenKeys(i)
    BY <2>1 DEF Finished, TakenKeys
  <2> QED
    BY <2>1, <2>2, PlacedFrame
<1>2. ASSUME NEW n \in Names, EmitName(n) PROVE HeaderInv'
  <2>1. doc' = doc /\ todo' = todo /\ seen' = seen /\ header' = header
    BY <1>2 DEF EmitName
  <2>2. \A i \in DOMAIN Objects(doc) : TakenKeys(i)' = TakenKeys(i)
    BY <2>1 DEF Finished, TakenKeys
  <2> QED
    BY <2>1, <2>2, PlacedFrame
<1>3. CASE NextObject
  BY <1>3, TakenAfterObject, PlacedFrame DEF NextObject
<1>4. ASSUME NEW k \in Keys, TakeKey(k), ~Fail PROVE HeaderInv'
  BY <1>4, PlacedKey
<1> QED
  BY <1>1, <1>2, <1>3, <1>4 DEF Next

-----------------------------------------------------------------------------
\* The options of a name that was emitted are its values, in one block, and no
\* other option has that name.
Block(n, off) ==
  /\ off + Len(header[n]) <= Len(options)
  /\ \A i \in 1 .. Len(header[n]) : options[off + i] = <<n, header[n][i]>>
  /\ \A p \in 1 .. Len(options) : options[p][1] = n => p - off \in 1 .. Len(header[n])

OptionInv ==
  /\ emitted \subseteq Names
  /\ options \in Seq(Names \X Strings)
  /\ \A n \in emitted : \E off \in Nat : Block(n, off)
  /\ \A n \in Names \ emitted : \A p \in 1 .. Len(options) : options[p][1] # n
  /\ pc = "done" => \A n \in Names \ emitted : header[n] = <<>>

\* Emitting one more name adds its block.
LEMMA EmitBlock ==
  ASSUME HeaderInv, OptionInv, NEW n \in Names, EmitName(n)
  PROVE  OptionInv'
<1> DEFINE pairs == [i \in DOMAIN header[n] |-> <<n, header[n][i]>>]
           R == Names \X Strings
<1> PICK L : L = Len(options)
  OBVIOUS
<1>1. /\ n \notin emitted /\ emitted' = emitted \cup {n} /\ header' = header /\ pc' = "emit"
      /\ options' = options \o pairs
  BY DEF EmitName
<1>2. header[n] \in Seq(Strings)
  BY DEF HeaderInv
<1>3. /\ pairs \in Seq(R) /\ Len(pairs) = Len(header[n])
      /\ \A i \in 1 .. Len(header[n]) : pairs[i] = <<n, header[n][i]>> /\ pairs[i][1] = n
  <2>1. \A i \in 1 .. Len(header[n]) : header[n][i] \in Strings
    BY <1>2
  <2> QED
    BY <1>2, <2>1
<1> HIDE DEF pairs, R
<1>4. options \in Seq(R) /\ L \in Nat /\ Len(header[n]) \in Nat
  BY <1>2 DEF OptionInv, R
<1>5. /\ options' \in Seq(R) /\ Len(options') = L + Len(header[n])
      /\ \A p \in 1 .. L : options'[p] = options[p]
      /\ \A i \in 1 .. Len(header[n]) : options'[L + i] = pairs[i]
  <2>1. options \in Seq(R) /\ pairs \in Seq(R)
    BY <1>3, <1>4
  <2>2. /\ options \o pairs \in Seq(R)
        /\ Len(options \o pairs) = Len(options) + Len(pairs)
        /\ \A p \in 1 .. Len(options) : (options \o pairs)[p] = options[p]
        /\ \A i \in 1 .. Len(pairs) : (options \o pairs)[Len(options) + i] = pairs[i]
    BY <2>1, Joined
  <2> QED
    BY <1>1, <1>3, <2>2
<1>6. ASSUME NEW p \in 1 .. Len(options')
      PROVE  \/ p \in 1 .. L /\ options'[p] = options[p]
             \/ p - L \in 1 .. Len(header[n]) /\ options'[p][1] = n
  <2>1. CASE p \in 1 .. L
    BY <1>5, <2>1
  <2>2. CASE p \notin 1 .. L
    <3>1. p - L \in 1 .. Len(header[n]) /\ L + (p - L) = p
      BY <1>4, <1>5, <1>6, <2>2
    <3>2. options'[L + (p - L)] = pairs[p - L] /\ pairs[p - L][1] = n
      BY <1>3, <1>5, <3>1
    <3> QED
      BY <3>1, <3>2
  <2> QED
    BY <2>1, <2>2
<1>7. Block(n, L)'
  <2>1. \A p \in 1 .. L : options[p][1] # n
    BY <1>1 DEF OptionInv
  <2>2. L + Len(header[n]) <= Len(options')
    BY <1>4, <1>5
  <2>3. \A i \in 1 .. Len(header[n]) : options'[L + i] = <<n, header[n][i]>>
    BY <1>3, <1>5
  <2>4. \A p \in 1 .. Len(options') : options'[p][1] = n => p - L \in 1 .. Len(header[n])
    BY <1>6, <2>1
  <2> QED
    BY <1>1, <2>2, <2>3, <2>4 DEF Block
<1>8. ASSUME NEW m \in emitted, NEW off \in Nat, Block(m, off) PROVE Block(m, off)'
  <2>1. m # n /\ header[m] = header'[m]
    BY <1>1, <1>8
  <2>2. Len(header[m]) \in Nat
    BY <1>8 DEF HeaderInv, OptionInv
  <2>3. off + Len(header[m]) <= Len(options')
    BY <1>4, <1>5, <1>8, <2>2 DEF Block
  <2>4. ASSUME NEW i \in 1 .. Len(header[m]) PROVE options'[off + i] = <<m, header[m][i]>>
    <3>1. off + i \in 1 .. L /\ options[off + i] = <<m, header[m][i]>>
      BY <1>4, <1>8, <2>2, <2>4 DEF Block
    <3> QED
      BY <1>5, <3>1
  <2>5. \A p \in 1 .. Len(options') : options'[p][1] = m => p - off \in 1 .. Len(header[m])
    BY <1>6, <1>8, <2>1 DEF Block
  <2> QED
    BY <2>1, <2>3, <2>4, <2>5 DEF Block
<1>9. \A m \in Names \ emitted' : \A p \in 1 .. Len(options') : options'[p][1] # m
  BY <1>1, <1>6 DEF OptionInv
<1> QED
  BY <1>1, <1>4, <1>5, <1>7, <1>8, <1>9 DEF OptionInv, R

\* Every step keeps the options explained.
LEMMA OptionStep ==
  ASSUME WalkInv, GoodInv, HeaderInv, OptionInv, [Next]_vars
  PROVE  OptionInv'
<1>1. CASE Taken \/ NotAnObject \/ Fail \/ NextObject \/ UNCHANGED vars
  <2>1. header' = header /\ options' = options /\ emitted' = emitted /\ (pc' = "done" => pc = "done")
    BY <1>1 DEF Taken, NotAnObject, Fail, NextObject, vars
  <2> QED
    BY <2>1 DEF OptionInv, Block
<1>2. CASE Emitted
  <2>1. /\ header' = header /\ options' = options /\ emitted' = emitted
        /\ \A n \in Names \ emitted : header[n] = <<>>
    BY <1>2 DEF Emitted
  <2> QED
    BY <2>1 DEF OptionInv, Block
<1>3. ASSUME NEW n \in Names, EmitName(n) PROVE OptionInv'
  BY <1>3, EmitBlock
<1>4. ASSUME NEW k \in Keys, TakeKey(k), ~Fail PROVE OptionInv'
  <2>1. pc = "take" /\ pc' = "take" /\ emitted' = emitted /\ options' = options
    BY <1>4, TakenAfterKey DEF TakeKey
  <2>2. emitted = {} /\ options = <<>>
    BY <2>1 DEF GoodInv
  <2> QED
    BY <2>1, <2>2 DEF OptionInv
<1> QED
  BY <1>1, <1>2, <1>3, <1>4 DEF Next

\* The conversion is explained in every reachable state.
LEMMA ConversionAlways == Spec => [](WalkInv /\ GoodInv /\ HeaderInv /\ OptionInv)
<1>1. Init /\ WalkInv => HeaderInv /\ OptionInv
  <2> SUFFICES ASSUME Init, WalkInv PROVE HeaderInv /\ OptionInv
    OBVIOUS
  <2>1. /\ doc \in Documents /\ pc = "take" /\ todo = Objects(doc) /\ seen = {} /\ emitted = {}
        /\ options = <<>> /\ header = [n \in Names |-> <<>>]
    BY DEF Init
  <2>2. Len(Objects(doc)) \in Nat /\ DOMAIN Objects(doc) = 1 .. Len(Objects(doc))
    BY <2>1, ObjectsAreASeq
  <2>3. Finished = 0
    BY <2>1, <2>2 DEF Finished
  <2>4. \A i \in DOMAIN Objects(doc) : TakenKeys(i) = {}
    BY <2>1, <2>2, <2>3 DEF TakenKeys
  <2>5. \A n : TakenOf(n) = {}
    BY <2>4, TakenMember
  <2>6. ASSUME NEW n \in Names PROVE Placed(n, <<>>)
    <3>1. header[n] = <<>> /\ Len(header[n]) = 0 /\ TakenOf(n) = {}
      BY <2>1, <2>5
    <3>2. <<>> \in [{} -> 1 .. 0]
      OBVIOUS
    <3> QED
      BY <3>1, <3>2 DEF Placed
  <2>7. HeaderInv
    BY <2>1, <2>6 DEF HeaderInv
  <2> QED
    BY <2>1, <2>7 DEF OptionInv
<1>2. WalkInv /\ GoodInv /\ HeaderInv /\ OptionInv /\ [Next]_vars => HeaderInv' /\ OptionInv'
  BY HeaderStep, OptionStep
<1> QED
  BY <1>1, <1>2, WalkAlways, PTL DEF Spec

\* At the end all occurrences of a name are taken and its options are one block.
LEMMA Outcome ==
  ASSUME WalkInv, HeaderInv, OptionInv, pc = "done", NEW n \in Names
  PROVE  /\ TakenOf(n) = {o \in Occurrences : Canonical[o[2]] = n}
         /\ header[n] \in Seq(Strings) /\ options \in Seq(Names \X Strings)
         /\ \E off \in Nat : Block(n, off)
         /\ \E at : Placed(n, at)
<1>1. todo = <<>> /\ DOMAIN Objects(doc) = 1 .. Len(Objects(doc)) /\ Len(Objects(doc)) \in Nat
  BY ObjectsAreASeq DEF WalkInv
<1>2. Finished = Len(Objects(doc))
  BY <1>1 DEF Finished
<1>3. \A i \in DOMAIN Objects(doc) : TakenKeys(i) = DOMAIN Objects(doc)[i].fields
  BY <1>1, <1>2 DEF TakenKeys
<1>4. ASSUME NEW o PROVE o \in TakenOf(n) <=> o \in Occurrences /\ Canonical[o[2]] = n
  <2>1. o \in Occurrences <=>
          \E i \in DOMAIN Objects(doc) : \E k \in DOMAIN Objects(doc)[i].fields :
            \E j \in DOMAIN Items(Objects(doc)[i].fields[k]) : o = <<i, k, j>>
    BY DEF Occurrences
  <2>2. o \in TakenOf(n) <=>
          \E i \in DOMAIN Objects(doc) : \E k \in DOMAIN Objects(doc)[i].fields :
            Canonical[k] = n /\ \E j \in DOMAIN Items(Objects(doc)[i].fields[k]) : o = <<i, k, j>>
    BY <1>3, TakenMember
  <2>3. \A i, k, j : o = <<i, k, j>> => o[2] = k
    OBVIOUS
  <2> QED
    BY <2>1, <2>2, <2>3
<1>5. \E off \in Nat : Block(n, off)
  <2>1. CASE n \in emitted
    BY <2>1 DEF OptionInv
  <2>2. CASE n \notin emitted
    <3>1. header[n] = <<>> /\ \A p \in 1 .. Len(options) : options[p][1] # n
      BY <2>2 DEF OptionInv
    <3>2. Len(header[n]) = 0 /\ Len(options) \in Nat
      BY <3>1 DEF OptionInv
    <3>3. Block(n, 0)
      BY <3>1, <3>2 DEF Block
    <3> QED
      BY <3>3
  <2> QED
    BY <2>1, <2>2
<1> QED
  BY <1>4, <1>5 DEF HeaderInv, OptionInv

\* No header is lost, invented or duplicated, whatever the map order: places and
\* occurrences with one name and one value are as many.
THEOREM HeadersSurvive == Spec => []HeadersArePreserved
<1>1. WalkInv /\ HeaderInv /\ OptionInv => HeadersArePreserved
  <2> SUFFICES ASSUME WalkInv, HeaderInv, OptionInv, pc = "done", NEW n \in Names, NEW v \in Strings
               PROVE  Cardinality({p \in DOMAIN options : options[p] = <<n, v>>})
                        = Cardinality({o \in Occurrences : Canonical[o[2]] = n /\ ValueOf(o) = v})
    BY DEF HeadersArePreserved
  <2> DEFINE A == {p \in DOMAIN options : options[p] = <<n, v>>}
             B == {o \in Occurrences : Canonical[o[2]] = n /\ ValueOf(o) = v}
  <2>1. /\ TakenOf(n) = {o \in Occurrences : Canonical[o[2]] = n}
        /\ header[n] \in Seq(Strings) /\ options \in Seq(Names \X Strings)
    BY Outcome
  <2>2. PICK off \in Nat : Block(n, off)
    BY Outcome
  <2>3. PICK at : Placed(n, at)
    BY Outcome
  <2>4. /\ Len(options) \in Nat /\ DOMAIN options = 1 .. Len(options) /\ Len(header[n]) \in Nat
    BY <2>1
  <2>5. B = {o \in TakenOf(n) : ValueOf(o) = v}
    BY <2>1
  <2>6. /\ off + Len(header[n]) <= Len(options)
        /\ \A i \in 1 .. Len(header[n]) : options[off + i] = <<n, header[n][i]>>
        /\ \A p \in 1 .. Len(options) : options[p][1] = n => p - off \in 1 .. Len(header[n])
    BY <2>2 DEF Block
  <2>7. /\ \A o \in TakenOf(n) : at[o] \in 1 .. Len(header[n]) /\ header[n][at[o]] = ValueOf(o)
        /\ \A p \in 1 .. Len(header[n]) : \E o \in TakenOf(n) : at[o] = p
        /\ \A o1, o2 \in TakenOf(n) : o1 # o2 => at[o1] # at[o2]
    BY <2>3 DEF Placed
  <2> DEFINE f == [o \in B |-> off + at[o]]
  <2>8. ASSUME NEW o \in B PROVE off + at[o] \in A /\ at[o] \in Nat /\ o \in TakenOf(n)
    <3>1. o \in TakenOf(n) /\ ValueOf(o) = v
      BY <2>5, <2>8
    <3>2. at[o] \in 1 .. Len(header[n]) /\ header[n][at[o]] = v
      BY <2>7, <3>1
    <3>3. options[off + at[o]] = <<n, v>>
      BY <2>6, <3>2
    <3>4. off + Len(header[n]) <= Len(options)
      BY <2>6
    <3>5. off + at[o] \in 1 .. Len(options)
      BY <2>4, <3>2, <3>4
    <3> QED
      BY <2>4, <3>1, <3>2, <3>3, <3>5
  <2>9. ASSUME NEW p \in A PROVE \E o \in B : off + at[o] = p
    <3>1. p \in 1 .. Len(options) /\ options[p] = <<n, v>> /\ options[p][1] = n
      BY <2>4, <2>9
    <3>2. p - off \in 1 .. Len(header[n]) /\ off + (p - off) = p
      BY <2>6, <3>1
    <3>3. PICK o \in TakenOf(n) : at[o] = p - off
      BY <2>7, <3>2
    <3>4. options[p] = <<n, header[n][p - off]>>
      BY <2>6, <3>2
    <3>5. ValueOf(o) = v
      BY <2>7, <3>1, <3>3, <3>4
    <3> QED
      BY <2>5, <3>2, <3>3, <3>5
  <2> HIDE DEF A, B
  <2>10. f \in [B -> A]
    BY <2>8
  <2>11. \A o1, o2 \in B : f[o1] = f[o2] => o1 = o2
    BY <2>7, <2>8
  <2>12. \A p \in A : \E o \in B : f[o] = p
    BY <2>9
  <2>13. f \in Bijection(B, A)
    BY <2>10, <2>11, <2>12, Fun_IsBij
  <2>14. ExistsBijection(A, B)
    BY <2>13, Fun_ExistsBij, Fun_ExistsBijSymmetric
  <2>15. IsFiniteSet(A)
    <3>1. IsFiniteSet(1 .. Len(options))
      BY <2>4, FS_Interval
    <3>2. A \in SUBSET (1 .. Len(options))
      BY <2>4 DEF A
    <3> QED
      BY <3>1, <3>2, FS_Subset
  <2>16. Cardinality(B) = Cardinality(A)
    BY <2>14, <2>15, FS_Bijection
  <2> QED
    BY <2>16 DEF A, B
<1> QED
  BY <1>1, ConversionAlways, PTL

\* The order of a document survives the two maps.
THEOREM OrderSurvives == Spec => []OrderIsKept
<1>1. WalkInv /\ HeaderInv /\ OptionInv => OrderIsKept
  <2> SUFFICES ASSUME WalkInv, HeaderInv, OptionInv, pc = "done", NEW n \in Names
               PROVE  \E put \in [{o \in Occurrences : Canonical[o[2]] = n} ->
                                   {p \in DOMAIN options : options[p][1] = n}] :
                        \A o1, o2 \in {o \in Occurrences : Canonical[o[2]] = n} :
                          /\ o1 # o2 => put[o1] # put[o2]
                          /\ options[put[o1]][2] = ValueOf(o1)
                          /\ Precedes(o1, o2) => put[o1] < put[o2]
    BY DEF OrderIsKept
  <2> DEFINE places == {p \in DOMAIN options : options[p][1] = n}
  <2>1. /\ TakenOf(n) = {o \in Occurrences : Canonical[o[2]] = n}
        /\ header[n] \in Seq(Strings) /\ options \in Seq(Names \X Strings)
    BY Outcome
  <2>2. PICK off \in Nat : Block(n, off)
    BY Outcome
  <2>3. PICK at : Placed(n, at)
    BY Outcome
  <2>4. /\ Len(options) \in Nat /\ DOMAIN options = 1 .. Len(options) /\ Len(header[n]) \in Nat
    BY <2>1
  <2> DEFINE put == [o \in TakenOf(n) |-> off + at[o]]
  <2>5. ASSUME NEW o \in TakenOf(n)
        PROVE  /\ off + at[o] \in places /\ at[o] \in Nat
               /\ options[off + at[o]][2] = ValueOf(o)
    <3>1. at[o] \in 1 .. Len(header[n]) /\ header[n][at[o]] = ValueOf(o)
      BY <2>3, <2>5 DEF Placed
    <3>2. options[off + at[o]] = <<n, ValueOf(o)>>
      BY <2>2, <3>1 DEF Block
    <3>3. off + Len(header[n]) <= Len(options)
      BY <2>2 DEF Block
    <3>4. off + at[o] \in 1 .. Len(options)
      BY <2>4, <3>1, <3>3
    <3> QED
      BY <2>4, <3>1, <3>2, <3>4
  <2>6. \A o1, o2 \in TakenOf(n) :
          (o1 # o2 => at[o1] # at[o2]) /\ (Precedes(o1, o2) => at[o1] < at[o2])
    BY <2>3 DEF Placed
  <2> HIDE DEF places
  <2>7. put \in [TakenOf(n) -> places]
    BY <2>5
  <2>8. \A o1, o2 \in TakenOf(n) :
          /\ o1 # o2 => put[o1] # put[o2]
          /\ options[put[o1]][2] = ValueOf(o1)
          /\ Precedes(o1, o2) => put[o1] < put[o2]
    BY <2>5, <2>6
  <2> HIDE DEF put
  <2> QED
    BY <2>1, <2>7, <2>8 DEF places
<1> QED
  BY <1>1, ConversionAlways, PTL

\* The composition with the answers adds nothing to the conversion, so that the
\* three theorems above hold of it too.
LEMMA Composed == MCSpec => Spec
<1>1. MCInit => Init
  BY DEF MCInit
<1>2. [MCNext]_<<vars, answer>> => [Next]_vars
  BY DEF MCNext, Respond
<1> QED
  BY <1>1, <1>2, PTL DEF MCSpec, Spec
=============================================================================
