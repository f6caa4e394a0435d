---------------------------- MODULE HeaderValues ----------------------------
(***************************************************************************)
(* From the headers a decision asks for to the list of header value        *)
(* options Envoy receives: GetResponseEnvoyHeaderValueOptions and          *)
(* GetResponseHTTPHeadersToAdd of envoyauth/response.go with               *)
(* transformToHTTPHeaderFormat and                                         *)
(* transformHTTPHeaderToEnvoyHeaderValueOption.                            *)
(*                                                                         *)
(* Both functions iterate over Go maps, in an order that changes from one  *)
(* iteration to the next: every choice of the next key is a step here.     *)
(***************************************************************************)
EXTENDS Integers, Sequences, FiniteSets

CONSTANTS
  Keys,       \* header names as policies spell them
  Canonical,  \* Keys -> names: textproto.CanonicalMIMEHeaderKey
  Strings,    \* header values
  NotString,  \* a value of another type
  Documents   \* what a policy may put under "headers"

Names == {Canonical[k] : k \in Keys}

ASSUME KeysAssumption == IsFiniteSet(Keys) /\ DOMAIN Canonical = Keys
ASSUME NotStringAssumption == NotString \notin Strings

(***************************************************************************)
(* A document is an object, a list of objects, or something else.  An      *)
(* object maps some of the Keys to a string, to a list ([]string and       *)
(* []interface{} are both sequences) or to something else.                 *)
(***************************************************************************)
Other == [type |-> "other"]

\* The values of one key in order, and whether the code accepts them.
Items(v) == IF v.type = "string" THEN <<v.value>> ELSE v.items

IsBad(v) ==
  \/ v.type = "other"
  \/ v.type = "list" /\ \E i \in DOMAIN v.items : v.items[i] = NotString

VARIABLES
  doc,      \* the document
  pc,       \* "take", "emit", "done", "error"
  todo,     \* the objects not yet taken, the current one first
  seen,     \* the keys of the current object that were taken
  header,   \* the http.Header: Names -> Seq(Strings)
  emitted,  \* the names already turned into options
  options   \* the result, a sequence of <<name, value>>

vars == <<doc, pc, todo, seen, header, emitted, options>>

\* transformToHTTPHeaderFormat: a single object is like a list of one.
Objects(d) ==
  CASE d.type = "list"   -> d.items
    [] d.type = "object" -> <<d>>
    [] OTHER             -> <<Other>>

\* The documents are of this form.
ASSUME DocumentsAssumption ==
  \A x \in Documents :
    /\ Objects(x) \in Seq({Objects(x)[i] : i \in DOMAIN Objects(x)})
    /\ \A i \in DOMAIN Objects(x) : Objects(x)[i].type = "object" =>
         \A k \in DOMAIN Objects(x)[i].fields :
           LET v == Objects(x)[i].fields[k] IN
           /\ k \in Keys
           /\ v.type \in {"string", "list", "other"}
           /\ v.type = "string" => v.value \in Strings
           /\ v.type = "list" => v.items \in Seq(Strings \cup {NotString})

Init ==
  /\ doc \in Documents
  /\ pc = "take"
  /\ todo = Objects(doc)
  /\ seen = {}
  /\ header = [n \in Names |-> <<>>]
  /\ emitted = {}
  /\ options = <<>>

-----------------------------------------------------------------------------
\* The function returns nil and an error; what was collected is dropped.
Fail ==
  /\ pc' = "error"
  /\ UNCHANGED <<doc, todo, seen, header, emitted, options>>

NotAnObject ==
  /\ pc = "take" /\ todo # <<>>
  /\ Head(todo).type # "object"
  /\ Fail

M_Add_Prepends(h, k, items) == [h EXCEPT ![Canonical[k]] = items \o @]

\* http.Header.Add for every item.
Add(h, k, items) == [h EXCEPT ![Canonical[k]] = @ \o items]

\* A bad value ends the loop, and the headers found so far are returned.
M_TakeKey_IgnoresError(k) ==
  /\ pc = "take" /\ todo # <<>>
  /\ Head(todo).type = "object"
  /\ k \in DOMAIN Head(todo).fields \ seen
  /\ LET v == Head(todo).fields[k] IN
     \/ /\ IsBad(v)
        /\ pc' = "emit"
        /\ UNCHANGED <<seen, header>>
     \/ /\ ~IsBad(v)
        /\ header' = Add(header, k, Items(v))
        /\ seen' = seen \cup {k}
        /\ UNCHANGED pc
  /\ UNCHANGED <<doc, todo, emitted, options>>

\* takeResponseHeaders, one iteration.
TakeKey(k) ==
  /\ pc = "take" /\ todo # <<>>
  /\ Head(todo).type = "object"
  /\ k \in DOMAIN Head(todo).fields \ seen
  /\ LET v == Head(todo).fields[k] IN
     \/ IsBad(v) /\ Fail
     \/ /\ ~IsBad(v)
        /\ header' = Add(header, k, Items(v))
        /\ seen' = seen \cup {k}
        /\ UNCHANGED <<doc, pc, todo, emitted, options>>

NextObject ==
  /\ pc = "take" /\ todo # <<>>
  /\ Head(todo).type = "object"
  /\ DOMAIN Head(todo).fields = seen
  /\ todo' = Tail(todo)
  /\ seen' = {}
  /\ UNCHANGED <<doc, pc, header, emitted, options>>

Taken ==
  /\ pc = "take" /\ todo = <<>>
  /\ pc' = "emit"
  /\ UNCHANGED <<doc, todo, seen, header, emitted, options>>

\* Options are built for the last value of a name only.
M_EmitName_Last(n) ==
  /\ pc = "emit"
  /\ n \in Names \ emitted /\ header[n] # <<>>
  /\ options' = Append(options, <<n, header[n][Len(header[n])]>>)
  /\ emitted' = emitted \cup {n}
  /\ UNCHANGED <<doc, pc, todo, seen, header>>

\* transformHTTPHeaderToEnvoyHeaderValueOption, one iteration.
EmitName(n) ==
  /\ pc = "emit"
  /\ n \in Names \ emitted /\ header[n] # <<>>
  /\ options' = options \o [i \in DOMAIN header[n] |-> <<n, header[n][i]>>]
  /\ emitted' = emitted \cup {n}
  /\ UNCHANGED <<doc, pc, todo, seen, header>>

Emitted ==
  /\ pc = "emit"
  /\ \A n \in Names \ emitted : header[n] = <<>>
  /\ pc' = "done"
  /\ UNCHANGED <<doc, todo, seen, header, emitted, options>>

Next ==
  \/ NotAnObject \/ NextObject \/ Taken \/ Emitted
  \/ \E k \in Keys : TakeKey(k)
  \/ \E n \in Names : EmitName(n)

Spec == Init /\ [][Next]_vars

-----------------------------------------------------------------------------
(***************************************************************************)
(* Properties.                                                             *)
(***************************************************************************)
\* Reference definition: the occurrences of headers in the document, each
\* with its object, key, position and value.
Occurrences ==
  UNION {UNION {{<<i, k, j>> : j \in DOMAIN Items(Objects(doc)[i].fields[k])} :
                k \in DOMAIN Objects(doc)[i].fields} : i \in DOMAIN Objects(doc)}

ValueOf(o) == Items(Objects(doc)[o[1]].fields[o[2]])[o[3]]

WellFormed ==
  \A i \in DOMAIN Objects(doc) :
    /\ Objects(doc)[i].type = "object"
    /\ \A k \in DOMAIN Objects(doc)[i].fields : ~IsBad(Objects(doc)[i].fields[k])

\* Whether a decision's headers are refused does not depend on the order in
\* which they are looked at, and a refused document yields no header at all.
ErrorIsDeterministic ==
  /\ pc = "done" => WellFormed
  /\ pc = "error" => ~WellFormed /\ options = <<>>

\* No header is lost, invented or duplicated: every value of every spelling of
\* a name comes out under that name as often as it went in.
HeadersArePreserved ==
  pc = "done" =>
    \A n \in Names, v \in Strings :
      Cardinality({p \in DOMAIN options : options[p] = <<n, v>>})
        = Cardinality({o \in Occurrences : Canonical[o[2]] = n /\ ValueOf(o) = v})

\* The order a document has: that of its objects, and of the values of a key.
Precedes(o1, o2) ==
  o1[1] < o2[1] \/ (o1[1] = o2[1] /\ o1[2] = o2[2] /\ o1[3] < o2[3])

\* The order the policy chose survives where the document has one: the values
\* of a key, and those of an earlier object of the list before a later one's.
\* For each name the options are the occurrences, each at a place of its own,
\* and of two that have an order the first comes first.
OrderIsKept ==
  pc = "done" =>
    \A n \in Names :
      LET os     == {o \in Occurrences : Canonical[o[2]] = n}
          places == {p \in DOMAIN options : options[p][1] = n}
      IN  \E at \in [os -> places] :
            \A o1, o2 \in os :
              /\ o1 # o2 => at[o1] # at[o2]
              /\ options[at[o1]][2] = ValueOf(o1)
              /\ Precedes(o1, o2) => at[o1] < at[o2]
=============================================================================
