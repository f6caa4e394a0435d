---------------------------- MODULE PluginConfig ----------------------------
(***************************************************************************)
(* The configuration of the plugin: Validate and Config of                 *)
(* internal/internal.go, the factory of plugin/plugin.go, the two names    *)
(* under which cmd/opa-envoy-plugin/main.go registers it, and what OPA's   *)
(* discovery does with a configuration, the first and every later one:     *)
(* give it to the manager, validate all of it, create the plugins it does  *)
(* not have, start those, and call Reconfigure on the others.              *)
(***************************************************************************)
EXTENDS Integers, Sequences, FiniteSets

CONSTANTS
  Atoi,       \* the path segments that are numbers, as a function to Int
  Updates     \* configurations OPA may receive: functions from names to documents

Names == {"envoy.ext_authz.grpc", "envoy_ext_authz_grpc"}

(***************************************************************************)
(* Documents: malformed, or the keys that matter here.  A path is the      *)
(* sequence of its segments and a query opaque; NoPath and NoQuery are the *)
(* empty strings.  An address is a scheme, "grpc" if none is given, and    *)
(* what follows it; Validate does not look at it.                          *)
(***************************************************************************)
NoPath  == <<>>
NoQuery == ""
defaultPath == <<"envoy", "authz", "allow">>
Invalid == [type |-> "invalid"]

\* A number keeps its value only, so 7 and 007 are one key.
Term(x) ==
  IF x \in DOMAIN Atoi THEN [type |-> "number", number |-> Atoi[x]]
  ELSE [type |-> "string", string |-> x]

stringPathToDataRef(path) ==
  LET kept == SelectSeq(path, LAMBDA x : x # "")
  IN  [type |-> "ref", ref |-> [i \in DOMAIN kept |-> Term(kept[i])]]

ParseBody(query) == IF query = "bad" THEN Invalid ELSE [type |-> "query", query |-> query]

\* Whether the descriptor file can be read, unmarshalled and linked.
ReadProtoSet(file) == file # "unreadable"

\* The query that is evaluated, from the fields Query and Path.
ParsedQuery(query, path) ==
  IF query # NoQuery THEN ParseBody(query) ELSE stringPathToDataRef(path)

\* The default is used but not recorded.
M_Validate_DefaultNotRecorded(d) ==
  IF ~d.wellFormed \/ (d.path # NoPath /\ d.query # NoQuery) THEN Invalid
  ELSE LET q == ParsedQuery(d.query, IF d.path = NoPath THEN defaultPath ELSE d.path) IN
       IF q = Invalid \/ (d.descriptor # "" /\ ~ReadProtoSet(d.descriptor)) THEN Invalid
       ELSE [type |-> "config", query |-> d.query, path |-> d.path, parsedQuery |-> q,
             addr |-> d.addr, metrics |-> d.metrics, protoSet |-> d.descriptor # ""]

Validate(d) ==
  IF ~d.wellFormed \/ (d.path # NoPath /\ d.query # NoQuery) THEN Invalid
  ELSE LET path == IF d.query = NoQuery /\ d.path = NoPath THEN defaultPath ELSE d.path
           q    == ParsedQuery(d.query, path)
       IN  IF q = Invalid \/ (d.descriptor # "" /\ ~ReadProtoSet(d.descriptor)) THEN Invalid
           ELSE [type |-> "config", query |-> d.query, path |-> path, parsedQuery |-> q,
                 addr |-> d.addr, metrics |-> d.metrics, protoSet |-> d.descriptor # ""]

-----------------------------------------------------------------------------
(***************************************************************************)
(* OPA's side: getPluginSet, getCustomPlugins and reconfigure of           *)
(* plugins/discovery/discovery.go.  config.Plugins is a Go map, so names   *)
(* are visited in any order.                                               *)
(***************************************************************************)
VARIABLES
  phase,      \* "idle", "validate", "create", "start"
  config,     \* m.Config, the configuration received last, refused or not
  valid,      \* the configs validated so far: names -> config
  plugin,     \* the registered plugins: names -> config (p.cfg)
  toStart,    \* plugins created and not yet started
  listening,  \* what each started plugin listens on: names -> address, or one of
              \* Starting and Failed
  metrics,    \* the collectors are in the Prometheus registry
  panicked    \* the process ended in New or in listen()

vars == <<phase, config, valid, plugin, toStart, listening, metrics, panicked>>

NoFun == [n \in {} |-> Invalid]
Starting == <<"starting">>
Failed == <<"failed">>

\* f with f[n] = v.
Put(f, n, v) == [m \in DOMAIN f \cup {n} |-> IF m = n THEN v ELSE f[m]]

Init ==
  /\ phase = "idle" /\ config = NoFun /\ valid = NoFun
  /\ plugin = NoFun /\ toStart = {} /\ listening = NoFun
  /\ metrics = FALSE /\ panicked = "no"

\* manager.Reconfigure comes before getPluginSet, which validates.
Receive(u) ==
  /\ phase = "idle"
  /\ phase' = "validate" /\ config' = u /\ valid' = NoFun
  /\ UNCHANGED <<plugin, toStart, listening, metrics, panicked>>

ValidateOne(n) ==
  /\ phase = "validate"
  /\ n \in DOMAIN config \ DOMAIN valid
  /\ LET cfg == Validate(config[n]) IN
     \/ /\ cfg = Invalid             \* the whole update is refused
        /\ phase' = "idle"
        /\ UNCHANGED valid
     \/ /\ cfg # Invalid
        /\ valid' = Put(valid, n, cfg)
        /\ UNCHANGED phase
  /\ UNCHANGED <<config, plugin, toStart, listening, metrics, panicked>>

\* Plugins are created while other documents are still unchecked.
M_Validated_Eager ==
  /\ phase = "validate" /\ DOMAIN valid # {}
  /\ phase' = "create"
  /\ UNCHANGED <<config, valid, plugin, toStart, listening, metrics, panicked>>

\* The configurations of bundles, decision logs and status come last: one that
\* is invalid has the update refused too.
Validated ==
  /\ phase = "validate" /\ DOMAIN valid = DOMAIN config
  /\ phase' \in {"create", "idle"}
  /\ UNCHANGED <<config, valid, plugin, toStart, listening, metrics, panicked>>

\* A plugin that is there already is created again.
M_New_Again(n) ==
  /\ phase = "create"
  /\ n \in DOMAIN valid \ toStart
  /\ \/ /\ valid[n].metrics /\ metrics
        /\ panicked' = "new"
        /\ UNCHANGED <<plugin, toStart, metrics>>
     \/ /\ ~(valid[n].metrics /\ metrics)
        /\ plugin' = Put(plugin, n, valid[n])
        /\ toStart' = toStart \cup {n}
        /\ metrics' = (metrics \/ valid[n].metrics)
        /\ UNCHANGED panicked
  /\ UNCHANGED <<phase, config, valid, listening>>

\* New registers the collectors, whose names are those of any other instance:
\* MustRegister panics the second time.
New(n) ==
  /\ phase = "create"
  /\ n \in DOMAIN valid \ DOMAIN plugin
  /\ \/ /\ valid[n].metrics /\ metrics
        /\ panicked' = "new"
        /\ UNCHANGED <<plugin, toStart, metrics>>
     \/ /\ ~(valid[n].metrics /\ metrics)
        /\ plugin' = Put(plugin, n, valid[n])
        /\ toStart' = toStart \cup {n}
        /\ metrics' = (metrics \/ valid[n].metrics)
        /\ UNCHANGED panicked
  /\ UNCHANGED <<phase, config, valid, listening>>

Created ==
  /\ phase = "create" /\ DOMAIN valid \subseteq DOMAIN plugin
  /\ phase' = "start"
  /\ UNCHANGED <<config, valid, plugin, toStart, listening, metrics, panicked>>

\* Reconfigure(ctx, config) { return }: the config the plugin has afterwards.
Reconfigure(n) == plugin[n]

\* Start of the new plugins, then Reconfigure of the others.
Activate ==
  /\ phase = "start"
  /\ phase' = "idle"
  /\ toStart' = {}
  /\ listening' = [n \in DOMAIN listening \cup toStart |->
                     IF n \in toStart THEN Starting ELSE listening[n]]
  /\ plugin' = [n \in DOMAIN plugin |->
                  IF n \in DOMAIN valid \ toStart THEN Reconfigure(n) ELSE plugin[n]]
  /\ UNCHANGED <<config, valid, metrics, panicked>>

\* The goroutine of Start.  Without a listener, because net.Listen fails or the
\* scheme is unknown, the plugin serves on nil (see PluginLifecycle).  A TCP
\* address can be had once; the file of a Unix socket is removed and made again.
Listen(n) ==
  /\ n \in DOMAIN listening /\ listening[n] = Starting
  /\ LET addr == plugin[n].addr IN
     \/ /\ addr[1] = "unparsable"
        /\ listening' = [listening EXCEPT ![n] = Failed]
        /\ UNCHANGED panicked
     \/ /\ addr[1] = "unix" \/ (addr[1] = "grpc" /\ \A m \in DOMAIN listening : listening[m] # addr)
        /\ listening' = [listening EXCEPT ![n] = addr]
        /\ UNCHANGED panicked
     \/ /\ addr[1] # "unparsable"
        /\ panicked' = "listen"
        /\ UNCHANGED listening
  /\ UNCHANGED <<phase, config, valid, plugin, toStart, metrics>>

Next ==
  /\ panicked = "no"
  /\ \/ \E u \in Updates : Receive(u)
     \/ \E n \in Names : ValidateOne(n) \/ New(n) \/ Listen(n)
     \/ Validated \/ Created \/ Activate

Spec == Init /\ [][Next]_vars

-----------------------------------------------------------------------------
(***************************************************************************)
(* Properties.                                                             *)
(***************************************************************************)
\* What log() puts into the fields Query and Path of a decision log entry.
Logged(cfg) == <<cfg.query, cfg.path>>

\* Listener, log and decisions of a running plugin follow one configuration,
\* whatever updates arrive: it listens on the address of the config by which it
\* decides, and of the fields Query and Path of its log entries exactly one is
\* set and stands for the query it evaluates.
FollowsItsConfig ==
  /\ \A n \in DOMAIN listening : listening[n] \in {Starting, Failed, plugin[n].addr}
  /\ \A n \in DOMAIN plugin :
       LET l == Logged(plugin[n]) IN
       /\ (l[1] = NoQuery) # (l[2] = NoPath)
       /\ ParsedQuery(l[1], l[2]) = plugin[n].parsedQuery

\* A configuration with an invalid document, whichever is looked at first, has no
\* plugin created, started or changed.  (The manager's own configuration it does
\* change: evaluation reads nd_builtin_cache there.)
AllOrNothing ==
  [][(\E n \in DOMAIN config : Validate(config[n]) = Invalid) =>
       UNCHANGED <<plugin, toStart, metrics, DOMAIN listening>>]_vars

\* New ends the process only for a second instance, created under the other name
\* while both want metrics: no sequence of updates of one name makes it panic.
OneNameRegistersOnce ==
  panicked = "new" =>
    \E m \in DOMAIN plugin, n \in DOMAIN valid \ DOMAIN plugin :
      plugin[m].metrics /\ valid[n].metrics

-----------------------------------------------------------------------------
(***************************************************************************)
(* A statement of the repository that the code does not meet.              *)
(***************************************************************************)
\* internal/internal.go, Validate: "returns a configuration value that can be
\* used to instantiate the plugin".
ValidConfigInstantiates == panicked # "new"
=============================================================================
