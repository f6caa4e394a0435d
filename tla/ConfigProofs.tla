---------------------------- MODULE ConfigProofs ----------------------------
(***************************************************************************)
(* Proofs about PluginConfig, for any updates OPA may receive and any      *)
(* number of them: a running plugin follows one configuration              *)
(* (FollowsItsConfig), one with an invalid document touches no plugin      *)
(* (AllOrNothing), and New panics only for a second instance               *)
(* (OneNameRegistersOnce).                                                 *)
(*                                                                         *)
(* The inductive invariant ties the five steps of discovery together: what *)
(* was validated is what Validate makes of the config at hand; plugins     *)
(* under way exist only after all of it was; a plugin keeps the config it  *)
(* was made from, and that is a config which Validate can return.          *)
(***************************************************************************)
EXTENDS PluginConfig, TLAPS

\* A config whose fields Query and Path say which query it has.
Sound(cfg) ==
  /\ cfg.query = NoQuery <=> cfg.path # NoPath
  /\ ParsedQuery(cfg.query, cfg.path) = cfg.parsedQuery

ValidInv ==
  /\ DOMAIN valid \subseteq Names \cap DOMAIN config
  /\ \A n \in DOMAIN valid : valid[n] = Validate(config[n]) /\ valid[n] # Invalid

PhaseInv ==
  /\ phase \in {"idle", "validate", "create", "start"}
  /\ phase \in {"create", "start"} => DOMAIN valid = DOMAIN config
  /\ phase \notin {"create", "start"} => toStart = {}

PluginInv ==
  /\ DOMAIN plugin \subseteq Names
  /\ \A n \in DOMAIN plugin : Sound(plugin[n])
  /\ toStart \subseteq DOMAIN plugin

ListenInv ==
  /\ DOMAIN listening \subseteq DOMAIN plugin \ toStart
  /\ \A n \in DOMAIN listening : listening[n] \in {Starting, Failed, plugin[n].addr}

PanicInv ==
  /\ metrics \in BOOLEAN
  /\ metrics => \E m \in DOMAIN plugin : plugin[m].metrics
  /\ OneNameRegistersOnce

Configured == ValidInv /\ PhaseInv /\ PluginInv /\ ListenInv /\ PanicInv

-----------------------------------------------------------------------------
\* What Validate (internal/internal.go 93-142) returns is sound: of Query and Path
\* exactly one is set, the default included, and parsedQuery is that one's.
LEMMA ValidateIsSound ==
  ASSUME NEW d, Validate(d) # Invalid
  PROVE  Sound(Validate(d))
<1> DEFINE path == IF d.query = NoQuery /\ d.path = NoPath THEN defaultPath ELSE d.path
<1> DEFINE proto == d.descriptor # ""
<1>1. ~(d.path # NoPath /\ d.query # NoQuery)
  BY DEF Validate
<1>2. Validate(d) =
        [type |-> "config", query |-> d.query, path |-> path,
         parsedQuery |-> ParsedQuery(d.query, path),
         addr |-> d.addr, metrics |-> d.metrics, protoSet |-> proto]
  BY <1>1 DEF Validate
<1>3. defaultPath # NoPath
  BY DEF defaultPath, NoPath
<1>4. d.query = NoQuery <=> path # NoPath
  BY <1>1, <1>3
<1> HIDE DEF path, proto
<1>5. /\ Validate(d).query = d.query /\ Validate(d).path = path /\ Validate(d).addr = d.addr
      /\ Validate(d).parsedQuery = ParsedQuery(d.query, path)
  BY <1>2
<1> QED
  BY <1>4, <1>5 DEF Sound

\* Every step of discovery and of a plugin's goroutine keeps the invariant.
LEMMA ConfiguredStep == Configured /\ [Next]_vars => Configured'
<1> SUFFICES ASSUME Configured, [Next]_vars PROVE Configured'
  OBVIOUS
<1> USE DEF Configured, PhaseInv
<1>1. ASSUME NEW u \in Updates, Receive(u), panicked = "no" PROVE Configured'
  BY <1>1
     DEF Receive, ValidInv, PluginInv, ListenInv, PanicInv, OneNameRegistersOnce, NoFun
<1>2. ASSUME NEW n \in Names, ValidateOne(n), panicked = "no" PROVE Configured'
  <2>1. UNCHANGED <<config, plugin, toStart, listening, metrics, panicked>> /\ PhaseInv'
    BY <1>2 DEF ValidateOne
  <2>2. ValidInv'
    BY <1>2 DEF ValidateOne, ValidInv, Put
  <2> QED
    BY <1>2, <2>1, <2>2 DEF PluginInv, ListenInv, PanicInv, OneNameRegistersOnce, Sound
<1>3. CASE Validated /\ panicked = "no"
  BY <1>3 DEF Validated, ValidInv, PluginInv, ListenInv, PanicInv, OneNameRegistersOnce, Sound
<1>4. ASSUME NEW n \in Names, New(n), panicked = "no" PROVE Configured'
  <2>1. UNCHANGED <<phase, config, valid, listening>> /\ phase = "create" /\ ValidInv'
    BY <1>4 DEF New, ValidInv
  <2>2. n \in DOMAIN valid /\ n \notin DOMAIN plugin /\ Sound(valid[n])
    BY <1>4, ValidateIsSound DEF New, ValidInv
  <2>3. CASE panicked' = "new"
    <3>1. valid[n].metrics /\ metrics /\ UNCHANGED <<plugin, toStart, metrics>>
      BY <1>4, <2>3 DEF New
    <3>2. OneNameRegistersOnce'
      BY <2>1, <2>2, <3>1 DEF PanicInv, OneNameRegistersOnce
    <3> QED
      BY <2>1, <3>1, <3>2 DEF PluginInv, ListenInv, PanicInv, Sound
  <2>4. CASE panicked' # "new"
    <3>1. /\ plugin' = Put(plugin, n, valid[n]) /\ toStart' = toStart \cup {n}
          /\ metrics' = (metrics \/ valid[n].metrics) /\ panicked' = "no"
      BY <1>4, <2>4 DEF New
    <3>2. /\ DOMAIN plugin' = DOMAIN plugin \cup {n} /\ plugin'[n] = valid[n]
          /\ \A m \in DOMAIN plugin : plugin'[m] = plugin[m]
      BY <2>2, <3>1 DEF Put
    <3>3. PluginInv'
      BY <2>2, <3>1, <3>2 DEF PluginInv, Sound
    <3>4. ListenInv'
      BY <2>1, <2>2, <3>1, <3>2 DEF ListenInv
    <3>5. PanicInv'
      BY <3>1, <3>2 DEF PanicInv, OneNameRegistersOnce
    <3> QED
      BY <2>1, <3>1, <3>3, <3>4, <3>5
  <2> QED
    BY <2>3, <2>4
<1>5. CASE Created /\ panicked = "no"
  BY <1>5 DEF Created, ValidInv, PluginInv, ListenInv, PanicInv, OneNameRegistersOnce, Sound
<1>6. CASE Activate /\ panicked = "no"
  <2>1. /\ DOMAIN plugin' = DOMAIN plugin
        /\ \A n \in DOMAIN plugin : plugin'[n] = plugin[n]
        /\ UNCHANGED <<config, valid, metrics, panicked>> /\ toStart' = {} /\ phase' = "idle"
    BY <1>6 DEF Activate, Reconfigure
  <2>2. /\ DOMAIN listening' = DOMAIN listening \cup toStart
        /\ \A n \in DOMAIN listening' : listening'[n] = IF n \in toStart THEN Starting ELSE listening[n]
    BY <1>6 DEF Activate
  <2>3. ValidInv' /\ PluginInv'
    BY <2>1 DEF ValidInv, PluginInv, Sound
  <2>4. ListenInv'
    BY <2>1, <2>2 DEF ListenInv, PluginInv
  <2>5. PanicInv'
    BY <2>1 DEF PanicInv, OneNameRegistersOnce
  <2> QED
    BY <2>1, <2>3, <2>4, <2>5
<1>7. ASSUME NEW n \in Names, Listen(n), panicked = "no" PROVE Configured'
  <2>1. UNCHANGED <<phase, config, valid, plugin, toStart, metrics>>
    BY <1>7 DEF Listen
  <2>2. ValidInv' /\ PluginInv'
    BY <2>1 DEF ValidInv, PluginInv, Sound
  <2>3. n \in DOMAIN listening /\ panicked' # "new"
    BY <1>7 DEF Listen
  <2>4. \/ UNCHANGED listening
        \/ \E a \in {Failed, plugin[n].addr} : listening' = [listening EXCEPT ![n] = a]
    BY <1>7 DEF Listen
  <2>5. ListenInv'
    BY <2>1, <2>3, <2>4 DEF ListenInv
  <2>6. PanicInv'
    BY <2>1, <2>3 DEF PanicInv, OneNameRegistersOnce
  <2> QED
    BY <2>1, <2>2, <2>5, <2>6
<1>8. CASE UNCHANGED vars
  BY <1>8 DEF vars, ValidInv, PluginInv, ListenInv, PanicInv, OneNameRegistersOnce, Sound
<1> QED
  BY <1>1, <1>2, <1>3, <1>4, <1>5, <1>6, <1>7, <1>8 DEF Next

\* The invariant holds in every reachable state.
LEMMA ConfiguredInvariant == Spec => []Configured
<1>1. Init => Configured
  BY DEF Init, Configured, ValidInv, PhaseInv, PluginInv, ListenInv, PanicInv, OneNameRegistersOnce, NoFun
<1> QED
  BY <1>1, ConfiguredStep, PTL DEF Spec

-----------------------------------------------------------------------------
\* Listener, log and decisions of a running plugin follow one configuration, the one
\* it was created from, through every later update (Reconfigure does nothing).
THEOREM PluginFollowsItsConfig == Spec => []FollowsItsConfig
<1>1. Configured => FollowsItsConfig
  BY DEF Configured, PluginInv, ListenInv, Sound, FollowsItsConfig, Logged
<1> QED
  BY <1>1, ConfiguredInvariant, PTL

\* A configuration with an invalid document has no plugin created, started or changed,
\* in any order of the names: getPluginSet (discovery.go 586) returns before it
\* creates any.
THEOREM RefusedTouchesNoPlugin == Spec => AllOrNothing
<1> DEFINE Refused == \E n \in DOMAIN config : Validate(config[n]) = Invalid
<1> DEFINE Kept == UNCHANGED <<plugin, toStart, metrics, DOMAIN listening>>
<1>1. ASSUME Configured, [Next]_vars, Refused PROVE Kept
  <2>1. phase \notin {"create", "start"}
    BY <1>1 DEF Configured, PhaseInv, ValidInv
  <2>2. ~Created /\ ~Activate /\ \A n \in Names : ~New(n)
    BY <2>1 DEF Created, Activate, New
  <2>3. ASSUME NEW u \in Updates, Receive(u) PROVE Kept
    BY <2>3 DEF Receive
  <2>4. ASSUME NEW n \in Names, ValidateOne(n) PROVE Kept
    BY <2>4 DEF ValidateOne
  <2>5. ASSUME NEW n \in Names, Listen(n) PROVE Kept
    BY <2>5 DEF Listen
  <2>6. CASE Validated
    BY <2>6 DEF Validated
  <2>7. CASE UNCHANGED vars
    BY <2>7 DEF vars
  <2> QED
    BY <1>1, <2>2, <2>3, <2>4, <2>5, <2>6, <2>7 DEF Next
<1>2. Configured /\ [Next]_vars => [Refused => Kept]_vars
  BY <1>1
<1> QED
  BY <1>2, ConfiguredInvariant, PTL DEF Spec, AllOrNothing

\* MustRegister (internal/internal.go 196-197) panics only when a second instance, under
\* the other name, wants metrics too, whatever the updates.
THEOREM OnlyASecondNewPanics == Spec => []OneNameRegistersOnce
<1>1. Configured => OneNameRegistersOnce
  BY DEF Configured, PanicInv
<1> QED
  BY <1>1, ConfiguredInvariant, PTL
=============================================================================
