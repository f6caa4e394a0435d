-------------------------- MODULE PluginLifecycle --------------------------
(***************************************************************************)
(* The life of the plugin inside OPA: New, Start, the goroutine running    *)
(* listen(), and Stop, which all report to the plugin status that OPA's    *)
(* health endpoint serves (internal/internal.go 144-203, 282-355).         *)
(*                                                                         *)
(* Of grpc.Server the module has what Serve and Stop do to the listener    *)
(* and to the connections: Serve registers the listener unless the server  *)
(* was stopped, Stop closes what is registered, waits for Serve and for    *)
(* connections being set up (serveWG), and only then does Serve return.    *)
(***************************************************************************)
CONSTANT Conns      \* the connections Envoy may open

VARIABLES
  status,     \* manager.pluginStatus[PluginName].State
  manager,    \* what the goroutine that calls New, Start and Stop has done
  lpc,        \* where listen() is; "hung" is for good
  listener,   \* l: "none", "open", "closed"
  quit,       \* server.quit has fired
  lisNil,     \* Stop has set server.lis to nil
  done,       \* server.done has fired
  conn,       \* each connection: "new", "accepted", "open", "closed"
  crashed,    \* a panic ended the process
  served      \* history: Serve has reached its accept loop

server == <<quit, lisNil, done, conn>>
vars == <<status, manager, lpc, listener, server, crashed, served>>

Init ==
  /\ status = "none" /\ manager = "init" /\ lpc = "off"
  /\ listener = "none" /\ served = FALSE
  /\ quit = FALSE /\ lisNil = FALSE /\ done = FALSE
  /\ conn = [c \in Conns |-> "new"]
  /\ crashed = FALSE

UpdatePluginStatus(s) == status' = s

-----------------------------------------------------------------------------
New ==
  /\ manager = "init"
  /\ UpdatePluginStatus("NotReady")
  /\ manager' = "built"
  /\ UNCHANGED <<lpc, listener, server, crashed, served>>

Start ==
  /\ manager = "built"
  /\ UpdatePluginStatus("NotReady")
  /\ manager' = "started"
  /\ lpc' = "listen"
  /\ UNCHANGED <<listener, server, crashed, served>>

\* url.Parse fails: the goroutine returns.  net.Listen fails or the scheme is
\* unknown: it is logged, l stays nil and the function goes on.
Listen ==
  /\ lpc = "listen"
  /\ \/ /\ lpc' = "exited"
        /\ UNCHANGED listener
     \/ /\ lpc' = "report"
        /\ UNCHANGED listener
     \/ /\ lpc' = "report"
        /\ listener' = "open"
  /\ UNCHANGED <<status, manager, server, crashed, served>>

ReportOK ==
  /\ lpc = "report"
  /\ UpdatePluginStatus("OK")
  /\ lpc' = "serve"
  /\ UNCHANGED <<manager, listener, server, crashed, served>>

\* p.server.Serve(l) up to its accept loop.  A nil listener makes it panic.  If
\* Stop has fired quit and waits for s.mu, which Serve has then locked, the
\* deferred function waits for done before the panic gets any further.
Serve ==
  /\ lpc = "serve"
  /\ \/ /\ listener = "none"
        /\ \/ (~quit \/ lisNil) /\ crashed' = TRUE /\ UNCHANGED lpc
           \/ quit /\ ~lisNil /\ lpc' = "hung" /\ UNCHANGED crashed
        /\ UNCHANGED <<listener, served>>
     \/ /\ listener = "open"
        /\ lisNil
        /\ listener' = "closed"
        /\ lpc' = "exited"
        /\ UNCHANGED <<served, crashed>>
     \/ /\ listener = "open"
        /\ ~lisNil
        /\ served' = TRUE
        /\ lpc' = "serving"
        /\ UNCHANGED <<listener, crashed>>
  /\ UNCHANGED <<status, manager, quit, lisNil, done, conn>>

Accept(c) ==
  /\ lpc = "serving" /\ listener = "open"
  /\ conn[c] = "new"
  /\ conn' = [conn EXCEPT ![c] = "accepted"]
  /\ UNCHANGED <<status, manager, lpc, listener, quit, lisNil, done, crashed, served>>

\* handleRawConn: the connection joins server.conns, unless the handshake
\* fails or quit was seen.
HandleRawConn(c) ==
  /\ conn[c] = "accepted"
  /\ \E s \in {"open", "closed"} : conn' = [conn EXCEPT ![c] = s]
  /\ UNCHANGED <<status, manager, lpc, listener, quit, lisNil, done, crashed, served>>

Disconnect(c) ==
  /\ conn[c] = "open"
  /\ conn' = [conn EXCEPT ![c] = "closed"]
  /\ UNCHANGED <<status, manager, lpc, listener, quit, lisNil, done, crashed, served>>

\* Accept fails for good: because Stop closed the listener, or by itself.  In
\* the second case Serve returns the error and listen() returns.
AcceptFails ==
  /\ lpc = "serving"
  /\ listener' = "closed"
  /\ \/ /\ quit
        /\ lpc' = "draining"
     \/ /\ ~quit
        /\ lpc' = "exited"
  /\ UNCHANGED <<status, manager, quit, lisNil, done, conn, crashed, served>>

\* Serve returns nil once Stop is through.
ServeReturns ==
  /\ lpc = "draining"
  /\ done
  /\ lpc' = "stopped"
  /\ UNCHANGED <<status, manager, listener, server, crashed, served>>

\* "Listener exited."
ReportNotReady ==
  /\ lpc = "stopped"
  /\ UpdatePluginStatus("NotReady")
  /\ lpc' = "exited"
  /\ UNCHANGED <<manager, listener, server, crashed, served>>

-----------------------------------------------------------------------------
(***************************************************************************)
(* Stop: p.server.Stop(), in three steps, then the status.                 *)
(***************************************************************************)
StopQuit ==
  /\ manager = "started"
  /\ quit' = TRUE
  /\ manager' = "quit"
  /\ UNCHANGED <<status, lpc, listener, lisNil, done, conn, crashed, served>>

\* With s.mu, which a hung Serve has not unlocked.
closeListenersLocked ==
  /\ manager = "quit" /\ lpc # "hung"
  /\ lisNil' = TRUE
  /\ listener' = IF lpc = "serving" THEN "closed" ELSE listener
  /\ manager' = "closing"
  /\ UNCHANGED <<status, lpc, quit, done, conn, crashed, served>>

\* serveWG counts Serve until its deferred function and every connection that
\* is being set up; then all connections are closed.
ServeWGIsZero == lpc # "serving" /\ \A c \in Conns : conn[c] # "accepted"

M_CloseConns_WithoutWait ==
  /\ manager = "closing"
  /\ conn' = [c \in Conns |-> IF conn[c] = "open" THEN "closed" ELSE conn[c]]
  /\ done' = TRUE
  /\ manager' = "reporting"
  /\ UNCHANGED <<status, lpc, listener, quit, lisNil, crashed, served>>

\* Stop waits for listen() to return, which waits for Stop.
M_CloseConns_WaitForListen ==
  /\ manager = "closing"
  /\ ServeWGIsZero
  /\ lpc = "exited"
  /\ conn' = [c \in Conns |-> IF conn[c] = "open" THEN "closed" ELSE conn[c]]
  /\ done' = TRUE
  /\ manager' = "reporting"
  /\ UNCHANGED <<status, lpc, listener, quit, lisNil, crashed, served>>

CloseConns ==
  /\ manager = "closing"
  /\ ServeWGIsZero
  /\ conn' = [c \in Conns |-> IF conn[c] = "open" THEN "closed" ELSE conn[c]]
  /\ done' = TRUE
  /\ manager' = "reporting"
  /\ UNCHANGED <<status, lpc, listener, quit, lisNil, crashed, served>>

\* The status is left to listen(), which may not have got there yet.
M_StopReport_Nothing ==
  /\ manager = "reporting"
  /\ manager' = "stopped"
  /\ UNCHANGED <<status, lpc, listener, server, crashed, served>>

StopReport ==
  /\ manager = "reporting"
  /\ UpdatePluginStatus("NotReady")
  /\ manager' = "stopped"
  /\ UNCHANGED <<lpc, listener, server, crashed, served>>

-----------------------------------------------------------------------------
ListenStep == Listen \/ ReportOK \/ Serve \/ ServeReturns \/ ReportNotReady
StopStep == closeListenersLocked \/ CloseConns \/ StopReport

Next ==
  /\ ~crashed
  /\ \/ New \/ Start \/ StopQuit \/ StopStep
     \/ ListenStep \/ AcceptFails
     \/ \E c \in Conns : Accept(c) \/ HandleRawConn(c) \/ Disconnect(c)

Spec == Init /\ [][Next]_vars

(***************************************************************************)
(* The goroutines run: Start and Stop are carried through, Accept returns  *)
(* once the listener is closed, connections being set up get set up.       *)
(* Nobody is obliged to connect, to disconnect or to call Stop.            *)
(***************************************************************************)
Fairness ==
  /\ WF_vars(~crashed /\ ListenStep)
  /\ WF_vars(~crashed /\ StopStep)
  /\ WF_vars(~crashed /\ quit /\ listener = "closed" /\ AcceptFails)
  /\ \A c \in Conns : WF_vars(~crashed /\ HandleRawConn(c))

FairSpec == Spec /\ Fairness

-----------------------------------------------------------------------------
(***************************************************************************)
(* Properties.                                                             *)
(***************************************************************************)
\* Once Stop has returned nothing is served: listen() is out of the accept
\* loop and every connection is closed, also those accepted while Stop ran.
NothingServedAfterStop ==
  manager = "stopped" =>
    /\ lpc # "serving"
    /\ \A c \in Conns : conn[c] \in {"new", "closed"}

\* The status follows the server: OK from the moment connections can be accepted
\* until Stop is called, and for a server that did serve NotReady for good when
\* Stop returns, in whichever order Stop and listen() write it.
StatusFollowsServer ==
  /\ manager = "started" /\ lpc = "serving" => status = "OK"
  /\ manager = "stopped" /\ served => status = "NotReady"

\* Stop returns: it waits for listen() to leave the accept loop and listen()
\* waits for it, but not for each other.  Only a listener that could not be made
\* keeps it from that: by a crash, or for ever, with s.mu locked by Serve.  And
\* a plugin that was started becomes ready, unless listen() has given up or Stop
\* is called.
StartAndStopComplete ==
  /\ manager = "quit" ~>
       manager = "stopped" \/ (listener = "none" /\ (crashed \/ lpc = "hung"))
  /\ manager = "started" ~> status = "OK" \/ lpc = "exited" \/ quit

-----------------------------------------------------------------------------
(***************************************************************************)
(* Statements of the repository that the code does not meet.               *)
(***************************************************************************)
\* vendor/.../plugins/plugins.go: "StateOK signifies that the Plugin is
\* operating normally": before any Stop, OK means that the plugin is, or is
\* about to be, accepting connections on an open listener.
OKMeansOperating ==
  manager = "started" /\ status = "OK" => lpc \in {"serve", "serving"} /\ listener = "open"

\* internal/internal_test.go, TestPluginStatusLifeCycle: after m.Stop the state
\* is StateNotReady; at the latest when listen() has returned too.
NotReadyAfterStop == manager = "stopped" /\ lpc = "exited" => status = "NotReady"
=============================================================================
