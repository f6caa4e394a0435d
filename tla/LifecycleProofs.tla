-------------------------- MODULE LifecycleProofs --------------------------
(***************************************************************************)
(* Proofs about PluginLifecycle, for any number of connections: nothing is *)
(* served once Stop has returned (NothingServedAfterStop), and the status  *)
(* follows the server (StatusFollowsServer).                               *)
(*                                                                         *)
(* Both are about the end of Stop, and were decided when Stop passed       *)
(* serveWG.Wait.  The inductive invariant adds where the two goroutines    *)
(* can be relative to each other: which fields of grpc.Server Stop has set *)
(* by then, that listen() cannot get into its accept loop afterwards, and  *)
(* that nobody but listen() before that loop reports OK.                   *)
(***************************************************************************)
EXTENDS PluginLifecycle, TLAPS

TypeInv ==
  /\ status \in {"none", "NotReady", "OK"}
  /\ manager \in {"init", "built", "started", "quit", "closing", "reporting", "stopped"}
  /\ lpc \in {"off", "listen", "report", "serve", "serving", "draining", "stopped", "exited",
             "hung"}
  /\ listener \in {"none", "open", "closed"}
  /\ quit \in BOOLEAN /\ lisNil \in BOOLEAN /\ done \in BOOLEAN
  /\ conn \in [Conns -> {"new", "accepted", "open", "closed"}]
  /\ served \in BOOLEAN

\* What Stop has done to the server, by how far it is.
StopInv ==
  /\ manager \in {"init", "built"} => lpc = "off"
  /\ quit <=> (manager \in {"quit", "closing", "reporting", "stopped"})
  /\ lisNil <=> (manager \in {"closing", "reporting", "stopped"})
  /\ done <=> (manager \in {"reporting", "stopped"})

\* While Serve accepts its listener is registered: Stop has closed it or will.
\* Behind serveWG.Wait there is no accept loop and no live connection.
ServeInv ==
  /\ lpc = "serving" /\ manager \notin {"init", "built", "started", "quit"} => listener = "closed"
  /\ done => lpc # "serving" /\ \A c \in Conns : conn[c] \in {"new", "closed"}

\* Who wrote the status last.
StatusInv ==
  /\ ~served => lpc \in {"off", "listen", "report", "serve", "exited", "hung"}
  /\ served => lpc \in {"serving", "draining", "stopped", "exited"}
  /\ lpc \in {"serve", "serving"} /\ manager # "stopped" => status = "OK"
  /\ served /\ manager = "stopped" => status = "NotReady"

Lifecycle == TypeInv /\ StopInv /\ ServeInv /\ StatusInv
-----------------------------------------------------------------------------
\* Every step of the manager, of listen() and of a connection keeps the invariant.
LEMMA LifecycleStep == Lifecycle /\ [Next]_vars => Lifecycle'
<1> SUFFICES ASSUME Lifecycle, [Next]_vars PROVE Lifecycle'
  OBVIOUS
<1> USE DEF Lifecycle, TypeInv, StopInv, ServeInv, StatusInv, server, UpdatePluginStatus
<1>1. CASE New
  BY <1>1 DEF New
<1>2. CASE Start
  BY <1>2 DEF Start
<1>3. CASE StopQuit
  BY <1>3 DEF StopQuit
<1>4. CASE closeListenersLocked
  BY <1>4 DEF closeListenersLocked
<1>5. CASE CloseConns
  BY <1>5 DEF CloseConns, ServeWGIsZero
<1>6. CASE StopReport
  BY <1>6 DEF StopReport
<1>7. CASE Listen
  BY <1>7 DEF Listen
<1>8. CASE ReportOK
  BY <1>8 DEF ReportOK
<1>9. CASE Serve
  <2>1. CASE listener = "none"
    BY <1>9, <2>1 DEF Serve
  <2>2. CASE lpc' = "exited"
    BY <1>9, <2>2 DEF Serve
  <2>3. CASE lpc' = "serving"
    <3>1. served' /\ ~lisNil /\ ~done /\ manager # "stopped" /\ manager # "init" /\ manager # "built"
      BY <1>9, <2>3 DEF Serve
    <3> QED
      BY <1>9, <2>3, <3>1 DEF Serve
  <2> QED
    BY <1>9, <2>1, <2>2, <2>3 DEF Serve
<1>10. CASE ServeReturns
  BY <1>10 DEF ServeReturns
<1>11. CASE ReportNotReady
  BY <1>11 DEF ReportNotReady
<1>12. CASE AcceptFails
  BY <1>12 DEF AcceptFails
<1>13. ASSUME NEW c \in Conns, Accept(c) PROVE Lifecycle'
  BY <1>13 DEF Accept
<1>14. ASSUME NEW c \in Conns, HandleRawConn(c) PROVE Lifecycle'
  BY <1>14 DEF HandleRawConn
<1>15. ASSUME NEW c \in Conns, Disconnect(c) PROVE Lifecycle'
  BY <1>15 DEF Disconnect
<1>16. CASE UNCHANGED vars
  BY <1>16 DEF vars
<1> QED
  BY <1>1, <1>2, <1>3, <1>4, <1>5, <1>6, <1>7, <1>8, <1>9, <1>10, <1>11, <1>12, <1>13, <1>14, <1>15, <1>16 DEF Next, StopStep, ListenStep

\* The invariant holds in every reachable state.
LEMMA LifecycleInvariant == Spec => []Lifecycle
<1>1. Init => Lifecycle
  BY DEF Init, Lifecycle, TypeInv, StopInv, ServeInv, StatusInv
<1> QED
  BY <1>1, LifecycleStep, PTL DEF Spec

\* When Stop (internal/internal.go 287) has returned, listen() accepts nothing and
\* every connection is closed, for any number of connections and whenever they came.
THEOREM StopIsFinal == Spec => []NothingServedAfterStop
<1>1. Lifecycle => NothingServedAfterStop
  BY DEF Lifecycle, StopInv, ServeInv, NothingServedAfterStop
<1> QED
  BY <1>1, LifecycleInvariant, PTL

\* The status (internal/internal.go 284, 290, 346, 353) is OK while the started plugin
\* accepts, and NotReady for good after the Stop of one that did, in whichever order
\* Stop and listen() write it.
THEOREM StatusIsTrue == Spec => []StatusFollowsServer
<1>1. Lifecycle => StatusFollowsServer
  BY DEF Lifecycle, StatusInv, StatusFollowsServer
<1> QED
  BY <1>1, LifecycleInvariant, PTL
=============================================================================
