--------------------------- MODULE ServerLifecycle ---------------------------
(***************************************************************************)
(* Starting, serving and stopping: HttpServerService of the server isolate *)
(* (lib/src/task/server/http_server.dart), RsHttpServer of the bridge      *)
(* (rust/src/api/server.rs) and start_with_port of the core                *)
(* (http/server/mod.rs).                                                   *)
(*                                                                         *)
(* Start and stop tasks of the isolate run concurrently: each message is   *)
(* handled on its own, and both go on in Rust after their first lines.  A  *)
(* start s makes the server s, which has a listener for each family, the   *)
(* task that runs both accept loops, and the connections they accepted.    *)
(*                                                                         *)
(* The names of the specification begin with Service, so that it can stand *)
(* beside FileUpload, the isolates' other task, in one module.             *)
(***************************************************************************)
EXTENDS Naturals, FiniteSets

CONSTANTS
  Starts,        \* start tasks, and the servers they make
  Stops,         \* stop tasks
  Connections,
  Ports,
  None           \* no server

ASSUME LifecycleAssumption == None \notin Starts

Families == {"v4", "v6"}

VARIABLES
  kept,       \* HttpServerService._server
  startPc,    \* where a start is
  port,       \* the port it was given
  listener,   \* the listeners of a server that are open
  running,    \* the task of ServerHandle
  stopTx,     \* is the stop channel of a server unused
  stopPc,     \* where a stop is
  stops,      \* the server a stop found
  conn,       \* the server of a connection, None before and after
  overlapped  \* history: starts that were called while another start was open

starting == <<startPc, port, overlapped>>
stopping == <<stopPc, stops, stopTx>>
serviceVars == <<kept, starting, listener, running, stopping, conn>>

ServiceInit ==
  /\ kept = None
  /\ startPc = [s \in Starts |-> "idle"]
  /\ port \in [Starts -> Ports]
  /\ listener = [s \in Starts |-> {}]
  /\ running = [s \in Starts |-> "none"]
  /\ stopTx = [s \in Starts |-> FALSE]
  /\ stopPc = [t \in Stops |-> "idle"]
  /\ stops = [t \in Stops |-> None]
  /\ conn = [c \in Connections |-> None]
  /\ overlapped = {}

Connected(s) == {c \in Connections : conn[c] = s}
Bound(p, f) == \E s \in Starts : port[s] = p /\ f \in listener[s]

-----------------------------------------------------------------------------
(* Starting                                                                *)

Opening == {s \in Starts : startPc[s] \in {"called", "returned"}}

\* Mutant: a second server is not refused.
CallStartAgain(s) ==
  /\ startPc[s] = "idle"
  /\ startPc' = [startPc EXCEPT ![s] = "called"]
  /\ overlapped' = IF Opening # {} THEN overlapped \cup Opening \cup {s} ELSE overlapped
  /\ UNCHANGED <<kept, port, listener, running, stopping, conn>>

\* HttpServerService.start up to its await: a second server is refused.
CallStart(s) ==
  /\ startPc[s] = "idle"
  /\ startPc' = [startPc EXCEPT ![s] = IF kept = None THEN "called" ELSE "failed"]
  /\ overlapped' = IF kept = None /\ Opening # {} THEN overlapped \cup Opening \cup {s} ELSE overlapped
  /\ UNCHANGED <<kept, port, listener, running, stopping, conn>>

\* The IPv4 port is taken, by a server of ours or by another program.
BindFails(s) ==
  /\ startPc[s] = "called"
  /\ startPc' = [startPc EXCEPT ![s] = "failed"]
  /\ UNCHANGED <<kept, port, overlapped, listener, running, stopping, conn>>

\* start_with_port: without IPv6 the server runs on IPv4 only.
Bind(s) ==
  /\ startPc[s] = "called"
  /\ ~Bound(port[s], "v4")
  /\ \E F \in {{"v4"}, {"v4", "v6"}} :
       /\ "v6" \in F => ~Bound(port[s], "v6")
       /\ listener' = [listener EXCEPT ![s] = F]
  /\ running' = [running EXCEPT ![s] = "serving"]
  /\ stopTx' = [stopTx EXCEPT ![s] = TRUE]
  /\ startPc' = [startPc EXCEPT ![s] = "returned"]
  /\ UNCHANGED <<kept, port, overlapped, stopPc, stops, conn>>

\* start goes on: the handle is kept, whatever was kept before, and listened to.
ReturnStart(s) ==
  /\ startPc[s] = "returned"
  /\ kept' = s
  /\ startPc' = [startPc EXCEPT ![s] = "listening"]
  /\ UNCHANGED <<port, overlapped, listener, running, stopping, conn>>

-----------------------------------------------------------------------------
(* Serving                                                                 *)

\* A connection is accepted and served by a task of its own.
Accept(c) ==
  /\ conn[c] = None
  /\ \E s \in Starts :
       /\ running[s] = "serving" /\ listener[s] # {}
       /\ conn' = [conn EXCEPT ![c] = s]
  /\ UNCHANGED <<kept, starting, listener, running, stopping>>

\* serve_connection ends: the client is through, or the handshake failed.
EndConnection(c) ==
  /\ conn[c] # None
  /\ conn' = [conn EXCEPT ![c] = None]
  /\ UNCHANGED <<kept, starting, listener, running, stopping>>

\* One branch of the select is through: it drops both accept loops with their
\* listeners, and cancels the connections.
Wind(s) ==
  /\ running' = [running EXCEPT ![s] = "closing"]
  /\ listener' = [listener EXCEPT ![s] = {}]

\* accept (or, before it, the TLS configuration) fails: the loop over IPv4
\* ends the server, the loop over IPv6 only itself.
LoopFails(s, f) ==
  /\ running[s] = "serving"
  /\ f \in listener[s]
  /\ IF f = "v4" THEN Wind(s)
     ELSE listener' = [listener EXCEPT ![s] = @ \ {f}] /\ UNCHANGED running
  /\ UNCHANGED <<kept, starting, stopping, conn>>

ReceiveStop(s) ==
  /\ running[s] = "serving"
  /\ \E t \in Stops : stops[t] = s /\ stopPc[t] = "waiting"
  /\ Wind(s)
  /\ UNCHANGED <<kept, starting, stopping, conn>>

\* Mutant: connections are not told that the server stops.
DropConnectionNever(c) == conn[c] = None /\ conn[c] # None /\ UNCHANGED serviceVars

\* The connection's task sees the cancellation.
DropConnection(c) ==
  /\ conn[c] # None
  /\ running[conn[c]] = "closing"
  /\ conn' = [conn EXCEPT ![c] = None]
  /\ UNCHANGED <<kept, starting, listener, running, stopping>>

\* Mutant: the connections are not waited for.
EndTaskEarly(s) ==
  /\ running[s] = "closing"
  /\ running' = [running EXCEPT ![s] = "ended"]
  /\ UNCHANGED <<kept, starting, listener, stopping, conn>>

\* connections.wait() returns.
EndTask(s) ==
  /\ running[s] = "closing"
  /\ Connected(s) = {}
  /\ running' = [running EXCEPT ![s] = "ended"]
  /\ UNCHANGED <<kept, starting, listener, stopping, conn>>

-----------------------------------------------------------------------------
(* Stopping                                                                *)

\* HttpServerService.stop forgets the server and has it stopped; without one
\* it returns at once.  RsHttpServer.stop sends on the channel if nobody did,
\* and waits for the task.
CallStop(t) ==
  /\ stopPc[t] = "idle"
  /\ kept' = None
  /\ stops' = [stops EXCEPT ![t] = kept]
  /\ stopPc' = [stopPc EXCEPT ![t] = IF kept = None \/ ~stopTx[kept] THEN "done" ELSE "waiting"]
  /\ stopTx' = IF kept = None THEN stopTx ELSE [stopTx EXCEPT ![kept] = FALSE]
  /\ UNCHANGED <<starting, listener, running, conn>>

ReturnStop(t) ==
  /\ stopPc[t] = "waiting"
  /\ running[stops[t]] = "ended"
  /\ stopPc' = [stopPc EXCEPT ![t] = "done"]
  /\ UNCHANGED <<kept, starting, listener, running, stops, stopTx, conn>>

ServiceNext ==
  \/ \E s \in Starts :
       \/ CallStart(s) \/ BindFails(s) \/ Bind(s) \/ ReturnStart(s)
       \/ ReceiveStop(s) \/ EndTask(s) \/ \E f \in Families : LoopFails(s, f)
  \/ \E c \in Connections : Accept(c) \/ EndConnection(c) \/ DropConnection(c)
  \/ \E t \in Stops : CallStop(t) \/ ReturnStop(t)

ServiceSpec == ServiceInit /\ [][ServiceNext]_serviceVars

\* Tasks that can run do run; nobody has to start, stop or connect.
ServiceFairSpec ==
  /\ ServiceSpec
  /\ \A s \in Starts : WF_serviceVars(Bind(s) \/ BindFails(s)) /\ WF_serviceVars(ReturnStart(s))
                       /\ WF_serviceVars(ReceiveStop(s)) /\ WF_serviceVars(EndTask(s))
  /\ \A c \in Connections : WF_serviceVars(DropConnection(c))
  /\ \A t \in Stops : WF_serviceVars(ReturnStop(t))

-----------------------------------------------------------------------------
(* Properties                                                              *)

\* Every variable has its type.
ServiceTypeOK ==
  /\ kept \in Starts \cup {None}
  /\ startPc \in [Starts -> {"idle", "called", "returned", "listening", "failed"}]
  /\ port \in [Starts -> Ports]
  /\ listener \in [Starts -> SUBSET Families]
  /\ running \in [Starts -> {"none", "serving", "closing", "ended"}]
  /\ stopTx \in [Starts -> BOOLEAN]
  /\ stopPc \in [Stops -> {"idle", "waiting", "done"}]
  /\ stops \in [Stops -> Starts \cup {None}]
  /\ conn \in [Connections -> Starts \cup {None}]
  /\ overlapped \subseteq Starts

\* A stop that found a server returns when its listeners are closed and its
\* connections are gone, so that the port can be bound again (wait_stopped);
\* only while another server's start or stop is open, or after two starts
\* overlapped, may the port still be taken by one of ours.
StopMeansReleased ==
  \A t \in Stops : stopPc[t] = "done" /\ stops[t] # None =>
    /\ listener[stops[t]] = {} /\ Connected(stops[t]) = {}
    /\ Bound(port[stops[t]], "v4") =>
         \E s \in Starts : /\ port[s] = port[stops[t]] /\ "v4" \in listener[s]
                           /\ \/ s \in Opening \cup overlapped \cup {kept}
                              \/ \E u \in Stops : stops[u] = s /\ stopPc[u] = "waiting"

\* No server runs that nobody can stop: it is the one the service keeps, or on
\* its way there, or being stopped; unless two starts overlapped.
NoOrphan ==
  \A s \in Starts : running[s] = "serving" =>
    \/ s \in overlapped \cup Opening \cup {kept}
    \/ \E t \in Stops : stops[t] = s /\ stopPc[t] = "waiting"

\* Every stop returns, whatever its connections do.
StopReturns == \A t \in Stops : stopPc[t] = "waiting" ~> stopPc[t] = "done"
=============================================================================
