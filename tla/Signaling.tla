----------------------------- MODULE Signaling -----------------------------
(***************************************************************************)
(* The signaling server for the peers of one IP group                      *)
(* (signaling/src/controller/ws_controller.rs).                            *)
(*                                                                         *)
(* Each connection has a handler, a bounded queue of outgoing messages and *)
(* two tasks: one drains the queue into the socket, one reads the socket.  *)
(* The handler enters the group under the lock of tx_map, then tells the   *)
(* others and greets its own client, and starts the tasks after that.      *)
(* When the draining task fails, the handler aborts the reading task and   *)
(* leaves the group; an abort stops a task only where it has to wait, so   *)
(* one that another thread is running goes on for a while.                 *)
(* A peer is one connection: the server gives each a fresh id.             *)
(***************************************************************************)
EXTENDS Naturals, Sequences, FiniteSets

CONSTANTS
  Peers,
  Infos,            \* what a client may tell about itself
  MAX_CONNECTIONS,  \* connections of a group (10 by default)
  MAX_REQUESTS,     \* requests of a group per hour (1000 by default)
  Capacity,         \* capacity of a queue (4 in the code)
  Hours             \* bound: times the request counts are cleared

ASSUME SignalingAssumption ==
  /\ MAX_CONNECTIONS \in Nat /\ MAX_REQUESTS \in Nat /\ Hours \in Nat
  /\ Capacity \in Nat \ {0}
  /\ Infos # {}

VARIABLES
  group,     \* the peers in tx_map
  info,      \* ClientState::client of each peer
  count,     \* requests of the group since the counts were cleared
  hours,     \* times the counts were cleared
  pc,        \* control point of each connection
  sending,   \* whom the handler still has to send which message
  reading,   \* connections whose reading task has not ended
  relaying,  \* whom the reading task still has to send which message
  snapshot,  \* what the connection read from the group when it entered
  queue,     \* queue of outgoing messages of each connection
  view,      \* what the messages sent to a client say about its group
  early,     \* history: senders whose messages were queued before Hello
  belated    \* history: senders whose Update was queued after their Left

vars == <<group, info, count, hours, pc, sending, reading, relaying, snapshot, queue,
          view, early, belated>>
recvTask == <<reading, relaying>>
history == <<early, belated>>

Join(p)      == [type |-> "Join", of |-> p, info |-> info[p]]
Update(p, i) == [type |-> "Update", of |-> p, info |-> i]
Left(p)      == [type |-> "Left", of |-> p]
Sdp(p)       == [type |-> "Sdp", of |-> p]
Hello(p)     == [type |-> "Hello", of |-> p, peers |-> snapshot[p]]

Nothing(p) == [to |-> {}, msg |-> Left(p)]

Init ==
  /\ group = {}
  /\ info \in [Peers -> Infos]
  /\ count = 0
  /\ hours = 0
  /\ pc = [p \in Peers |-> "out"]
  /\ sending = [p \in Peers |-> Nothing(p)]
  /\ reading = {}
  /\ relaying = [p \in Peers |-> Nothing(p)]
  /\ snapshot = [p \in Peers |-> {}]
  /\ queue = [p \in Peers |-> <<>>]
  /\ view = [p \in Peers |-> {}]
  /\ early = [p \in Peers |-> {}]
  /\ belated = [p \in Peers |-> {}]

-----------------------------------------------------------------------------
(* Sending                                                                 *)

\* The receiver of the queue is dropped with the task that drains it.
Closed(p) == pc[p] \in {"closing", "leaving", "gone"}

\* Mutant: a send to a queue that is closed waits as well.
PushBlocksWhenClosed(p, q, msg) ==
  /\ ~Closed(q)
  /\ Len(queue[q]) < Capacity
  /\ queue' = [queue EXCEPT ![q] = Append(@, msg)]
  /\ UNCHANGED early

\* tx.send(msg).await for connection p, which ignores the result.
Push(p, q, msg) ==
  IF Closed(q)
    THEN UNCHANGED <<queue, early>>
    ELSE /\ Len(queue[q]) < Capacity
         /\ queue' = [queue EXCEPT ![q] = Append(@, msg)]
         /\ early' = IF pc[q] = "joining" /\ p # q
                       THEN [early EXCEPT ![q] = @ \cup {p}] ELSE early

\* One more receiver of the message the handler is sending; they come in the
\* order of a hash map.
SendNext(p, q) ==
  /\ q \in sending[p].to
  /\ Push(p, q, sending[p].msg)
  /\ sending' = [sending EXCEPT ![p].to = @ \ {q}]
  /\ UNCHANGED <<group, info, count, hours, pc, recvTask, snapshot, view, belated>>

\* Connection p has told q that it left.
ToldLeft(p, q) == pc[p] \in {"leaving", "gone"} /\ q \notin sending[p].to

\* One more receiver of the message the reading task is sending, aborted or not.
Relay(p, q) ==
  /\ q \in relaying[p].to
  /\ Push(p, q, relaying[p].msg)
  /\ relaying' = [relaying EXCEPT ![p].to = @ \ {q}]
  /\ belated' = IF relaying[p].msg.type = "Update" /\ ToldLeft(p, q) /\ ~Closed(q)
                  THEN [belated EXCEPT ![q] = @ \cup {p}] ELSE belated
  /\ UNCHANGED <<group, info, count, hours, pc, sending, reading, snapshot, view>>

\* The reading task is about to read the next message.
Idle(p) == p \in reading /\ relaying[p].to = {}

-----------------------------------------------------------------------------
(* handle_socket                                                           *)

\* Mutant: only those who were greeted already are told.
EnterTellsGreeted(p) ==
  /\ pc[p] = "out"
  /\ Cardinality(group) < MAX_CONNECTIONS
  /\ count < MAX_REQUESTS
  /\ count' = count + 1
  /\ sending' = [sending EXCEPT ![p] = [to |-> {q \in group : pc[q] = "online"},
                                        msg |-> Join(p)]]
  /\ snapshot' = [snapshot EXCEPT ![p] = {<<q, info[q]>> : q \in group}]
  /\ group' = group \cup {p}
  /\ pc' = [pc EXCEPT ![p] = "joining"]
  /\ UNCHANGED <<info, hours, recvTask, queue, view, history>>

\* Limits, snapshot and entry happen under one lock.
Enter(p) ==
  /\ pc[p] = "out"
  /\ Cardinality(group) < MAX_CONNECTIONS
  /\ count < MAX_REQUESTS
  /\ count' = count + 1
  /\ sending' = [sending EXCEPT ![p] = [to |-> group, msg |-> Join(p)]]
  /\ snapshot' = [snapshot EXCEPT ![p] = {<<q, info[q]>> : q \in group}]
  /\ group' = group \cup {p}
  /\ pc' = [pc EXCEPT ![p] = "joining"]
  /\ UNCHANGED <<info, hours, recvTask, queue, view, history>>

Refuse(p) ==
  /\ pc[p] = "out"
  /\ Cardinality(group) >= MAX_CONNECTIONS \/ count >= MAX_REQUESTS
  /\ pc' = [pc EXCEPT ![p] = "refused"]
  /\ UNCHANGED <<group, info, count, hours, sending, recvTask, snapshot, queue, view, history>>

\* Hello waits for room in the client's own queue, which nobody drains yet.
Greet(p) ==
  /\ pc[p] = "joining" /\ sending[p].to = {}
  /\ Push(p, p, Hello(p))
  /\ pc' = [pc EXCEPT ![p] = "online"]
  /\ reading' = reading \cup {p}
  /\ UNCHANGED <<group, info, count, hours, sending, relaying, snapshot, view, belated>>

\* What a message tells the client: Hello and Join add peers, Update changes
\* one, Left removes one.
Told(known, msg) ==
  CASE msg.type = "Hello" -> {k \in known : \A n \in msg.peers : n[1] # k[1]} \cup msg.peers
    [] msg.type \in {"Join", "Update"} ->
         {k \in known : k[1] # msg.of} \cup {<<msg.of, msg.info>>}
    [] msg.type = "Left" -> {k \in known : k[1] # msg.of}
    [] OTHER -> known

\* The task that drains the queue.
Deliver(p) ==
  /\ pc[p] = "online"
  /\ queue[p] # <<>>
  /\ view' = [view EXCEPT ![p] = Told(@, Head(queue[p]))]
  /\ queue' = [queue EXCEPT ![p] = Tail(@)]
  /\ UNCHANGED <<group, info, count, hours, pc, sending, recvTask, snapshot, history>>

\* Nobody drains the queue any more, and the client's view is not kept up.
Forget(p) ==
  /\ pc' = [pc EXCEPT ![p] = "closing"]
  /\ queue' = [queue EXCEPT ![p] = <<>>]
  /\ view' = [view EXCEPT ![p] = {}]
  /\ snapshot' = [snapshot EXCEPT ![p] = {}]
  /\ early' = [early EXCEPT ![p] = {}]
  /\ belated' = [belated EXCEPT ![p] = {}]

\* The reading task ends between two messages, and the draining task is aborted.
Disconnect(p) ==
  /\ pc[p] = "online" /\ Idle(p)
  /\ reading' = reading \ {p}
  /\ Forget(p)
  /\ UNCHANGED <<group, info, count, hours, sending, relaying>>

\* The draining task fails to write, and the reading task is aborted: it runs on
\* until the abort takes effect.
DrainFails(p) ==
  /\ pc[p] = "online"
  /\ queue[p] # <<>>
  /\ Forget(p)
  /\ UNCHANGED <<group, info, count, hours, sending, recvTask>>

\* The aborted reading task stops, whatever it had left to send.
Abort(p) ==
  /\ p \in reading /\ pc[p] # "online"
  /\ reading' = reading \ {p}
  /\ relaying' = [relaying EXCEPT ![p] = Nothing(p)]
  /\ UNCHANGED <<group, info, count, hours, pc, sending, snapshot, queue, view, history>>

\* Mutant: only those who were greeted already are told.
LeaveTellsGreeted(p) ==
  /\ pc[p] = "closing"
  /\ group' = group \ {p}
  /\ sending' = [sending EXCEPT ![p] =
                   [to |-> {q \in group \ {p} : pc[q] = "online"}, msg |-> Left(p)]]
  /\ pc' = [pc EXCEPT ![p] = "leaving"]
  /\ UNCHANGED <<info, count, hours, recvTask, snapshot, queue, view, history>>

Leave(p) ==
  /\ pc[p] = "closing"
  /\ group' = group \ {p}
  /\ sending' = [sending EXCEPT ![p] = [to |-> group \ {p}, msg |-> Left(p)]]
  /\ pc' = [pc EXCEPT ![p] = "leaving"]
  /\ UNCHANGED <<info, count, hours, recvTask, snapshot, queue, view, history>>

Finish(p) ==
  /\ pc[p] = "leaving" /\ sending[p].to = {}
  /\ pc' = [pc EXCEPT ![p] = "gone"]
  /\ UNCHANGED <<group, info, count, hours, sending, recvTask, snapshot, queue, view, history>>

-----------------------------------------------------------------------------
(* Messages of a client, one at a time                                     *)

Counted == count < MAX_REQUESTS /\ count' = count + 1

\* Mutant: the group keeps the old information.
UpdateInfoNotStored(p, i) ==
  /\ Idle(p)
  /\ Counted
  /\ relaying' = IF p \in group
                   THEN [relaying EXCEPT ![p] = [to |-> group \ {p}, msg |-> Update(p, i)]]
                   ELSE relaying
  /\ UNCHANGED <<group, info, hours, pc, sending, reading, snapshot, queue, view, history>>

\* Nothing to tell once the handler has left the group.
UpdateInfo(p, i) ==
  /\ Idle(p)
  /\ Counted
  /\ IF p \in group
       THEN /\ info' = [info EXCEPT ![p] = i]
            /\ relaying' = [relaying EXCEPT ![p] = [to |-> group \ {p}, msg |-> Update(p, i)]]
       ELSE UNCHANGED <<info, relaying>>
  /\ UNCHANGED <<group, hours, pc, sending, reading, snapshot, queue, view, history>>

\* An offer or answer goes to its target, if that is in the group.
SendSdp(p, q) ==
  /\ Idle(p)
  /\ Counted
  /\ relaying' = [relaying EXCEPT ![p] = [to |-> {q} \cap group, msg |-> Sdp(p)]]
  /\ UNCHANGED <<group, info, hours, pc, sending, reading, snapshot, queue, view, history>>

\* Over the limit: the client is sent an error and its reading task ends,
\* which aborts the task that would deliver it.
Throttle(p) ==
  /\ pc[p] = "online" /\ Idle(p)
  /\ count >= MAX_REQUESTS
  /\ Len(queue[p]) < Capacity
  /\ reading' = reading \ {p}
  /\ Forget(p)
  /\ UNCHANGED <<group, info, count, hours, sending, relaying>>

\* The scheduler clears the request counts every hour.
ClearCounts ==
  /\ hours < Hours
  /\ hours' = hours + 1
  /\ count' = 0
  /\ UNCHANGED <<group, info, pc, sending, recvTask, snapshot, queue, view, history>>

Next ==
  \/ \E p \in Peers :
       \/ Enter(p) \/ Refuse(p) \/ Greet(p) \/ Deliver(p)
       \/ Disconnect(p) \/ Throttle(p) \/ DrainFails(p) \/ Abort(p)
       \/ Leave(p) \/ Finish(p)
       \/ \E i \in Infos : UpdateInfo(p, i)
       \/ \E q \in Peers : SendSdp(p, q) \/ SendNext(p, q) \/ Relay(p, q)
  \/ ClearCounts

Spec == Init /\ [][Next]_vars

(* Fairness: the runtime polls every task that can run, and the sockets of *)
(* connected clients take what is written to them.                         *)
Fairness ==
  \A p \in Peers : /\ WF_vars(Greet(p)) /\ WF_vars(Deliver(p))
                    /\ WF_vars(\E q \in Peers : SendNext(p, q))

FairSpec == Spec /\ Fairness

-----------------------------------------------------------------------------
(* Properties                                                              *)

Known == Peers \X Infos

Message ==
  [type : {"Join", "Update"}, of : Peers, info : Infos]
    \cup [type : {"Left", "Sdp"}, of : Peers]
    \cup [type : {"Hello"}, of : Peers, peers : SUBSET Known]

\* Every variable stays in its domain, queues and counts within their limits.
TypeOK ==
  /\ group \in SUBSET Peers
  /\ Cardinality(group) <= MAX_CONNECTIONS
  /\ info \in [Peers -> Infos]
  /\ count \in 0..MAX_REQUESTS
  /\ hours \in 0..Hours
  /\ pc \in [Peers -> {"out", "refused", "joining", "online", "closing", "leaving", "gone"}]
  /\ sending \in [Peers -> [to : SUBSET Peers, msg : Message]]
  /\ reading \in SUBSET Peers
  /\ relaying \in [Peers -> [to : SUBSET Peers, msg : Message]]
  /\ snapshot \in [Peers -> SUBSET Known]
  /\ queue \in [Peers -> Seq(Message)]
  /\ \A p \in Peers : Len(queue[p]) <= Capacity
  /\ view \in [Peers -> SUBSET Known]
  /\ early \in [Peers -> SUBSET Peers]
  /\ belated \in [Peers -> SUBSET Peers]

\* The connection of peer q is about to make client p aware of something.
UnderWay(types, q, p) ==
  \/ p \in sending[q].to /\ sending[q].msg.type \in types
  \/ p \in relaying[q].to /\ relaying[q].msg.type \in types
  \/ \E i \in DOMAIN queue[p] : queue[p][i].type \in types /\ queue[p][i].of = q

Lists(known, q) == \E k \in known : k[1] = q

\* No two members of a group miss each other, however their entries overlap:
\* each is in the other's view, or a Join or Hello that says so is under way.
MembersKnown ==
  \A p, q \in group : p # q =>
    \/ Lists(view[p], q)
    \/ UnderWay({"Join"}, q, p)
    \/ pc[p] = "joining" /\ Lists(snapshot[p], q)
    \/ UnderWay({"Hello"}, p, p) /\ Lists(snapshot[p], q)
    \/ pc[p] = "closing"

\* A client forgets whoever left, but for two races: the news overtook the Hello
\* that still lists the one who left (its list is read before, and sent after),
\* or was overtaken itself, by the Update of a reading task that ran on after it
\* was aborted.
GhostsOnlyFromRaces ==
  \A p \in Peers : pc[p] = "online" =>
    \A k \in view[p] : k[1] \notin group =>
      UnderWay({"Left"}, k[1], p) \/ k[1] \in early[p] \cup belated[p]

\* What a client knows of a member is what the group knows, or the update is
\* under way; the same race with Hello aside.
InfoCurrent ==
  \A p \in Peers : pc[p] = "online" =>
    \A k \in view[p] : k[1] \in group /\ pc[k[1]] # "closing" /\ k[2] # info[k[1]] =>
      UnderWay({"Update"}, k[1], p) \/ k[1] \in early[p]

\* A client is greeted, unless the queue of one that is not greeted yet runs
\* full: nobody drains that one, so all who write to it wait for ever.
GreetedUnlessOverrun ==
  \A p \in Peers :
    pc[p] = "joining" ~> \/ pc[p] # "joining"
                        \/ \E q \in Peers : pc[q] = "joining" /\ Len(queue[q]) = Capacity
=============================================================================
