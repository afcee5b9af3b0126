-------------------------- MODULE SignalingProofs --------------------------
(***************************************************************************)
(* Proofs about both ends of a signaling connection: Signaling, for every  *)
(* number of peers, every limit and every capacity (what the clients of a  *)
(* group know of each other), and SignalingClient, for any offers and any  *)
(* size of its channels (what its application is shown).                   *)
(***************************************************************************)
EXTENDS Signaling, SignalingClient, SequenceTheorems, FiniteSetTheorems, TLAPS

-----------------------------------------------------------------------------
(* The inductive invariant                                                 *)

Strange == {"out", "refused"}
InGroup == {"joining", "online", "closing"}
Started == {"online", "closing", "leaving", "gone"}

\* In the queue of client p.
Coming(p) == {queue[p][i] : i \in DOMAIN queue[p]}

\* Who is in the group, and what each handler is sending to whom.
Senders ==
  /\ IsFiniteSet(group)
  /\ \A p \in Peers : /\ p \in group <=> pc[p] \in InGroup
                      /\ sending[p].msg.of = p
  /\ \A p, q \in Peers : q \in sending[p].to =>
       /\ pc[q] \notin Strange /\ p # q
       /\ \/ sending[p].msg = Join(p) /\ pc[p] = "joining"
          \/ sending[p].msg = Left(p) /\ pc[p] = "leaving"

\* Which connections have a reading task, and what that is sending: the last
\* Update or an offer, whatever the handler has done since.
RelaysOf(p) ==
  /\ relaying[p].msg.of = p
  /\ p \in reading => pc[p] \in Started
  /\ \A q \in belated[p] : pc[q] \in {"leaving", "gone"}
  /\ \A q \in relaying[p].to :
       /\ pc[p] \in Started /\ pc[q] \notin Strange
       /\ (relaying[p].msg = Update(p, info[p]) /\ p # q) \/ relaying[p].msg = Sdp(p)

Relays == \A p \in Peers : RelaysOf(p)

\* What is on its way to client p.
Arriving(m, p) ==
  /\ m.type = "Hello" => m = Hello(p) /\ pc[p] = "online"
  /\ m.type = "Left" => pc[m.of] \in {"leaving", "gone"}
  /\ m.type \in {"Join", "Update"} => m.of # p /\ pc[m.of] \notin Strange
  /\ pc[p] = "joining" => m.of \in early[p]

\* Only a client that is being greeted or was greeted has anything queued, only
\* one that was greeted has a view, and none is told of itself or of a stranger.
ClientOK(p) ==
  /\ pc[p] \notin {"joining", "online"} => queue[p] = <<>>
  /\ pc[p] # "online" => view[p] = {}
  /\ \A m \in Coming(p) : Arriving(m, p)
  /\ \A k \in view[p] \cup snapshot[p] : k[1] # p /\ pc[k[1]] \notin Strange

Clients == \A p \in Peers : ClientOK(p)

\* An entry of a list that says x of q is outdated, and the message that puts it
\* right: q has left, or it is a member and said something else since.
Outdated(q, x) == q \notin group \/ (pc[q] # "closing" /\ x # info[q])
Remedy(q) == IF q \in group THEN "Update" ELSE "Left"

\* The remedy is still to be sent to p, or one of q's messages overtook Hello or
\* was overtaken by the Left of q.
ToCome(p, q) == \/ p \in sending[q].to /\ sending[q].msg.type = Remedy(q)
                \/ p \in relaying[q].to /\ relaying[q].msg.type = Remedy(q)
                \/ q \in early[p] \cup belated[p]
IsRemedy(m, q) == m.type = Remedy(q) /\ m.of = q
Remedied(p, q, i) == ToCome(p, q) \/ \E j \in DOMAIN queue[p] : j > i /\ IsRemedy(queue[p][j], q)

Stale(known, q) == \E k \in known : k[1] = q /\ Outdated(q, k[2])
Misleads(m, q) == \/ m.type \in {"Join", "Update"} /\ m.of = q /\ Outdated(q, m.info)
                  \/ m.type = "Hello" /\ Stale(m.peers, q)

\* Whatever client p knows of q, or is about to be told, is put right after it.
PutRight(p, q) ==
  /\ Stale(view[p], q) => Remedied(p, q, 0)
  /\ \A i \in DOMAIN queue[p] : Misleads(queue[p][i], q) => Remedied(p, q, i)
  /\ pc[p] = "joining" /\ Stale(snapshot[p], q) => Remedied(p, q, 0)

AllPutRight == \A p, q \in Peers : PutRight(p, q)

\* Client p knows of q, or is about to: it is told by q's own entry, or by the
\* list of who was there before it.
Introduces(m, q) == (m.type = "Join" /\ m.of = q) \/ (m.type = "Hello" /\ Lists(m.peers, q))
JoinToCome(p, q) == p \in sending[q].to /\ sending[q].msg.type = "Join"

Heard(p, q) ==
  \/ Lists(view[p], q)
  \/ JoinToCome(p, q)
  \/ \E m \in Coming(p) : Introduces(m, q)
  \/ pc[p] = "joining" /\ Lists(snapshot[p], q)
  \/ pc[p] = "closing"

AllHeard == \A p, q \in group : p # q => Heard(p, q)

SignalingInv == TypeOK /\ Senders /\ Relays /\ Clients /\ AllPutRight /\ AllHeard

-----------------------------------------------------------------------------
(* Messages and queues                                                     *)

\* What the messages consist of.
LEMMA MessageForms ==
  ASSUME NEW m \in Message
  PROVE  /\ m.type \in {"Join", "Update", "Left", "Sdp", "Hello"} /\ m.of \in Peers
         /\ m.type \in {"Join", "Update"} => m.info \in Infos
         /\ m.type = "Hello" => m.peers \in SUBSET Known
BY DEF Message

\* The messages that are sent.
LEMMA MessagesMade ==
  ASSUME TypeOK, NEW p \in Peers
  PROVE  /\ {Join(p), Left(p), Sdp(p), Hello(p)} \subseteq Message
         /\ \A i \in Infos : Update(p, i) \in Message
         /\ Join(p).type = "Join" /\ Join(p).of = p /\ Join(p).info = info[p]
         /\ \A i : Update(p, i).type = "Update" /\ Update(p, i).of = p /\ Update(p, i).info = i
         /\ Left(p).type = "Left" /\ Left(p).of = p
         /\ Sdp(p).type = "Sdp" /\ Sdp(p).of = p
         /\ Hello(p).type = "Hello" /\ Hello(p).of = p /\ Hello(p).peers = snapshot[p]
BY DEF TypeOK, Message, Join, Left, Sdp, Hello, Update

\* The queues and the history after a send, to a queue that is closed or not.
Pushed(p, q, msg) ==
  /\ \A r \in Peers : r # q => queue'[r] = queue[r] /\ early'[r] = early[r]
  /\ early[q] \subseteq early'[q]
  /\ Closed(q) => queue'[q] = queue[q]
  /\ ~Closed(q) => queue'[q] = Append(queue[q], msg)
  /\ pc[q] = "joining" /\ p # q => p \in early'[q]
  /\ \A m \in Coming(q)' : m \in Coming(q) \/ (m = msg /\ ~Closed(q))
  /\ Coming(q) \subseteq Coming(q)'
  /\ ~Closed(q) => msg \in Coming(q)'

\* What sending a message to a queue does.
LEMMA PushDone ==
  ASSUME TypeOK, NEW p \in Peers, NEW q \in Peers, NEW msg \in Message, Push(p, q, msg)
  PROVE  /\ Pushed(p, q, msg)
         /\ queue' \in [Peers -> Seq(Message)] /\ \A r \in Peers : Len(queue'[r]) <= Capacity
         /\ early' \in [Peers -> SUBSET Peers]
<1>1. queue \in [Peers -> Seq(Message)] /\ early \in [Peers -> SUBSET Peers]
      /\ \A r \in Peers : Len(queue[r]) <= Capacity
  BY DEF TypeOK
<1>2. CASE Closed(q)
  <2>1. UNCHANGED <<queue, early>> /\ pc[q] # "joining"
    BY <1>2 DEF Push, Closed
  <2> QED
    BY <1>1, <1>2, <2>1 DEF Pushed, Coming
<1>3. CASE ~Closed(q)
  <2>1. /\ Len(queue[q]) < Capacity /\ queue' = [queue EXCEPT ![q] = Append(@, msg)]
        /\ early' = IF pc[q] = "joining" /\ p # q THEN [early EXCEPT ![q] = @ \cup {p}] ELSE early
    BY <1>3 DEF Push
  <2>2. PICK s \in Seq(Message) : s = queue[q]
    BY <1>1
  <2>3. /\ Append(s, msg) \in Seq(Message) /\ Len(Append(s, msg)) = Len(s) + 1 /\ Len(s) \in Nat
        /\ \A i \in 1..Len(s) : Append(s, msg)[i] = s[i]
        /\ Append(s, msg)[Len(s) + 1] = msg
    BY AppendProperties
  <2>4. Capacity \in Nat
    BY SignalingAssumption
  <2>5. queue'[q] = Append(s, msg) /\ Len(queue'[q]) <= Capacity
    BY <1>1, <2>1, <2>2, <2>3, <2>4
  <2>6. queue' \in [Peers -> Seq(Message)] /\ \A r \in Peers : Len(queue'[r]) <= Capacity
    BY <1>1, <2>1, <2>2, <2>3, <2>5
  <2>7. /\ early' \in [Peers -> SUBSET Peers] /\ early[q] \subseteq early'[q]
        /\ \A r \in Peers : r # q => queue'[r] = queue[r] /\ early'[r] = early[r]
        /\ pc[q] = "joining" /\ p # q => p \in early'[q]
    BY <1>1, <2>1
  <2>8. /\ \A m \in Coming(q)' : m \in Coming(q) \/ m = msg
        /\ Coming(q) \subseteq Coming(q)' /\ msg \in Coming(q)'
    <3>1. DOMAIN s = 1..Len(s) /\ DOMAIN Append(s, msg) = 1..(Len(s) + 1)
      BY <2>3, LenProperties
    <3>2. \A i \in 1..(Len(s) + 1) : i \in 1..Len(s) \/ i = Len(s) + 1
      BY <2>3
    <3>3. Len(s) + 1 \in 1..(Len(s) + 1) /\ 1..Len(s) \subseteq 1..(Len(s) + 1)
      BY <2>3
    <3>4. Coming(q) = {s[i] : i \in 1..Len(s)}
          /\ Coming(q)' = {Append(s, msg)[i] : i \in 1..(Len(s) + 1)}
      BY <2>2, <2>5, <3>1 DEF Coming
    <3> QED
      BY <2>3, <3>2, <3>3, <3>4
  <2> QED
    BY <1>3, <2>2, <2>5, <2>6, <2>7, <2>8 DEF Pushed
<1> QED
  BY <1>2, <1>3

\* What is left after the first message was taken.
LEMMA TakeFirst ==
  ASSUME NEW s \in Seq(Message), s # <<>>
  PROVE  /\ Head(s) \in Message /\ Head(s) = s[1] /\ 1 \in DOMAIN s
         /\ Tail(s) \in Seq(Message) /\ Len(Tail(s)) <= Len(s)
         /\ \A i \in DOMAIN Tail(s) : i + 1 \in DOMAIN s /\ Tail(s)[i] = s[i + 1]
         /\ \A i \in DOMAIN s : i = 1 \/ (i - 1 \in DOMAIN Tail(s) /\ Tail(s)[i - 1] = s[i])
<1>1. Len(s) \in Nat /\ Len(s) # 0
  BY EmptySeq
<1>2. /\ Head(s) \in Message /\ Head(s) = s[1]
      /\ Tail(s) \in Seq(Message) /\ Len(Tail(s)) = Len(s) - 1
      /\ \A i \in 1..Len(Tail(s)) : Tail(s)[i] = s[i + 1]
  BY <1>1, HeadTailProperties
<1>3. DOMAIN s = 1..Len(s) /\ DOMAIN Tail(s) = 1..(Len(s) - 1)
  BY <1>2, LenProperties
<1> QED
  BY <1>1, <1>2, <1>3

-----------------------------------------------------------------------------
(* Types                                                                   *)

\* A message tells of peers and of what they say.
LEMMA ToldKnown ==
  ASSUME NEW known \in SUBSET Known, NEW m \in Message
  PROVE  Told(known, m) \in SUBSET Known
<1>1. CASE m.type = "Hello"
  BY <1>1, MessageForms DEF Told
<1>2. CASE m.type \in {"Join", "Update"}
  BY <1>2, MessageForms DEF Told, Known
<1>3. CASE m.type \in {"Left", "Sdp"}
  BY <1>3 DEF Told
<1> QED
  BY <1>1, <1>2, <1>3, MessageForms

Sends == [Peers -> [to : SUBSET Peers, msg : Message]]

\* One receiver less, and something else to send.
LEMMA SendsKept ==
  ASSUME NEW f \in Sends, NEW p \in Peers, NEW q,
         NEW to \in SUBSET Peers, NEW m \in Message
  PROVE  /\ [f EXCEPT ![p].to = @ \ {q}] \in Sends
         /\ [f EXCEPT ![p] = [to |-> to, msg |-> m]] \in Sends
BY DEF Sends

\* Every step keeps the types, and a group its limit.
LEMMA TypeStep ==
  ASSUME TypeOK, Senders, Next
  PROVE  TypeOK' /\ IsFiniteSet(group)'
<1>1. /\ TypeOK /\ IsFiniteSet(group)
      /\ \A p \in Peers : /\ {Join(p), Left(p), Sdp(p), Hello(p)} \subseteq Message
                          /\ \A i \in Infos : Update(p, i) \in Message
  BY MessagesMade DEF Senders
<1>2. MAX_REQUESTS \in Nat /\ MAX_CONNECTIONS \in Nat /\ Hours \in Nat /\ Capacity \in Nat
  BY SignalingAssumption
<1>3. Cardinality(group) \in Nat
  BY <1>1, FS_CardinalityType
<1>4. UNCHANGED group => Cardinality(group)' <= MAX_CONNECTIONS /\ IsFiniteSet(group)'
  BY <1>1 DEF TypeOK
<1> USE <1>1, <1>2
<1>5. CASE \E p \in Peers : Enter(p)
  <2>1. PICK p \in Peers : Enter(p)
    BY <1>5
  <2>2. IsFiniteSet(group)' /\ Cardinality(group)' <= MAX_CONNECTIONS
    <3>1. /\ IsFiniteSet(group \cup {p})
          /\ Cardinality(group \cup {p}) = IF p \in group THEN Cardinality(group) ELSE Cardinality(group) + 1
      BY FS_AddElement
    <3>2. group' = group \cup {p} /\ Cardinality(group) < MAX_CONNECTIONS
      BY <2>1 DEF Enter
    <3>3. Cardinality(group)' = Cardinality(group \cup {p}) /\ IsFiniteSet(group)'
      BY <3>1, <3>2
    <3> QED
      BY <1>3, <3>1, <3>2, <3>3
  <2>3. count' \in 0..MAX_REQUESTS
    BY <2>1 DEF Enter, TypeOK
  <2>4. snapshot' \in [Peers -> SUBSET Known] /\ group' \in SUBSET Peers
    BY <2>1 DEF Enter, TypeOK, Known
  <2>5. sending' \in [Peers -> [to : SUBSET Peers, msg : Message]]
    BY <2>1 DEF Enter, TypeOK
  <2>6. pc' \in [Peers -> {"out", "refused", "joining", "online", "closing", "leaving", "gone"}]
    BY <2>1 DEF Enter, TypeOK
  <2>7. UNCHANGED <<info, hours, reading, relaying, queue, view, early, belated>>
    BY <2>1 DEF Enter, recvTask, history
  <2> QED
    BY <2>2, <2>3, <2>4, <2>5, <2>6, <2>7 DEF TypeOK
<1>6. CASE \E p \in Peers : Refuse(p) \/ Finish(p)
  BY <1>4, <1>6 DEF Refuse, Finish, TypeOK, recvTask, history
<1>7. CASE \E p \in Peers : Greet(p)
  <2>1. PICK p \in Peers : Greet(p)
    BY <1>7
  <2>2. Push(p, p, Hello(p)) /\ UNCHANGED group
    BY <2>1 DEF Greet
  <2>3. /\ queue' \in [Peers -> Seq(Message)] /\ \A r \in Peers : Len(queue'[r]) <= Capacity
        /\ early' \in [Peers -> SUBSET Peers]
    BY <2>2, PushDone
  <2> QED
    BY <1>4, <2>1, <2>2, <2>3 DEF Greet, TypeOK
<1>8. CASE \E p \in Peers : Deliver(p)
  <2>1. PICK p \in Peers : Deliver(p)
    BY <1>8
  <2>2. PICK s \in Seq(Message) : s = queue[p] /\ s # <<>> /\ Len(s) <= Capacity
    BY <2>1 DEF Deliver, TypeOK
  <2>3. Head(s) \in Message /\ Tail(s) \in Seq(Message) /\ Len(Tail(s)) <= Capacity
    BY <2>2, TakeFirst, LenProperties
  <2>4. queue' \in [Peers -> Seq(Message)] /\ \A r \in Peers : Len(queue'[r]) <= Capacity
    BY <2>1, <2>2, <2>3 DEF Deliver, TypeOK
  <2>5. view' \in [Peers -> SUBSET Known]
    BY <2>1, <2>2, <2>3, ToldKnown DEF Deliver, TypeOK
  <2> QED
    BY <1>4, <2>1, <2>4, <2>5 DEF Deliver, TypeOK, recvTask, history
<1>9. CASE \E p \in Peers : Disconnect(p) \/ Throttle(p) \/ DrainFails(p)
  <2>1. PICK p \in Peers : Disconnect(p) \/ Throttle(p) \/ DrainFails(p)
    BY <1>9
  <2>2. Forget(p) /\ UNCHANGED <<group, info, count, hours, sending, relaying>> /\ reading' \subseteq reading
    BY <2>1 DEF Disconnect, Throttle, DrainFails, recvTask
  <2>3. queue' \in [Peers -> Seq(Message)] /\ \A r \in Peers : Len(queue'[r]) <= Capacity
    <3>1. <<>> \in Seq(Message) /\ Len(<<>>) = 0
      BY EmptySeq
    <3> QED
      BY <2>2, <3>1 DEF Forget, TypeOK
  <2>4. pc' \in [Peers -> {"out", "refused", "joining", "online", "closing", "leaving", "gone"}]
    BY <2>2 DEF Forget, TypeOK
  <2> QED
    BY <1>4, <2>2, <2>3, <2>4 DEF Forget, TypeOK
<1>10. CASE \E p \in Peers : Leave(p)
  <2>1. PICK p \in Peers : Leave(p)
    BY <1>10
  <2>2. /\ group' = group \ {p}
        /\ UNCHANGED <<info, count, hours, reading, relaying, snapshot, queue, view, early, belated>>
    BY <2>1 DEF Leave, recvTask, history
  <2>3. IsFiniteSet(group)' /\ Cardinality(group)' <= Cardinality(group) /\ Cardinality(group)' \in Nat
    <3>1. PICK rest \in SUBSET group : rest = group'
      BY <2>2
    <3>2. IsFiniteSet(rest) /\ Cardinality(rest) <= Cardinality(group)
      BY FS_Subset
    <3>3. Cardinality(rest) \in Nat
      BY <3>2, FS_CardinalityType
    <3> QED
      BY <3>1, <3>2, <3>3
  <2>4. sending' \in [Peers -> [to : SUBSET Peers, msg : Message]]
        /\ pc' \in [Peers -> {"out", "refused", "joining", "online", "closing", "leaving", "gone"}]
    BY <2>1 DEF Leave, TypeOK
  <2>5. Cardinality(group)' <= MAX_CONNECTIONS
    BY <1>3, <2>3 DEF TypeOK
  <2> QED
    BY <2>2, <2>3, <2>4, <2>5 DEF TypeOK
<1>11. CASE \E p \in Peers, i \in Infos : UpdateInfo(p, i)
  <2>1. PICK p \in Peers, i \in Infos : UpdateInfo(p, i)
    BY <1>11
  <2>2. relaying' \in [Peers -> [to : SUBSET Peers, msg : Message]] /\ info' \in [Peers -> Infos]
    <3>1. PICK m \in Message, to \in SUBSET Peers : m = Update(p, i) /\ to = group \ {p}
      BY DEF TypeOK
    <3>2. relaying \in Sends /\ info \in [Peers -> Infos]
      BY DEF TypeOK, Sends
    <3>3. [relaying EXCEPT ![p] = [to |-> to, msg |-> m]] \in Sends
      BY <3>2, SendsKept
    <3>4. /\ relaying' = [relaying EXCEPT ![p] = [to |-> to, msg |-> m]] \/ relaying' = relaying
          /\ info' = [info EXCEPT ![p] = i] \/ info' = info
      BY <2>1, <3>1 DEF UpdateInfo
    <3> QED
      BY <3>2, <3>3, <3>4 DEF Sends
  <2>3. count' \in 0..MAX_REQUESTS
    BY <2>1 DEF UpdateInfo, Counted, TypeOK
  <2> QED
    BY <1>4, <2>1, <2>2, <2>3 DEF UpdateInfo, TypeOK, history
<1>14. CASE \E p, q \in Peers : SendSdp(p, q)
  <2>1. PICK p \in Peers, q \in Peers : SendSdp(p, q)
    BY <1>14
  <2>2. relaying' \in [Peers -> [to : SUBSET Peers, msg : Message]]
    <3>1. PICK m \in Message, to \in SUBSET Peers : m = Sdp(p) /\ to = {q} \cap group
      OBVIOUS
    <3> QED
      BY <2>1, <3>1 DEF SendSdp, TypeOK
  <2>3. count' \in 0..MAX_REQUESTS
    BY <2>1 DEF SendSdp, Counted, TypeOK
  <2> QED
    BY <1>4, <2>1, <2>2, <2>3 DEF SendSdp, TypeOK, history
<1>15. CASE \E p \in Peers : Abort(p)
  <2>1. PICK p \in Peers : Abort(p)
    BY <1>15
  <2>2. relaying' \in [Peers -> [to : SUBSET Peers, msg : Message]] /\ reading' \subseteq reading
    <3>1. Nothing(p) \in [to : SUBSET Peers, msg : Message]
      BY DEF Nothing
    <3> QED
      BY <2>1, <3>1 DEF Abort, TypeOK
  <2> QED
    BY <1>4, <2>1, <2>2 DEF Abort, TypeOK, history
<1>16. CASE \E p, q \in Peers : Relay(p, q)
  <2>1. PICK p \in Peers, q \in Peers : Relay(p, q)
    BY <1>16
  <2>2. PICK m \in Message : m = relaying[p].msg
    BY DEF TypeOK
  <2>3. Push(p, q, m) /\ UNCHANGED group
    BY <2>1, <2>2 DEF Relay
  <2>4. /\ queue' \in [Peers -> Seq(Message)] /\ \A r \in Peers : Len(queue'[r]) <= Capacity
        /\ early' \in [Peers -> SUBSET Peers]
    BY <2>3, PushDone
  <2>5. relaying' \in [Peers -> [to : SUBSET Peers, msg : Message]]
    <3>1. relaying \in Sends
      BY DEF TypeOK, Sends
    <3> QED
      BY <2>1, <2>2, <3>1, SendsKept DEF Relay, Sends
  <2>6. belated' \in [Peers -> SUBSET Peers]
    BY <2>1 DEF Relay, TypeOK
  <2> QED
    BY <1>4, <2>1, <2>3, <2>4, <2>5, <2>6 DEF Relay, TypeOK
<1>12. CASE \E p, q \in Peers : SendNext(p, q)
  <2>1. PICK p \in Peers, q \in Peers : SendNext(p, q)
    BY <1>12
  <2>2. PICK m \in Message : m = sending[p].msg
    BY DEF TypeOK
  <2>3. Push(p, q, m) /\ UNCHANGED group
    BY <2>1, <2>2 DEF SendNext
  <2>4. /\ queue' \in [Peers -> Seq(Message)] /\ \A r \in Peers : Len(queue'[r]) <= Capacity
        /\ early' \in [Peers -> SUBSET Peers]
    BY <2>3, PushDone
  <2>5. sending' \in [Peers -> [to : SUBSET Peers, msg : Message]]
    <3>1. sending \in Sends
      BY DEF TypeOK, Sends
    <3> QED
      BY <2>1, <2>2, <3>1, SendsKept DEF SendNext, Sends
  <2> QED
    BY <1>4, <2>1, <2>3, <2>4, <2>5 DEF SendNext, TypeOK, recvTask
<1>13. CASE ClearCounts
  BY <1>4, <1>13 DEF ClearCounts, TypeOK, recvTask, history
<1> QED
  BY <1>5, <1>6, <1>7, <1>8, <1>9, <1>10, <1>11, <1>12, <1>13, <1>14, <1>15, <1>16 DEF Next

-----------------------------------------------------------------------------
(* Who sends what                                                          *)

\* Every step keeps the group, the control points and what the handlers send
\* together.
LEMMA SendersStep ==
  ASSUME TypeOK, Senders, Relays, Next
  PROVE  Senders'
<1> DEFINE Apart == \A p \in Peers : (p \in group <=> pc[p] \in InGroup) /\ sending[p].msg.of = p
           Sent(p, q) == q \in sending[p].to =>
             /\ pc[q] \notin Strange /\ p # q
             /\ \/ sending[p].msg = Join(p) /\ pc[p] = "joining"
                \/ sending[p].msg = Left(p) /\ pc[p] = "leaving"
           AllSent == \A p, q \in Peers : Sent(p, q)
<1>1. Apart /\ AllSent /\ IsFiniteSet(group)'
  BY TypeStep DEF Senders
<1>2. /\ group \in SUBSET Peers /\ info \in [Peers -> Infos]
      /\ pc \in [Peers -> {"out", "refused", "joining", "online", "closing", "leaving", "gone"}]
      /\ sending \in [Peers -> [to : SUBSET Peers, msg : Message]]
  BY DEF TypeOK
<1>3. \A p \in Peers : Join(p).of = p /\ Left(p).of = p
  BY MessagesMade
<1>4. SUFFICES Apart' /\ AllSent'
  BY <1>1 DEF Senders
<1>5. CASE \E a \in Peers : Enter(a)
  <2>1. PICK a \in Peers : Enter(a)
    BY <1>5
  <2>2. /\ pc[a] = "out" /\ pc' = [pc EXCEPT ![a] = "joining"] /\ group' = group \cup {a} /\ UNCHANGED info
        /\ sending' = [sending EXCEPT ![a] = [to |-> group, msg |-> Join(a)]]
    BY <2>1 DEF Enter
  <2>3. Apart'
    BY <1>1, <1>2, <1>3, <2>2 DEF InGroup
  <2>4. a \notin group /\ \A q \in group : pc[q] \notin Strange
    BY <1>1, <1>2, <2>2 DEF InGroup, Strange
  <2>5. ASSUME NEW p \in Peers, NEW q \in Peers
        PROVE  Sent(p, q)'
    <3>1. CASE p = a
      BY <1>2, <2>2, <2>4, <3>1 DEF Join, Strange
    <3>2. CASE p # a
      <4>1. Sent(p, q) /\ sending'[p] = sending[p] /\ pc'[p] = pc[p] /\ info'[p] = info[p]
        BY <1>1, <1>2, <2>2, <3>2
      <4>2. pc'[q] = pc[q] \/ pc'[q] = "joining"
        BY <1>2, <2>2
      <4> QED
        BY <4>1, <4>2 DEF Strange, Join, Left
    <3> QED
      BY <3>1, <3>2
  <2> QED
    BY <2>3, <2>5
\* A connection that has nothing to send moves on.
<1>6. ASSUME NEW a \in Peers, NEW at \in {"refused", "online", "closing", "gone"},
             pc' = [pc EXCEPT ![a] = at], UNCHANGED <<group, info, sending>>,
             pc[a] \in InGroup <=> at \in InGroup, at = "refused" => pc[a] = "out",
             sending[a].to = {} \/ pc[a] \notin {"joining", "leaving"}
      PROVE  Apart' /\ AllSent'
  <2>1. Apart'
    BY <1>1, <1>2, <1>6
  <2>2. ASSUME NEW p \in Peers, NEW q \in Peers
        PROVE  Sent(p, q)'
    <3>1. CASE p = a
      BY <1>1, <1>6, <3>1
    <3>2. CASE p # a
      <4>1. Sent(p, q) /\ sending'[p] = sending[p] /\ pc'[p] = pc[p] /\ info'[p] = info[p]
        BY <1>1, <1>2, <1>6, <3>2
      <4>2. pc'[q] = pc[q] \/ pc'[q] # "refused" \/ pc[q] = "out"
        BY <1>2, <1>6
      <4>3. pc'[q] # "out" \/ pc[q] = "out"
        BY <1>2, <1>6
      <4> QED
        BY <4>1, <4>2, <4>3 DEF Strange, Join, Left
    <3> QED
      BY <3>1, <3>2
  <2> QED
    BY <2>1, <2>2
<1>7. CASE \E a \in Peers : Refuse(a)
  BY <1>6, <1>7 DEF Refuse, InGroup
<1>8. CASE \E a \in Peers : Greet(a)
  BY <1>6, <1>8 DEF Greet, InGroup
<1>9. CASE \E a \in Peers : Finish(a)
  BY <1>6, <1>9 DEF Finish, InGroup
<1>10. CASE \E a \in Peers : Disconnect(a) \/ Throttle(a) \/ DrainFails(a)
  <2>1. PICK a \in Peers : Disconnect(a) \/ Throttle(a) \/ DrainFails(a)
    BY <1>10
  <2>2. pc[a] = "online" /\ pc' = [pc EXCEPT ![a] = "closing"] /\ UNCHANGED <<group, info, sending>>
    BY <2>1 DEF Disconnect, Throttle, DrainFails, Forget
  <2> QED
    BY <1>6, <2>2 DEF InGroup
<1>11. CASE \E a \in Peers : Leave(a)
  <2>1. PICK a \in Peers : Leave(a)
    BY <1>11
  <2>2. /\ pc[a] = "closing" /\ pc' = [pc EXCEPT ![a] = "leaving"] /\ group' = group \ {a} /\ UNCHANGED info
        /\ sending' = [sending EXCEPT ![a] = [to |-> group \ {a}, msg |-> Left(a)]]
    BY <2>1 DEF Leave
  <2>3. Apart'
    BY <1>1, <1>2, <1>3, <2>2 DEF InGroup
  <2>4. \A q \in group : pc[q] \notin Strange
    BY <1>1, <1>2 DEF InGroup, Strange
  <2>5. ASSUME NEW p \in Peers, NEW q \in Peers
        PROVE  Sent(p, q)'
    <3>1. CASE p = a
      BY <1>2, <2>2, <2>4, <3>1 DEF Left, Strange
    <3>2. CASE p # a
      <4>1. Sent(p, q) /\ sending'[p] = sending[p] /\ pc'[p] = pc[p] /\ info'[p] = info[p]
        BY <1>1, <1>2, <2>2, <3>2
      <4>2. pc'[q] = pc[q] \/ pc'[q] = "leaving"
        BY <1>2, <2>2
      <4> QED
        BY <4>1, <4>2 DEF Strange, Join, Left
    <3> QED
      BY <3>1, <3>2
  <2> QED
    BY <2>3, <2>5
<1>12. CASE \E a \in Peers, i \in Infos : UpdateInfo(a, i)
  <2>1. PICK a \in Peers, i \in Infos : UpdateInfo(a, i)
    BY <1>12
  <2>2. /\ UNCHANGED <<pc, group, sending>> /\ pc[a] \in Started
        /\ \A p \in Peers : p # a => info'[p] = info[p]
    BY <1>2, <2>1 DEF UpdateInfo, Idle, Relays, RelaysOf
  <2>3. \A p \in Peers : pc[p] = "joining" => Join(p)' = Join(p)
    BY <2>2 DEF Join, Started
  <2>4. \A p \in Peers : Left(p)' = Left(p)
    BY DEF Left
  <2> QED
    BY <1>1, <2>2, <2>3, <2>4
<1>13. CASE \E a, b \in Peers : SendNext(a, b)
  <2>1. PICK a \in Peers, b \in Peers : SendNext(a, b)
    BY <1>13
  <2>2. sending' = [sending EXCEPT ![a].to = @ \ {b}] /\ UNCHANGED <<pc, group, info>>
    BY <2>1 DEF SendNext
  <2>3. \A p \in Peers : sending'[p].msg = sending[p].msg /\ sending'[p].to \subseteq sending[p].to
    BY <1>2, <2>2
  <2>4. Apart'
    BY <1>1, <2>2, <2>3
  <2>5. ASSUME NEW p \in Peers, NEW q \in Peers
        PROVE  Sent(p, q)'
    <3>1. Sent(p, q)
      BY <1>1
    <3> QED
      BY <2>2, <2>3, <3>1 DEF Join, Left
  <2> QED
    BY <2>4, <2>5
<1>14. CASE \/ ClearCounts
            \/ \E a \in Peers : Deliver(a) \/ Abort(a) \/ \E b \in Peers : SendSdp(a, b) \/ Relay(a, b)
  <2>1. UNCHANGED <<sending, pc, group, info>>
    BY <1>14 DEF Deliver, ClearCounts, Abort, SendSdp, Relay
  <2> QED
    BY <1>1, <2>1 DEF Join, Left
<1> QED
  BY <1>5, <1>7, <1>8, <1>9, <1>10, <1>11, <1>12, <1>13, <1>14 DEF Next

\* A connection that has entered the group never gets back, nor does one that
\* has left it or whose reading task was started.
Onward ==
  \A q \in Peers : /\ pc[q] \notin Strange => pc'[q] \notin Strange
                   /\ pc[q] \in Started => pc'[q] \in Started
                   /\ pc[q] \in {"leaving", "gone"} => pc'[q] \in {"leaving", "gone"}

\* Every step moves the connections onward.
LEMMA OnwardStep ==
  ASSUME TypeOK, Next
  PROVE  Onward
<1> USE DEF Onward, Strange, Started, TypeOK
<1>1. UNCHANGED pc => Onward
  OBVIOUS
<1>2. ASSUME NEW a \in Peers, Enter(a) \/ Refuse(a) \/ Greet(a)
      PROVE  Onward
  BY <1>2 DEF Enter, Refuse, Greet
<1>3. ASSUME NEW a \in Peers, Disconnect(a) \/ DrainFails(a) \/ Leave(a) \/ Finish(a) \/ Throttle(a)
      PROVE  Onward
  BY <1>3 DEF Disconnect, DrainFails, Leave, Finish, Throttle, Forget
<1>4. ASSUME NEW a \in Peers, NEW b \in Peers, NEW i \in Infos,
             Deliver(a) \/ Abort(a) \/ UpdateInfo(a, i) \/ SendSdp(a, b) \/ SendNext(a, b) \/ Relay(a, b)
      PROVE  UNCHANGED pc
  BY <1>4 DEF Deliver, Abort, UpdateInfo, SendSdp, SendNext, Relay
<1>5. Infos # {} /\ (ClearCounts => UNCHANGED pc)
  BY SignalingAssumption DEF ClearCounts
<1> QED
  BY <1>1, <1>2, <1>3, <1>4, <1>5 DEF Next

\* A connection whose reading task a step leaves alone.
LEMMA RelaysKept ==
  ASSUME TypeOK, Onward, NEW p \in Peers, RelaysOf(p),
         relaying'[p].msg = relaying[p].msg, relaying'[p].to \subseteq relaying[p].to,
         info'[p] = info[p], p \in reading' => p \in reading, belated'[p] \subseteq belated[p]
  PROVE  RelaysOf(p)'
<1>1. relaying[p].to \in SUBSET Peers /\ belated[p] \in SUBSET Peers
  BY DEF TypeOK
<1>2. Update(p, info[p])' = Update(p, info[p]) /\ Sdp(p)' = Sdp(p)
  BY DEF Update, Sdp
<1> QED
  BY <1>1, <1>2 DEF RelaysOf, Onward

\* Every step keeps what the reading tasks send.
LEMMA RelaysStep ==
  ASSUME TypeOK, Senders, Relays, Next
  PROVE  Relays'
<1> SUFFICES ASSUME NEW p \in Peers
             PROVE  RelaysOf(p)'
  BY DEF Relays
<1>1. RelaysOf(p) /\ Onward
  BY OnwardStep DEF Relays
<1>2. /\ group \in SUBSET Peers /\ info \in [Peers -> Infos] /\ belated \in [Peers -> SUBSET Peers]
      /\ pc \in [Peers -> {"out", "refused", "joining", "online", "closing", "leaving", "gone"}]
      /\ relaying \in [Peers -> [to : SUBSET Peers, msg : Message]]
  BY DEF TypeOK
<1>3. \A q \in group : pc[q] \notin Strange
  BY <1>2 DEF Senders, InGroup, Strange
<1>4. CASE \/ ClearCounts
           \/ \E a \in Peers : \/ Enter(a) \/ Refuse(a) \/ Deliver(a) \/ Leave(a) \/ Finish(a)
                               \/ Disconnect(a) \/ Throttle(a) \/ DrainFails(a)
                               \/ \E b \in Peers : SendNext(a, b)
  <2>1. UNCHANGED <<info, relaying>> /\ reading' \subseteq reading /\ belated'[p] \subseteq belated[p]
    BY <1>2, <1>4 DEF ClearCounts, Enter, Refuse, Deliver, Leave, Finish, Disconnect, Throttle, DrainFails,
                      Forget, SendNext, recvTask, history
  <2> QED
    BY <1>1, <2>1, RelaysKept
<1>5. CASE \E a \in Peers : Greet(a)
  <2>1. PICK a \in Peers : Greet(a)
    BY <1>5
  <2>2. UNCHANGED <<info, relaying, belated>> /\ reading' = reading \cup {a} /\ pc'[a] = "online"
    BY <1>2, <2>1 DEF Greet
  <2>3. CASE p \in reading' => p \in reading
    BY <1>1, <2>2, <2>3, RelaysKept
  <2>4. CASE p = a
    <3>1. pc'[p] \in Started
      BY <2>2, <2>4 DEF Started
    <3>2. relaying[p].to \in SUBSET Peers /\ belated[p] \in SUBSET Peers
      BY <1>2
    <3>3. Update(p, info[p])' = Update(p, info[p]) /\ Sdp(p)' = Sdp(p)
      BY <2>2 DEF Update, Sdp
    <3> QED
      BY <1>1, <2>2, <3>1, <3>2, <3>3 DEF RelaysOf, Onward
  <2> QED
    BY <2>2, <2>3, <2>4
<1>6. CASE \E a \in Peers : Abort(a)
  <2>1. PICK a \in Peers : Abort(a)
    BY <1>6
  <2>2. /\ UNCHANGED <<info, belated>> /\ reading' \subseteq reading
        /\ relaying' = [relaying EXCEPT ![a] = Nothing(a)]
    BY <2>1 DEF Abort, history
  <2>3. CASE p = a
    <3>1. relaying'[p].to = {} /\ relaying'[p].msg.of = p
      BY <1>2, <2>2, <2>3, MessagesMade DEF Nothing
    <3>2. belated[p] \in SUBSET Peers
      BY <1>2
    <3> QED
      BY <1>1, <2>2, <3>1, <3>2 DEF RelaysOf, Onward
  <2>4. CASE p # a
    <3>1. relaying'[p] = relaying[p]
      BY <1>2, <2>2, <2>4
    <3> QED
      BY <1>1, <2>2, <3>1, RelaysKept
  <2> QED
    BY <2>3, <2>4
<1>7. CASE \E a \in Peers, i \in Infos : UpdateInfo(a, i)
  <2>1. PICK a \in Peers, i \in Infos : UpdateInfo(a, i)
    BY <1>7
  <2>2. a \in reading /\ UNCHANGED <<pc, reading, belated>>
    BY <2>1 DEF UpdateInfo, Idle, history
  <2>3. CASE p = a /\ p \in group
    <3>1. relaying' = [relaying EXCEPT ![p] = [to |-> group \ {p}, msg |-> Update(p, i)]] /\ info'[p] = i
      BY <1>2, <2>1, <2>3 DEF UpdateInfo
    <3>2. relaying'[p].to = group \ {p} /\ relaying'[p].msg = Update(p, i)
      BY <1>2, <3>1
    <3>3. Update(p, i).of = p /\ Update(p, i) = Update(p, info[p])'
      BY <3>1, MessagesMade DEF Update
    <3>4. pc'[p] \in Started
      BY <1>1, <2>2, <2>3 DEF RelaysOf
    <3>5. belated[p] \in SUBSET Peers
      BY <1>2
    <3> QED
      BY <1>1, <1>3, <2>2, <3>2, <3>3, <3>4, <3>5 DEF RelaysOf
  <2>4. CASE p # a \/ p \notin group
    <3>1. relaying'[p] = relaying[p] /\ info'[p] = info[p]
      BY <1>2, <2>1, <2>4 DEF UpdateInfo
    <3> QED
      BY <1>1, <2>2, <3>1, RelaysKept
  <2> QED
    BY <2>3, <2>4
<1>8. CASE \E a, b \in Peers : SendSdp(a, b)
  <2>1. PICK a \in Peers, b \in Peers : SendSdp(a, b)
    BY <1>8
  <2>2. /\ a \in reading /\ UNCHANGED <<pc, info, reading, belated>>
        /\ relaying' = [relaying EXCEPT ![a] = [to |-> {b} \cap group, msg |-> Sdp(a)]]
    BY <2>1 DEF SendSdp, Idle, history
  <2>3. CASE p = a
    <3>1. relaying'[p].to \subseteq group /\ relaying'[p].msg = Sdp(p) /\ Sdp(p).of = p /\ Sdp(p)' = Sdp(p)
      BY <1>2, <2>2, <2>3, MessagesMade DEF Sdp
    <3>2. pc'[p] \in Started /\ belated[p] \in SUBSET Peers
      BY <1>1, <1>2, <2>2, <2>3 DEF RelaysOf
    <3> QED
      BY <1>1, <1>3, <2>2, <3>1, <3>2 DEF RelaysOf
  <2>4. CASE p # a
    <3>1. relaying'[p] = relaying[p]
      BY <1>2, <2>2, <2>4
    <3> QED
      BY <1>1, <2>2, <3>1, RelaysKept
  <2> QED
    BY <2>3, <2>4
<1>9. CASE \E a, b \in Peers : Relay(a, b)
  <2>1. PICK a \in Peers, b \in Peers : Relay(a, b)
    BY <1>9
  <2>2. /\ UNCHANGED <<pc, info, reading>> /\ relaying' = [relaying EXCEPT ![a].to = @ \ {b}]
        /\ \A q \in belated'[p] : q \in belated[p] \/ (q = a /\ pc[a] \in {"leaving", "gone"})
    BY <1>2, <2>1 DEF Relay, ToldLeft
  <2>3. relaying'[p].msg = relaying[p].msg /\ relaying'[p].to \subseteq relaying[p].to
    BY <1>2, <2>2
  <2>4. Update(p, info[p])' = Update(p, info[p]) /\ Sdp(p)' = Sdp(p)
    BY <2>2 DEF Update, Sdp
  <2> QED
    BY <1>1, <2>2, <2>3, <2>4 DEF RelaysOf
<1> QED
  BY <1>4, <1>5, <1>6, <1>7, <1>8, <1>9 DEF Next

-----------------------------------------------------------------------------
(* What the clients have                                                   *)

\* The messages for a client are from peers.
LEMMA ComingFrom ==
  ASSUME TypeOK, NEW p \in Peers
  PROVE  \A m \in Coming(p) : m \in Message /\ m.of \in Peers
<1>1. queue[p] \in Seq(Message)
  BY DEF TypeOK
<1>2. \A i \in DOMAIN queue[p] : queue[p][i] \in Message
  BY <1>1, LenProperties
<1> QED
  BY <1>2, MessageForms DEF Coming

\* A client that has nothing to do with a step.
LEMMA ClientKept ==
  ASSUME TypeOK, NEW p \in Peers, ClientOK(p), Onward,
         queue'[p] = queue[p], view'[p] = view[p], snapshot'[p] = snapshot[p], early[p] \subseteq early'[p],
         pc'[p] = pc[p] \/ (pc[p] \notin {"joining", "online"} /\ pc'[p] \notin {"joining", "online"})
  PROVE  ClientOK(p)'
<1>1. Coming(p)' = Coming(p)
  BY DEF Coming
<1>2. ASSUME NEW m \in Coming(p)
      PROVE  Arriving(m, p)'
  <2>1. m.of \in Peers /\ Arriving(m, p)
    BY ComingFrom DEF ClientOK
  <2> QED
    BY <2>1 DEF Arriving, Onward, Hello
<1>3. \A k \in view[p] \cup snapshot[p] : k[1] \in Peers
  BY DEF TypeOK, Known
<1> QED
  BY <1>1, <1>2, <1>3 DEF ClientOK, Onward

\* Message m of connection a is sent to b, by its handler or its reading task.
Sent(a, b, m) ==
  /\ Push(a, b, m) /\ UNCHANGED <<group, info, pc, snapshot, view>>
  /\ m.of = a /\ pc[b] \notin Strange
  /\ \/ m.type = "Join" /\ pc[a] = "joining" /\ a # b /\ m.info = info[a]
     \/ m.type = "Update" /\ pc[a] \in Started /\ a # b /\ m.info = info[a]
     \/ m.type = "Left" /\ pc[a] = "leaving" /\ a # b
     \/ m.type = "Sdp" /\ pc[a] \in Started

\* What the two send.
LEMMA WhatIsSent ==
  ASSUME TypeOK, Senders, Relays, NEW a \in Peers, NEW b \in Peers, NEW m \in Message,
         \/ SendNext(a, b) /\ m = sending[a].msg
         \/ Relay(a, b) /\ m = relaying[a].msg
  PROVE  Sent(a, b, m)
<1>1. CASE SendNext(a, b) /\ m = sending[a].msg
  <2>1. b \in sending[a].to /\ Push(a, b, m) /\ UNCHANGED <<group, info, pc, snapshot, view>>
    BY <1>1 DEF SendNext
  <2> QED
    BY <1>1, <2>1, MessagesMade DEF Senders, Sent
<1>2. CASE Relay(a, b) /\ m = relaying[a].msg
  <2>1. b \in relaying[a].to /\ Push(a, b, m) /\ UNCHANGED <<group, info, pc, snapshot, view>>
    BY <1>2 DEF Relay
  <2>2. info[a] \in Infos
    BY DEF TypeOK
  <2> QED
    BY <1>2, <2>1, <2>2, MessagesMade DEF Relays, RelaysOf, Sent
<1> QED
  BY <1>1, <1>2

\* A message that is sent arrives as it should.
LEMMA ClientSent ==
  ASSUME TypeOK, Clients, NEW a \in Peers, NEW b \in Peers, NEW m \in Message, Sent(a, b, m)
  PROVE  ClientOK(b)'
<1>1. Pushed(a, b, m) /\ UNCHANGED <<pc, snapshot, view>>
  BY PushDone DEF Sent
<1>2. /\ pc[b] \notin Strange /\ m.of = a /\ pc[a] \notin Strange
      /\ m.type # "Hello" /\ (m.type = "Left" => pc[a] = "leaving")
      /\ m.type \in {"Join", "Update"} => a # b
      /\ pc[b] = "joining" => a # b
  BY DEF Sent, Strange, Started
<1>3. ClientOK(b)
  BY DEF Clients
<1>4. Closed(b) \/ pc[b] \in {"joining", "online"}
  BY <1>2 DEF TypeOK, Strange, Closed
<1>5. pc[b] \notin {"joining", "online"} => queue'[b] = <<>>
  BY <1>1, <1>3, <1>4 DEF Pushed, ClientOK
<1>6. ASSUME NEW n \in Coming(b)'
      PROVE  Arriving(n, b)'
  <2>1. CASE n \in Coming(b)
    BY <1>1, <1>3, <2>1 DEF ClientOK, Arriving, Hello, Pushed
  <2>2. CASE n = m
    BY <1>1, <1>2, <2>2 DEF Arriving, Pushed
  <2> QED
    BY <1>1, <2>1, <2>2 DEF Pushed
<1> QED
  BY <1>1, <1>3, <1>5, <1>6 DEF ClientOK

\* Nor does a client learn of itself or of strangers.
LEMMA ClientDelivered ==
  ASSUME TypeOK, Clients, NEW a \in Peers, Deliver(a)
  PROVE  ClientOK(a)'
<1>1. PICK s \in Seq(Message) : s = queue[a] /\ s # <<>>
  BY DEF Deliver, TypeOK
<1>2. PICK m \in Message : m = Head(s) /\ m \in Coming(a)
  BY <1>1, TakeFirst DEF Coming
<1>3. /\ pc[a] = "online" /\ queue'[a] = Tail(s) /\ view'[a] = Told(view[a], m)
      /\ UNCHANGED <<pc, snapshot, early>>
  BY <1>1, <1>2 DEF Deliver, TypeOK, history
<1>4. Coming(a)' \subseteq Coming(a)
  <2>1. \A i \in DOMAIN Tail(s) : i + 1 \in DOMAIN s /\ Tail(s)[i] = s[i + 1]
    BY <1>1, TakeFirst
  <2> QED
    BY <1>1, <1>3, <2>1 DEF Coming
<1>5. ClientOK(a) /\ Arriving(m, a)
  BY <1>2 DEF Clients, ClientOK
<1>6. \A k \in Told(view[a], m) : k[1] # a /\ pc[k[1]] \notin Strange
  <2>1. CASE m.type = "Hello"
    <3>1. m.peers = snapshot[a]
      BY <1>5, <2>1, MessagesMade DEF Arriving
    <3> QED
      BY <1>5, <2>1, <3>1 DEF Told, ClientOK
  <2>2. CASE m.type \in {"Join", "Update"}
    BY <1>5, <2>2 DEF Told, ClientOK, Arriving
  <2>3. CASE m.type \in {"Left", "Sdp"}
    BY <1>5, <2>3 DEF Told, ClientOK
  <2> QED
    BY <2>1, <2>2, <2>3, MessageForms
<1> QED
  BY <1>3, <1>4, <1>5, <1>6 DEF ClientOK, Arriving, Hello

\* Every step keeps what the clients have in order.
LEMMA ClientsStep ==
  ASSUME TypeOK, Senders, Relays, Clients, Next
  PROVE  Clients'
<1> SUFFICES ASSUME NEW p \in Peers
             PROVE  ClientOK(p)'
  BY DEF Clients
<1>1. ClientOK(p) /\ Onward
  BY OnwardStep DEF Clients
<1>2. /\ group \in SUBSET Peers /\ early \in [Peers -> SUBSET Peers]
      /\ pc \in [Peers -> {"out", "refused", "joining", "online", "closing", "leaving", "gone"}]
      /\ queue \in [Peers -> Seq(Message)] /\ view \in [Peers -> SUBSET Known]
      /\ snapshot \in [Peers -> SUBSET Known]
  BY DEF TypeOK
<1>3. CASE \E a \in Peers : Enter(a)
  <2>1. PICK a \in Peers : Enter(a)
    BY <1>3
  <2>2. /\ pc[a] = "out" /\ pc' = [pc EXCEPT ![a] = "joining"] /\ UNCHANGED <<queue, view, early>>
        /\ snapshot' = [snapshot EXCEPT ![a] = {<<q, info[q]>> : q \in group}]
    BY <2>1 DEF Enter, history
  <2>3. CASE p = a
    <3>1. queue'[p] = <<>> /\ view'[p] = {} /\ pc'[p] = "joining"
      BY <1>1, <1>2, <2>2, <2>3 DEF ClientOK
    <3>2. Coming(p)' = {}
      BY <3>1, EmptySeq DEF Coming
    <3>3. \A q \in group : q # p /\ pc[q] \notin Strange
      BY <1>2, <2>2, <2>3 DEF Senders, InGroup, Strange
    <3>4. \A k \in snapshot'[p] : k[1] # p /\ pc'[k[1]] \notin Strange
      BY <1>1, <1>2, <2>2, <2>3, <3>3 DEF Onward
    <3> QED
      BY <3>1, <3>2, <3>4 DEF ClientOK
  <2>4. CASE p # a
    BY <1>1, <1>2, <2>2, <2>4, ClientKept
  <2> QED
    BY <2>3, <2>4
<1>4. CASE \E a \in Peers : Refuse(a) \/ Finish(a) \/ Leave(a)
  <2>1. PICK a \in Peers : Refuse(a) \/ Finish(a) \/ Leave(a)
    BY <1>4
  <2>2. /\ UNCHANGED <<queue, view, early, snapshot>>
        /\ pc[a] \notin {"joining", "online"}
        /\ \E at \in {"refused", "gone", "leaving"} : pc' = [pc EXCEPT ![a] = at]
    BY <2>1 DEF Refuse, Finish, Leave, history
  <2> QED
    BY <1>1, <1>2, <2>2, ClientKept
<1>5. CASE \E a \in Peers : Greet(a)
  <2>1. PICK a \in Peers : Greet(a)
    BY <1>5
  <2>2. /\ pc[a] = "joining" /\ pc' = [pc EXCEPT ![a] = "online"] /\ UNCHANGED <<snapshot, view>>
        /\ Pushed(a, a, Hello(a))
    BY <2>1, PushDone, MessagesMade DEF Greet
  <2>3. CASE p = a
    <3>1. pc'[p] = "online" /\ view'[p] = view[p] /\ snapshot'[p] = snapshot[p]
      BY <1>2, <2>2, <2>3
    <3>2. ASSUME NEW m \in Coming(p)'
          PROVE  Arriving(m, p)'
      <4>1. CASE m \in Coming(p)
        <5>1. m.of \in Peers /\ Arriving(m, p)
          BY <1>1, <4>1, ComingFrom DEF ClientOK
        <5> QED
          BY <1>1, <2>2, <2>3, <3>1, <5>1 DEF Arriving, Onward
      <4>2. CASE m = Hello(p)
        BY <3>1, <4>2, MessagesMade DEF Arriving, Hello
      <4> QED
        BY <2>2, <2>3, <4>1, <4>2 DEF Pushed
    <3>3. \A k \in view[p] \cup snapshot[p] : k[1] \in Peers
      BY <1>2 DEF Known
    <3> QED
      BY <1>1, <3>1, <3>2, <3>3 DEF ClientOK, Onward
  <2>4. CASE p # a
    <3>1. queue'[p] = queue[p] /\ early'[p] = early[p] /\ pc'[p] = pc[p]
      BY <1>2, <2>2, <2>4 DEF Pushed
    <3> QED
      BY <1>1, <2>2, <3>1, ClientKept
  <2> QED
    BY <2>3, <2>4
<1>6. CASE \E a \in Peers : Deliver(a)
  <2>1. PICK a \in Peers : Deliver(a)
    BY <1>6
  <2>2. CASE p = a
    BY <2>1, <2>2, ClientDelivered
  <2>3. CASE p # a
    BY <1>1, <1>2, <2>1, <2>3, ClientKept DEF Deliver, history
  <2> QED
    BY <2>2, <2>3
<1>7. CASE \E a \in Peers : Disconnect(a) \/ Throttle(a) \/ DrainFails(a)
  <2>1. PICK a \in Peers : Disconnect(a) \/ Throttle(a) \/ DrainFails(a)
    BY <1>7
  <2>2. pc' = [pc EXCEPT ![a] = "closing"] /\ Forget(a)
    BY <2>1 DEF Disconnect, Throttle, DrainFails, Forget
  <2>3. CASE p = a
    <3>1. queue'[p] = <<>> /\ view'[p] = {} /\ snapshot'[p] = {}
      BY <1>2, <2>2, <2>3 DEF Forget
    <3>2. Coming(p)' = {}
      BY <3>1, EmptySeq DEF Coming
    <3> QED
      BY <3>1, <3>2 DEF ClientOK
  <2>4. CASE p # a
    BY <1>1, <1>2, <2>2, <2>4, ClientKept DEF Forget
  <2> QED
    BY <2>3, <2>4
<1>8. CASE \E a, b \in Peers : SendNext(a, b) \/ Relay(a, b)
  <2>1. PICK a \in Peers, b \in Peers : SendNext(a, b) \/ Relay(a, b)
    BY <1>8
  <2>2. PICK m \in Message :
          \/ SendNext(a, b) /\ m = sending[a].msg
          \/ Relay(a, b) /\ m = relaying[a].msg
    BY <2>1 DEF TypeOK
  <2>3. Sent(a, b, m)
    BY <2>2, WhatIsSent
  <2>4. CASE p = b
    BY <2>3, <2>4, ClientSent
  <2>5. CASE p # b
    <3>1. Pushed(a, b, m) /\ UNCHANGED <<pc, snapshot, view>>
      BY <2>3, PushDone DEF Sent
    <3>2. queue'[p] = queue[p] /\ early'[p] = early[p]
      BY <2>5, <3>1 DEF Pushed
    <3> QED
      BY <1>1, <3>1, <3>2, ClientKept
  <2> QED
    BY <2>4, <2>5
<1>9. CASE \/ ClearCounts
           \/ \E a \in Peers : \/ Abort(a)
                               \/ \E i \in Infos : UpdateInfo(a, i)
                               \/ \E b \in Peers : SendSdp(a, b)
  <2>1. UNCHANGED <<pc, queue, view, snapshot, early>>
    BY <1>9 DEF ClearCounts, Abort, UpdateInfo, SendSdp, history
  <2> QED
    BY <1>1, <2>1, ClientKept
<1> QED
  BY <1>3, <1>4, <1>5, <1>6, <1>7, <1>8, <1>9 DEF Next

-----------------------------------------------------------------------------
(* What a client knows is put right                                        *)

\* What is outdated of q, and its remedy, stay as they are.
SameFacts(q) == /\ \A x : Outdated(q, x)' => Outdated(q, x)
                /\ Remedy(q)' = Remedy(q)

\* A client whose queue and view a step leaves alone.
LEMMA RightKept ==
  ASSUME NEW p \in Peers, NEW q \in Peers, PutRight(p, q), SameFacts(q),
         queue'[p] = queue[p], view'[p] = view[p], snapshot'[p] = snapshot[p],
         ToCome(p, q) => ToCome(p, q)', pc'[p] = "joining" => pc[p] = "joining"
  PROVE  PutRight(p, q)'
<1>1. \A known : Stale(known, q)' => Stale(known, q)
  BY DEF Stale, SameFacts
<1>2. \A m : Misleads(m, q)' => Misleads(m, q)
  BY <1>1 DEF Misleads, SameFacts
<1>3. ASSUME NEW i
      PROVE  Remedied(p, q, i) => Remedied(p, q, i)'
  BY DEF Remedied, IsRemedy, SameFacts
<1> QED
  BY <1>1, <1>2, <1>3 DEF PutRight

\* A client that is told nothing outdated of q.
LEMMA NothingStale ==
  ASSUME NEW p \in Peers, NEW q \in Peers,
         ~Stale(view[p], q)', \A m \in Coming(p)' : ~Misleads(m, q)',
         pc'[p] = "joining" => ~Stale(snapshot[p], q)'
  PROVE  PutRight(p, q)'
BY DEF PutRight, Coming

\* A client that has nothing, or is about to lose it.
LEMMA NothingKnown ==
  ASSUME NEW p \in Peers, NEW q \in Peers, queue'[p] = <<>>, view'[p] = {}, pc'[p] # "joining"
  PROVE  PutRight(p, q)'
<1>1. Coming(p)' = {}
  BY EmptySeq DEF Coming
<1> QED
  BY <1>1, NothingStale DEF Stale

\* A client that was not told of q at all.
LEMMA NotTold ==
  ASSUME NEW p \in Peers, NEW q \in Peers,
         queue'[p] = queue[p], view'[p] = view[p], snapshot'[p] = snapshot[p],
         \A k \in view[p] \cup snapshot[p] : k[1] # q,
         \A m \in Coming(p) : /\ m.type \in {"Join", "Update"} => m.of # q
                              /\ m.type = "Hello" => m.peers = snapshot[p]
  PROVE  PutRight(p, q)'
<1>1. Coming(p)' = Coming(p)
  BY DEF Coming
<1>2. ~Stale(view[p], q)' /\ ~Stale(snapshot[p], q)'
  BY DEF Stale
<1>3. \A m \in Coming(p) : ~Misleads(m, q)'
  BY <1>2 DEF Misleads, Stale
<1> QED
  BY <1>1, <1>2, <1>3, NothingStale

\* The remedy that is to come puts everything right.
LEMMA RemedyToCome ==
  ASSUME NEW p \in Peers, NEW q \in Peers, ToCome(p, q)'
  PROVE  PutRight(p, q)'
BY DEF PutRight, Remedied

\* A client that is sent one more message.
LEMMA RightAppended ==
  ASSUME NEW p \in Peers, NEW q \in Peers, NEW m \in Message, PutRight(p, q), SameFacts(q),
         queue[p] \in Seq(Message), queue'[p] = Append(queue[p], m),
         view'[p] = view[p], snapshot'[p] = snapshot[p],
         ToCome(p, q) => ToCome(p, q)' \/ IsRemedy(m, q),
         Misleads(m, q)' => ToCome(p, q)', pc'[p] = "joining" => pc[p] = "joining"
  PROVE  PutRight(p, q)'
<1>1. PICK s \in Seq(Message) : s = queue[p]
  OBVIOUS
<1>2. /\ Append(s, m) \in Seq(Message) /\ Len(s) \in Nat
      /\ DOMAIN s = 1..Len(s) /\ DOMAIN Append(s, m) = 1..(Len(s) + 1)
      /\ \A i \in 1..Len(s) : Append(s, m)[i] = s[i]
      /\ Append(s, m)[Len(s) + 1] = m
  BY AppendProperties, LenProperties
<1>3. \A known : Stale(known, q)' => Stale(known, q)
  BY DEF Stale, SameFacts
<1>4. \A n : Misleads(n, q)' => Misleads(n, q)
  BY <1>3 DEF Misleads, SameFacts
<1>5. \A n : IsRemedy(n, q)' = IsRemedy(n, q)
  BY DEF IsRemedy, SameFacts
<1>6. ASSUME NEW i \in 0..Len(s), Remedied(p, q, i)
      PROVE  Remedied(p, q, i)'
  <2>1. CASE ToCome(p, q)'
    BY <2>1 DEF Remedied
  <2>2. CASE IsRemedy(m, q)
    <3>1. Len(s) + 1 \in DOMAIN Append(s, m) /\ Len(s) + 1 > i
      BY <1>2
    <3> QED
      BY <1>1, <1>2, <1>5, <2>2, <3>1 DEF Remedied
  <2>3. CASE \E j \in DOMAIN queue[p] : j > i /\ IsRemedy(queue[p][j], q)
    <3>1. PICK j \in DOMAIN s : j > i /\ IsRemedy(s[j], q)
      BY <1>1, <2>3
    <3>2. j \in DOMAIN Append(s, m) /\ Append(s, m)[j] = s[j]
      BY <1>2
    <3> QED
      BY <1>1, <1>5, <3>1, <3>2 DEF Remedied
  <2> QED
    BY <1>6, <2>1, <2>2, <2>3 DEF Remedied
<1>7. 0 \in 0..Len(s)
  BY <1>2
<1>8. ASSUME NEW i \in DOMAIN Append(s, m), Misleads(Append(s, m)[i], q)'
      PROVE  Remedied(p, q, i)'
  <2>1. CASE i = Len(s) + 1
    <3>1. ToCome(p, q)'
      BY <1>2, <1>8, <2>1
    <3> QED
      BY <3>1 DEF Remedied
  <2>2. CASE i \in 1..Len(s)
    <3>1. Misleads(s[i], q)
      BY <1>2, <1>4, <1>8, <2>2
    <3>2. Remedied(p, q, i)
      BY <1>1, <1>2, <2>2, <3>1 DEF PutRight
    <3>3. i \in 0..Len(s)
      BY <1>2, <2>2
    <3> QED
      BY <1>6, <3>2, <3>3
  <2> QED
    BY <1>2, <2>1, <2>2
<1> QED
  BY <1>1, <1>3, <1>6, <1>7, <1>8 DEF PutRight

\* A client that reads a message: what it says, and what was known before.
LEMMA RightDelivered ==
  ASSUME TypeOK, NEW p \in Peers, NEW q \in Peers, PutRight(p, q), Deliver(p)
  PROVE  PutRight(p, q)'
<1>1. PICK s \in Seq(Message) : s = queue[p] /\ s # <<>>
  BY DEF Deliver, TypeOK
<1>2. PICK m \in Message : m = Head(s)
  BY <1>1, TakeFirst
<1>3. /\ pc[p] = "online" /\ queue'[p] = Tail(s) /\ view'[p] = Told(view[p], m)
      /\ UNCHANGED <<group, info, pc, sending, relaying, snapshot, early, belated>>
  BY <1>1, <1>2 DEF Deliver, TypeOK, recvTask, history
<1>4. /\ m = s[1] /\ 1 \in DOMAIN s /\ DOMAIN s \subseteq Nat
      /\ \A i \in DOMAIN Tail(s) : i \in Nat /\ i + 1 \in DOMAIN s /\ Tail(s)[i] = s[i + 1]
      /\ \A i \in DOMAIN s : i = 1 \/ (i - 1 \in DOMAIN Tail(s) /\ Tail(s)[i - 1] = s[i])
  <2>1. DOMAIN s = 1..Len(s)
    BY LenProperties
  <2>2. DOMAIN Tail(s) = 1..Len(Tail(s))
    BY <1>1, TakeFirst, LenProperties
  <2> QED
    BY <1>1, <1>2, <2>1, <2>2, TakeFirst
<1>5. /\ \A x : Outdated(q, x)' = Outdated(q, x)
      /\ Remedy(q)' = Remedy(q) /\ ToCome(p, q)' = ToCome(p, q)
  BY <1>3 DEF Outdated, Remedy, ToCome
<1>6. \A known : Stale(known, q)' = Stale(known, q)
  BY <1>5 DEF Stale
<1>7. \A n : Misleads(n, q)' = Misleads(n, q) /\ IsRemedy(n, q)' = IsRemedy(n, q)
  BY <1>5, <1>6 DEF Misleads, IsRemedy
<1>8. ASSUME NEW i \in Nat, Remedied(p, q, i + 1)
      PROVE  Remedied(p, q, i)'
  <2>1. CASE ToCome(p, q)
    BY <1>5, <2>1 DEF Remedied
  <2>2. CASE \E j \in DOMAIN s : j > i + 1 /\ IsRemedy(s[j], q)
    <3>1. PICK j \in DOMAIN s : j > i + 1 /\ IsRemedy(s[j], q)
      BY <2>2
    <3>2. j - 1 \in DOMAIN Tail(s) /\ Tail(s)[j - 1] = s[j] /\ j - 1 > i
      BY <1>4, <3>1
    <3> QED
      BY <1>3, <1>7, <3>1, <3>2 DEF Remedied
  <2> QED
    BY <1>1, <1>8, <2>1, <2>2 DEF Remedied
<1>9. ASSUME NEW i \in DOMAIN Tail(s), Misleads(Tail(s)[i], q)'
      PROVE  Remedied(p, q, i)'
  <2>1. Misleads(s[i + 1], q) /\ i + 1 \in DOMAIN s /\ i \in Nat
    BY <1>4, <1>7, <1>9
  <2>2. Remedied(p, q, i + 1)
    BY <1>1, <2>1 DEF PutRight
  <2> QED
    BY <1>8, <2>1, <2>2
<1>10. Misleads(m, q) => Remedied(p, q, 0)'
  <2>1. Misleads(m, q) => Remedied(p, q, 1)
    BY <1>1, <1>4 DEF PutRight
  <2>2. 0 + 1 = 1 /\ 0 \in Nat
    OBVIOUS
  <2> QED
    BY <1>8, <2>1, <2>2
<1>11. Stale(view[p], q) /\ ~IsRemedy(m, q) => Remedied(p, q, 0)'
  <2> SUFFICES ASSUME Stale(view[p], q), ~IsRemedy(m, q)
               PROVE  Remedied(p, q, 0)'
    OBVIOUS
  <2>1. Remedied(p, q, 0)
    BY DEF PutRight
  <2>2. CASE ToCome(p, q)
    BY <1>5, <2>2 DEF Remedied
  <2>3. CASE \E j \in DOMAIN s : j > 0 /\ IsRemedy(s[j], q)
    <3>1. PICK j \in DOMAIN s : j > 0 /\ IsRemedy(s[j], q)
      BY <2>3
    <3>2. j # 1
      BY <1>4, <3>1
    <3>3. j - 1 \in DOMAIN Tail(s) /\ Tail(s)[j - 1] = s[j] /\ j - 1 > 0
      BY <1>4, <3>1, <3>2
    <3> QED
      BY <1>3, <1>7, <3>1, <3>3 DEF Remedied
  <2> QED
    BY <1>1, <2>1, <2>2, <2>3 DEF Remedied
<1>12. Stale(Told(view[p], m), q) => Misleads(m, q) \/ (Stale(view[p], q) /\ ~IsRemedy(m, q))
  <2> SUFFICES ASSUME NEW k \in Told(view[p], m), k[1] = q, Outdated(q, k[2])
               PROVE  Misleads(m, q) \/ (Stale(view[p], q) /\ ~IsRemedy(m, q))
    BY DEF Stale
  <2>1. Remedy(q) \in {"Update", "Left"}
    BY DEF Remedy
  <2>2. CASE m.type = "Hello"
    <3>1. k \in view[p] \/ k \in m.peers
      BY <2>2 DEF Told
    <3> QED
      BY <2>1, <2>2, <3>1 DEF Misleads, Stale, IsRemedy
  <2>3. CASE m.type \in {"Join", "Update"}
    <3>1. (k \in view[p] /\ m.of # q) \/ k = <<m.of, m.info>>
      BY <2>3 DEF Told
    <3> QED
      BY <2>3, <3>1 DEF Misleads, Stale, IsRemedy
  <2>4. CASE m.type = "Left"
    <3>1. k \in view[p] /\ m.of # q
      BY <2>4 DEF Told
    <3> QED
      BY <3>1 DEF Stale, IsRemedy
  <2>5. CASE m.type = "Sdp"
    <3>1. k \in view[p]
      BY <2>5 DEF Told
    <3> QED
      BY <2>1, <2>5, <3>1 DEF Stale, IsRemedy
  <2> QED
    BY <2>2, <2>3, <2>4, <2>5, MessageForms
<1>13. Stale(view[p], q)' => Remedied(p, q, 0)'
  <2>1. Stale(view[p], q)' => Stale(Told(view[p], m), q)
    BY <1>3, <1>5 DEF Stale
  <2> QED
    BY <1>10, <1>11, <1>12, <2>1
<1> QED
  BY <1>3, <1>9, <1>13 DEF PutRight

\* Every step keeps what the clients know right, or brings the remedy.
LEMMA RightStep ==
  ASSUME TypeOK, Senders, Relays, Clients, AllPutRight, Next
  PROVE  AllPutRight'
<1> SUFFICES ASSUME NEW p \in Peers, NEW q \in Peers
             PROVE  PutRight(p, q)'
  BY DEF AllPutRight
<1>1. PutRight(p, q) /\ ClientOK(p)
  BY DEF AllPutRight, Clients
<1>2. /\ group \in SUBSET Peers /\ early \in [Peers -> SUBSET Peers] /\ info \in [Peers -> Infos]
      /\ pc \in [Peers -> {"out", "refused", "joining", "online", "closing", "leaving", "gone"}]
      /\ queue \in [Peers -> Seq(Message)] /\ view \in [Peers -> SUBSET Known]
      /\ snapshot \in [Peers -> SUBSET Known]
      /\ sending \in [Peers -> [to : SUBSET Peers, msg : Message]]
      /\ relaying \in [Peers -> [to : SUBSET Peers, msg : Message]]
      /\ belated \in [Peers -> SUBSET Peers]
  BY DEF TypeOK
<1>3. \A r \in Peers : r \in group <=> pc[r] \in InGroup
  BY DEF Senders
<1>4. UNCHANGED <<group, info>> /\ (pc[q] = "closing" => pc'[q] = "closing") => SameFacts(q)
  BY DEF SameFacts, Outdated, Remedy
<1>5. /\ UNCHANGED <<group, sending, relaying>> /\ early[p] \subseteq early'[p]
      /\ belated[p] \subseteq belated'[p] /\ ToCome(p, q)
      => ToCome(p, q)'
  BY DEF ToCome, Remedy
<1>6. p \notin group /\ pc'[p] # "joining" /\ queue'[p] = queue[p] /\ view'[p] = view[p] => PutRight(p, q)'
  BY <1>1, <1>3, NothingKnown DEF InGroup, ClientOK
\* Nothing of q is known to p as long as q is p itself or has not entered.
<1>7. ASSUME q = p \/ pc[q] \in Strange
      PROVE  /\ \A k \in view[p] \cup snapshot[p] : k[1] # q
             /\ \A m \in Coming(p) : /\ m.type \in {"Join", "Update"} => m.of # q
                                     /\ m.type = "Hello" => m.peers = snapshot[p]
  <2>1. \A k \in view[p] \cup snapshot[p] : k[1] # q
    BY <1>1, <1>7 DEF ClientOK
  <2>2. ASSUME NEW m \in Coming(p)
        PROVE  /\ m.type \in {"Join", "Update"} => m.of # q
               /\ m.type = "Hello" => m.peers = snapshot[p]
    BY <1>1, <1>7, MessagesMade DEF ClientOK, Arriving
  <2> QED
    BY <2>1, <2>2
<1>8. CASE \E a \in Peers : Enter(a)
  <2>1. PICK a \in Peers : Enter(a)
    BY <1>8
  <2>2. /\ pc[a] = "out" /\ pc' = [pc EXCEPT ![a] = "joining"]
        /\ UNCHANGED <<queue, view, relaying, early, belated, info>>
        /\ group' = group \cup {a}
        /\ snapshot' = [snapshot EXCEPT ![a] = {<<r, info[r]>> : r \in group}]
        /\ sending' = [sending EXCEPT ![a] = [to |-> group, msg |-> Join(a)]]
    BY <2>1 DEF Enter, recvTask, history
  <2>3. CASE p = a
    <3>1. queue'[p] = <<>> /\ view'[p] = {}
      BY <1>1, <2>2, <2>3 DEF ClientOK
    <3>2. Coming(p)' = {}
      BY <3>1, EmptySeq DEF Coming
    <3>3. snapshot'[p] = {<<r, info[r]>> : r \in group}
      BY <1>2, <2>2, <2>3
    <3>4. ~Stale(snapshot[p], q)'
      BY <2>2, <3>3 DEF Stale, Outdated
    <3> QED
      BY <3>1, <3>2, <3>4, NothingStale DEF Stale
  <2>4. CASE p # a /\ q = a
    <3>1. snapshot'[p] = snapshot[p]
      BY <1>2, <2>2, <2>4
    <3> QED
      BY <1>7, <2>2, <2>4, <3>1, NotTold DEF Strange
  <2>5. CASE p # a /\ q # a
    <3>1. pc'[p] = pc[p] /\ pc'[q] = pc[q] /\ snapshot'[p] = snapshot[p] /\ sending'[q] = sending[q]
      BY <1>2, <2>2, <2>5
    <3>2. SameFacts(q) /\ (ToCome(p, q) => ToCome(p, q)')
      BY <2>2, <2>5, <3>1 DEF SameFacts, Outdated, Remedy, ToCome
    <3> QED
      BY <1>1, <2>2, <3>1, <3>2, RightKept
  <2> QED
    BY <2>3, <2>4, <2>5
<1>9. CASE \E a \in Peers : Refuse(a) \/ Finish(a)
  <2>1. PICK a \in Peers : Refuse(a) \/ Finish(a)
    BY <1>9
  <2>2. /\ UNCHANGED <<group, info, sending, relaying, queue, view, early, belated, snapshot>>
        /\ pc[a] # "closing" /\ \E at \in {"refused", "gone"} : pc' = [pc EXCEPT ![a] = at]
    BY <2>1 DEF Refuse, Finish, recvTask, history
  <2>3. (pc[q] = "closing" => pc'[q] = "closing") /\ (pc'[p] = "joining" => pc[p] = "joining")
    BY <1>2, <2>2
  <2> QED
    BY <1>1, <1>4, <1>5, <2>2, <2>3, RightKept
<1>10. CASE \E a \in Peers : Greet(a)
  <2>1. PICK a \in Peers : Greet(a)
    BY <1>10
  <2>2. /\ pc[a] = "joining" /\ pc' = [pc EXCEPT ![a] = "online"]
        /\ UNCHANGED <<group, info, sending, relaying, snapshot, view, belated>>
        /\ Pushed(a, a, Hello(a)) /\ Hello(a) \in Message
    BY <2>1, PushDone, MessagesMade DEF Greet
  <2>3. SameFacts(q) /\ early[p] \subseteq early'[p]
    BY <1>2, <1>4, <2>2 DEF Pushed
  <2>4. CASE p = a
    <3>1. queue'[p] = Append(queue[p], Hello(p)) /\ pc'[p] # "joining"
      BY <1>2, <2>2, <2>4 DEF Pushed, Closed
    <3>2. Misleads(Hello(p), q)' => ToCome(p, q)'
      <4> SUFFICES ASSUME Misleads(Hello(p), q)'
                   PROVE  ToCome(p, q)'
        OBVIOUS
      <4>1. Stale(snapshot[p], q)
        <5>1. Hello(p)' = Hello(p) /\ Hello(p).type = "Hello" /\ Hello(p).peers = snapshot[p]
          BY <2>2, MessagesMade DEF Hello
        <5>2. Stale(Hello(p).peers, q)'
          BY <5>1 DEF Misleads
        <5> QED
          BY <2>2, <2>3, <5>1, <5>2 DEF Stale, SameFacts
      <4>2. Remedied(p, q, 0)
        BY <1>1, <2>2, <2>4, <4>1 DEF PutRight
      <4>3. (\E j \in DOMAIN queue[p] : IsRemedy(queue[p][j], q)) => q \in early[p]
        <5>1. ASSUME NEW j \in DOMAIN queue[p], IsRemedy(queue[p][j], q)
              PROVE  q \in early[p]
          <6>1. Arriving(queue[p][j], p)
            BY <1>1 DEF ClientOK, Coming
          <6> QED
            BY <2>2, <2>4, <5>1, <6>1 DEF Arriving, IsRemedy
        <5> QED
          BY <5>1
      <4>4. ToCome(p, q)
        BY <4>2, <4>3 DEF Remedied, ToCome
      <4> QED
        BY <1>5, <2>2, <2>3, <4>4
    <3>3. PICK m \in Message : m = Hello(p)
      BY <2>2, <2>4
    <3>4. queue'[p] = Append(queue[p], m) /\ (Misleads(m, q)' => ToCome(p, q)')
      <4>1. Hello(p)' = Hello(p)
        BY <2>2 DEF Hello
      <4> QED
        BY <3>1, <3>2, <3>3, <4>1
    <3>5. ToCome(p, q) => ToCome(p, q)'
      BY <1>5, <2>2, <2>3
    <3> QED
      BY <1>1, <1>2, <2>2, <2>3, <3>1, <3>4, <3>5, RightAppended
  <2>5. CASE p # a
    <3>1. queue'[p] = queue[p] /\ pc'[p] = pc[p]
      BY <1>2, <2>2, <2>5 DEF Pushed
    <3> QED
      BY <1>1, <1>5, <2>2, <2>3, <3>1, RightKept
  <2> QED
    BY <2>4, <2>5
<1>11. CASE \E a \in Peers : Deliver(a)
  <2>1. PICK a \in Peers : Deliver(a)
    BY <1>11
  <2>2. CASE p = a
    BY <1>1, <2>1, <2>2, RightDelivered
  <2>3. CASE p # a
    <3>1. /\ queue'[p] = queue[p] /\ view'[p] = view[p]
          /\ UNCHANGED <<group, info, pc, sending, relaying, snapshot, early, belated>>
      BY <1>2, <2>1, <2>3 DEF Deliver, recvTask, history
    <3> QED
      BY <1>1, <1>4, <1>5, <3>1, RightKept
  <2> QED
    BY <2>2, <2>3
<1>12. CASE \E a \in Peers : Disconnect(a) \/ Throttle(a) \/ DrainFails(a)
  <2>1. PICK a \in Peers : Disconnect(a) \/ Throttle(a) \/ DrainFails(a)
    BY <1>12
  <2>2. /\ pc[a] = "online" /\ pc' = [pc EXCEPT ![a] = "closing"] /\ Forget(a)
        /\ UNCHANGED <<group, info, sending, relaying>>
    BY <2>1 DEF Disconnect, Throttle, DrainFails, Forget, recvTask
  <2>3. CASE p = a
    <3>1. queue'[p] = <<>> /\ view'[p] = {} /\ pc'[p] # "joining"
      BY <1>2, <2>2, <2>3 DEF Forget
    <3> QED
      BY <3>1, NothingKnown
  <2>4. CASE p # a
    <3>1. /\ queue'[p] = queue[p] /\ view'[p] = view[p] /\ snapshot'[p] = snapshot[p]
          /\ early'[p] = early[p] /\ belated'[p] = belated[p] /\ pc'[p] = pc[p]
      BY <1>2, <2>2, <2>4 DEF Forget
    <3>2. CASE q = a
      <4>1. q \in group' /\ pc'[q] = "closing"
        BY <1>2, <1>3, <2>2, <3>2 DEF InGroup
      <4>2. \A x : ~Outdated(q, x)'
        BY <4>1 DEF Outdated
      <4> QED
        BY <4>2, NothingStale DEF Stale, Misleads
    <3>3. CASE q # a
      <4>1. pc'[q] = pc[q]
        BY <1>2, <2>2, <3>3
      <4>2. SameFacts(q) /\ (ToCome(p, q) => ToCome(p, q)')
        BY <1>4, <1>5, <2>2, <3>1, <4>1
      <4> QED
        BY <1>1, <3>1, <4>2, RightKept
    <3> QED
      BY <3>2, <3>3
  <2> QED
    BY <2>3, <2>4
<1>13. CASE \E a \in Peers : Leave(a)
  <2>1. PICK a \in Peers : Leave(a)
    BY <1>13
  <2>2. /\ pc[a] = "closing" /\ pc' = [pc EXCEPT ![a] = "leaving"] /\ group' = group \ {a}
        /\ UNCHANGED <<info, relaying, snapshot, queue, view, early, belated>>
        /\ sending' = [sending EXCEPT ![a] = [to |-> group \ {a}, msg |-> Left(a)]]
    BY <2>1 DEF Leave, recvTask, history
  <2>3. CASE p = a
    <3>1. queue'[p] = <<>> /\ view'[p] = {} /\ pc'[p] # "joining"
      BY <1>1, <1>2, <2>2, <2>3 DEF ClientOK
    <3> QED
      BY <3>1, NothingKnown
  <2>4. CASE p # a /\ q = a
    <3>1. CASE p \in group
      <4>1. sending'[q] = [to |-> group \ {q}, msg |-> Left(q)] /\ q \notin group'
        BY <1>2, <2>2, <2>4
      <4>2. ToCome(p, q)'
        BY <2>4, <3>1, <4>1 DEF ToCome, Remedy, Left
      <4> QED
        BY <4>2, RemedyToCome
    <3>2. CASE p \notin group
      <4>1. pc'[p] # "joining"
        BY <1>2, <1>3, <2>2, <2>4, <3>2 DEF InGroup
      <4> QED
        BY <1>6, <2>2, <3>2, <4>1
    <3> QED
      BY <3>1, <3>2
  <2>5. CASE p # a /\ q # a
    <3>1. pc'[p] = pc[p] /\ pc'[q] = pc[q] /\ sending'[q] = sending[q] /\ (q \in group' <=> q \in group)
      BY <1>2, <2>2, <2>5
    <3>2. SameFacts(q) /\ (ToCome(p, q) => ToCome(p, q)')
      BY <2>2, <3>1 DEF SameFacts, Outdated, Remedy, ToCome
    <3> QED
      BY <1>1, <2>2, <3>1, <3>2, RightKept
  <2> QED
    BY <2>3, <2>4, <2>5
<1>14. CASE \E a \in Peers, i \in Infos : UpdateInfo(a, i)
  <2>1. PICK a \in Peers, i \in Infos : UpdateInfo(a, i)
    BY <1>14
  <2>2. UNCHANGED <<pc, group, sending, snapshot, queue, view, early, belated>>
    BY <2>1 DEF UpdateInfo, history
  <2>3. CASE q # a \/ a \notin group
    <3>1. info'[q] = info[q] /\ relaying'[q] = relaying[q]
      BY <1>2, <2>1, <2>3 DEF UpdateInfo
    <3>2. SameFacts(q) /\ (ToCome(p, q) => ToCome(p, q)')
      BY <2>2, <3>1 DEF SameFacts, Outdated, Remedy, ToCome
    <3> QED
      BY <1>1, <2>2, <3>2, RightKept
  <2>4. CASE q = a /\ p = q
    BY <1>7, <2>2, <2>4, NotTold
  <2>5. CASE q = a /\ q \in group /\ p # q /\ p \in group
    <3>1. relaying'[q] = [to |-> group \ {q}, msg |-> Update(q, i)] /\ q \in group'
      BY <1>2, <2>1, <2>2, <2>5 DEF UpdateInfo
    <3>2. ToCome(p, q)'
      BY <2>5, <3>1 DEF ToCome, Remedy, Update
    <3> QED
      BY <3>2, RemedyToCome
  <2>6. CASE p \notin group
    <3>1. pc'[p] # "joining"
      BY <1>3, <2>2, <2>6 DEF InGroup
    <3> QED
      BY <1>6, <2>2, <2>6, <3>1
  <2> QED
    BY <2>3, <2>4, <2>5, <2>6
<1>15. CASE \E a, b \in Peers : SendSdp(a, b)
  <2>1. PICK a \in Peers, b \in Peers : SendSdp(a, b)
    BY <1>15
  <2>2. /\ relaying[a].to = {} /\ UNCHANGED <<group, info, pc, sending, snapshot, queue, view, early, belated>>
        /\ relaying' = [relaying EXCEPT ![a] = [to |-> {b} \cap group, msg |-> Sdp(a)]]
    BY <2>1 DEF SendSdp, Idle, history
  <2>3. q # a => relaying'[q] = relaying[q]
    BY <1>2, <2>2
  <2>4. SameFacts(q) /\ (ToCome(p, q) => ToCome(p, q)')
    BY <1>4, <2>2, <2>3 DEF ToCome, Remedy
  <2> QED
    BY <1>1, <2>2, <2>4, RightKept
\* The update that an aborted reading task still has to send is not missed: its
\* handler has not left, and will say Left, or has, and the Update is no remedy.
<1>16. CASE \E a \in Peers : Abort(a)
  <2>1. PICK a \in Peers : Abort(a)
    BY <1>16
  <2>2. /\ UNCHANGED <<group, info, pc, sending, snapshot, queue, view, early, belated>>
        /\ relaying' = [relaying EXCEPT ![a] = Nothing(a)] /\ a \in reading /\ pc[a] # "online"
    BY <2>1 DEF Abort, history
  <2>3. SameFacts(q)
    BY <1>4, <2>2
  <2>4. CASE q # a
    <3>1. relaying'[q] = relaying[q]
      BY <1>2, <2>2, <2>4
    <3>2. ToCome(p, q) => ToCome(p, q)'
      BY <2>2, <3>1 DEF ToCome, Remedy
    <3> QED
      BY <1>1, <2>2, <2>3, <3>2, RightKept
  <2>5. CASE q = a /\ q \in group
    <3>1. pc[q] = "closing"
      BY <1>3, <2>2, <2>5 DEF Relays, RelaysOf, InGroup, Started
    <3>2. \A x : ~Outdated(q, x)'
      BY <2>2, <2>5, <3>1 DEF Outdated
    <3> QED
      BY <3>2, NothingStale DEF Stale, Misleads
  <2>6. CASE q = a /\ q \notin group
    <3>1. p \in relaying[q].to => relaying[q].msg.type \in {"Update", "Sdp"}
      BY MessagesMade DEF Relays, RelaysOf
    <3>2. ToCome(p, q) => ToCome(p, q)'
      BY <2>2, <2>6, <3>1 DEF ToCome, Remedy
    <3> QED
      BY <1>1, <2>2, <2>3, <3>2, RightKept
  <2> QED
    BY <2>4, <2>5, <2>6
<1>17. CASE \E a, b \in Peers : SendNext(a, b) \/ Relay(a, b)
  <2>1. PICK a \in Peers, b \in Peers : SendNext(a, b) \/ Relay(a, b)
    BY <1>17
  <2>2. PICK m \in Message :
          \/ SendNext(a, b) /\ m = sending[a].msg
          \/ Relay(a, b) /\ m = relaying[a].msg
    BY <1>2, <2>1
  <2>3. Sent(a, b, m)
    BY <2>2, WhatIsSent
  <2>4. Pushed(a, b, m) /\ UNCHANGED <<group, info, pc, snapshot, view>>
    BY <2>3, PushDone DEF Sent
  <2>5. /\ SameFacts(q) /\ early[p] \subseteq early'[p]
    BY <1>2, <1>4, <2>4 DEF Pushed
  <2>6. belated[p] \subseteq belated'[p]
    <3>1. belated' = belated \/ belated' = [belated EXCEPT ![b] = @ \cup {a}]
      BY <2>1 DEF SendNext, Relay
    <3> QED
      BY <1>2, <3>1
\* Only what is sent to b is no longer to come.
  <2>7. ToCome(p, q) => ToCome(p, q)' \/ (a = q /\ b = p /\ m.type = Remedy(q))
    <3>1. /\ sending'[q].msg = sending[q].msg /\ relaying'[q].msg = relaying[q].msg
          /\ p \in sending[q].to => p \in sending'[q].to \/ (a = q /\ b = p /\ m = sending[q].msg)
          /\ p \in relaying[q].to => p \in relaying'[q].to \/ (a = q /\ b = p /\ m = relaying[q].msg)
      <4>1. CASE SendNext(a, b) /\ m = sending[a].msg
        BY <1>2, <4>1 DEF SendNext, recvTask
      <4>2. CASE Relay(a, b) /\ m = relaying[a].msg
        BY <1>2, <4>2 DEF Relay
      <4> QED
        BY <2>2, <4>1, <4>2
    <3>2. Remedy(q)' = Remedy(q)
      BY <2>5 DEF SameFacts
    <3> QED
      BY <2>5, <2>6, <3>1, <3>2 DEF ToCome
  <2>8. CASE p # b
    <3>1. queue'[p] = queue[p]
      BY <2>4, <2>8 DEF Pushed
    <3> QED
      BY <1>1, <2>4, <2>5, <2>7, <2>8, <3>1, RightKept
  <2>9. CASE p = b /\ Closed(p)
    <3>1. queue'[p] = <<>> /\ view'[p] = {} /\ pc'[p] # "joining"
      BY <1>1, <2>4, <2>9 DEF Pushed, Closed, ClientOK
    <3> QED
      BY <3>1, NothingKnown
  <2>10. CASE p = b /\ ~Closed(p)
    <3>1. queue'[p] = Append(queue[p], m)
      BY <2>4, <2>10 DEF Pushed
    <3>2. Misleads(m, q)' => ToCome(p, q)'
      <4> SUFFICES ASSUME Misleads(m, q)'
                   PROVE  ToCome(p, q)'
        OBVIOUS
      <4>1. m.type \in {"Join", "Update"} /\ m.of = q /\ Outdated(q, m.info)
        BY <2>3, <2>5 DEF Misleads, SameFacts, Sent
      <4>2. q = a /\ m.info = info[q] /\ q \notin group
        BY <2>3, <4>1 DEF Sent, Outdated
      <4>3. m.type = "Update" /\ pc[q] \in {"leaving", "gone"}
        BY <1>2, <1>3, <2>3, <4>1, <4>2 DEF Sent, InGroup, Started
      <4>4. Relay(q, p) /\ relaying[q].msg = m
        <5>1. sending[a].msg = m /\ SendNext(a, b) => m.type \in {"Join", "Left"}
          BY MessagesMade DEF SendNext, Senders
        <5> QED
          BY <2>2, <2>10, <4>2, <4>3, <5>1
      <4>5. CASE p \in sending[q].to
        <5>1. sending[q].msg.type = "Left"
          BY <4>3, <4>5, MessagesMade DEF Senders
        <5> QED
          BY <2>4, <4>2, <4>4, <4>5, <5>1 DEF Relay, ToCome, Remedy
      <4>6. CASE p \notin sending[q].to
        <5>1. q \in belated'[p]
          BY <1>2, <2>10, <4>3, <4>4, <4>6 DEF Relay, ToldLeft
        <5> QED
          BY <5>1 DEF ToCome
      <4> QED
        BY <4>5, <4>6
    <3>3. ToCome(p, q) => ToCome(p, q)' \/ IsRemedy(m, q)
      BY <2>3, <2>7 DEF IsRemedy, Sent
    <3> QED
      BY <1>1, <1>2, <2>4, <2>5, <3>1, <3>2, <3>3, RightAppended
  <2> QED
    BY <2>8, <2>9, <2>10
<1>18. CASE ClearCounts
  <2>1. UNCHANGED <<group, info, pc, sending, relaying, snapshot, queue, view, early, belated>>
    BY <1>18 DEF ClearCounts, recvTask, history
  <2> QED
    BY <1>1, <1>4, <1>5, <2>1, RightKept
<1> QED
  BY <1>8, <1>9, <1>10, <1>11, <1>12, <1>13, <1>14, <1>15, <1>16, <1>17, <1>18 DEF Next

-----------------------------------------------------------------------------
(* Who has heard of whom                                                   *)

\* A client whose queue does not shrink and whose list a step leaves alone.
LEMMA HeardKept ==
  ASSUME NEW p \in Peers, NEW q \in Peers, Heard(p, q), view'[p] = view[p], snapshot'[p] = snapshot[p],
         Coming(p) \subseteq Coming(p)', pc'[p] = pc[p],
         JoinToCome(p, q) => JoinToCome(p, q)' \/ \E m \in Coming(p)' : Introduces(m, q)
  PROVE  Heard(p, q)'
<1>1. \A known : Lists(known, q)' <=> Lists(known, q)
  BY DEF Lists
<1>2. \A m : Introduces(m, q)' <=> Introduces(m, q)
  BY <1>1 DEF Introduces
<1> QED
  BY <1>1, <1>2 DEF Heard

\* A client that reads a message has heard of whoever the message tells it of.
LEMMA HeardDelivered ==
  ASSUME TypeOK, Senders, Clients, NEW p \in Peers, NEW q \in group, p # q, Heard(p, q), Deliver(p)
  PROVE  Heard(p, q)'
<1>1. PICK s \in Seq(Message) : s = queue[p] /\ s # <<>>
  BY DEF Deliver, TypeOK
<1>2. PICK m \in Message : m = Head(s) /\ m = s[1] /\ m \in Coming(p)
  BY <1>1, TakeFirst DEF Coming
<1>3. /\ pc[p] = "online" /\ queue'[p] = Tail(s) /\ view'[p] = Told(view[p], m)
      /\ UNCHANGED <<group, info, pc, sending, snapshot, early>>
  BY <1>1, <1>2 DEF Deliver, TypeOK, history
<1>4. \A n \in Coming(p) : n = m \/ n \in Coming(p)'
  <2>1. \A i \in DOMAIN s : i = 1 \/ (i - 1 \in DOMAIN Tail(s) /\ Tail(s)[i - 1] = s[i])
    BY <1>1, TakeFirst
  <2>2. Coming(p) = {s[i] : i \in DOMAIN s} /\ Coming(p)' = {Tail(s)[i] : i \in DOMAIN Tail(s)}
    BY <1>1, <1>3 DEF Coming
  <2> QED
    BY <1>2, <2>1, <2>2
<1>5. ~(m.type = "Left" /\ m.of = q)
  <2>1. Arriving(m, p) /\ pc[q] \in InGroup
    BY <1>2 DEF Clients, ClientOK, Senders, TypeOK
  <2> QED
    BY <2>1 DEF Arriving, InGroup
<1>6. Lists(view[p], q) \/ Introduces(m, q) => Lists(Told(view[p], m), q)
  <2>1. CASE m.type = "Hello"
    BY <2>1 DEF Lists, Introduces, Told
  <2>2. CASE m.type \in {"Join", "Update"} /\ m.of = q
    <3>1. <<q, m.info>> \in Told(view[p], m)
      BY <2>2 DEF Told
    <3> QED
      BY <3>1 DEF Lists
  <2>3. CASE m.type \in {"Join", "Update", "Left"} /\ m.of # q
    BY <2>3 DEF Lists, Introduces, Told
  <2>4. CASE m.type = "Sdp"
    BY <2>4 DEF Lists, Introduces, Told
  <2> QED
    BY <1>5, <2>1, <2>2, <2>3, <2>4, MessageForms
<1>7. /\ \A known : Lists(known, q)' <=> Lists(known, q)
      /\ JoinToCome(p, q)' <=> JoinToCome(p, q)
  BY <1>3 DEF Lists, JoinToCome
<1>8. \A n : Introduces(n, q)' <=> Introduces(n, q)
  BY <1>7 DEF Introduces
<1>9. Lists(view[p], q)' <=> Lists(Told(view[p], m), q)
  BY <1>3 DEF Lists
<1> QED
  BY <1>3, <1>4, <1>6, <1>7, <1>8, <1>9 DEF Heard

\* Every step keeps the members aware of each other.
LEMMA HeardStep ==
  ASSUME TypeOK, Senders, Relays, Clients, AllHeard, Next
  PROVE  AllHeard'
<1> SUFFICES ASSUME NEW p \in group', NEW q \in group', p # q
             PROVE  Heard(p, q)'
  BY DEF AllHeard
<1>1. /\ group \in SUBSET Peers /\ group' \in SUBSET Peers
      /\ pc \in [Peers -> {"out", "refused", "joining", "online", "closing", "leaving", "gone"}]
      /\ queue \in [Peers -> Seq(Message)] /\ view \in [Peers -> SUBSET Known]
      /\ snapshot \in [Peers -> SUBSET Known]
      /\ sending \in [Peers -> [to : SUBSET Peers, msg : Message]]
  BY TypeStep DEF TypeOK
<1>2. /\ \A r \in Peers : r \in group <=> pc[r] \in InGroup
      /\ p \in group /\ q \in group => Heard(p, q)
  BY DEF Senders, AllHeard
<1>3. p \in Peers /\ q \in Peers
  BY <1>1
<1>4. JoinToCome(p, q) => pc[q] = "joining"
  <2>1. Left(q).type # "Join"
    BY <1>3, MessagesMade
  <2> QED
    BY <1>3, <2>1 DEF JoinToCome, Senders
<1>5. queue'[p] = queue[p] => Coming(p)' = Coming(p)
  BY DEF Coming
<1>6. CASE \E a \in Peers : Enter(a)
  <2>1. PICK a \in Peers : Enter(a)
    BY <1>6
  <2>2. /\ pc[a] = "out" /\ pc' = [pc EXCEPT ![a] = "joining"] /\ UNCHANGED <<queue, view>>
        /\ group' = group \cup {a}
        /\ snapshot' = [snapshot EXCEPT ![a] = {<<r, info[r]>> : r \in group}]
        /\ sending' = [sending EXCEPT ![a] = [to |-> group, msg |-> Join(a)]]
    BY <2>1 DEF Enter
  <2>3. CASE p = a
    <3>1. pc'[p] = "joining" /\ <<q, info[q]>> \in snapshot'[p]
      BY <1>1, <2>2, <2>3
    <3> QED
      BY <3>1 DEF Heard, Lists
  <2>4. CASE q = a
    <3>1. sending'[q] = [to |-> group, msg |-> Join(q)] /\ p \in group
      BY <1>1, <2>2, <2>4
    <3> QED
      BY <3>1 DEF Heard, JoinToCome, Join
  <2>5. CASE p # a /\ q # a
    <3>1. pc'[p] = pc[p] /\ snapshot'[p] = snapshot[p] /\ sending'[q] = sending[q] /\ Heard(p, q)
      BY <1>1, <1>2, <1>3, <2>2, <2>5
    <3> QED
      BY <1>3, <1>5, <2>2, <3>1, HeardKept DEF JoinToCome
  <2> QED
    BY <2>3, <2>4, <2>5
\* In all other steps the two were members before.
<1>7. ASSUME group' \subseteq group
      PROVE  Heard(p, q) /\ pc[p] \in InGroup /\ pc[q] \in InGroup
  BY <1>2, <1>3, <1>7
<1>8. CASE \E a \in Peers : Refuse(a) \/ Finish(a) \/ Leave(a)
  <2>1. PICK a \in Peers : Refuse(a) \/ Finish(a) \/ Leave(a)
    BY <1>8
  <2>2. /\ UNCHANGED <<queue, view, snapshot>> /\ group' \subseteq group
        /\ pc[a] \in {"out", "leaving"} \/ a \notin group'
        /\ \E at \in {"refused", "gone", "leaving"} : pc' = [pc EXCEPT ![a] = at]
        /\ UNCHANGED sending \/ \E x : sending' = [sending EXCEPT ![a] = x]
    BY <2>1 DEF Refuse, Finish, Leave
  <2>3. p # a /\ q # a
    BY <1>7, <2>2 DEF InGroup
  <2>4. pc'[p] = pc[p] /\ sending'[q] = sending[q]
    BY <1>1, <1>3, <2>2, <2>3
  <2> QED
    BY <1>3, <1>5, <1>7, <2>2, <2>4, HeardKept DEF JoinToCome
<1>9. CASE \E a \in Peers : Greet(a)
  <2>1. PICK a \in Peers : Greet(a)
    BY <1>9
  <2>2. PICK m \in Message : m = Hello(a)
    BY <2>1, MessagesMade
  <2>3. /\ pc[a] = "joining" /\ pc' = [pc EXCEPT ![a] = "online"]
        /\ UNCHANGED <<group, sending, snapshot, view>> /\ Pushed(a, a, m)
    BY <2>1, <2>2, PushDone DEF Greet
  <2>4. CASE p = a
    <3>1. /\ m.type = "Hello" /\ m.peers = snapshot[p] /\ m \in Coming(p)' /\ Coming(p) \subseteq Coming(p)'
          /\ view'[p] = view[p]
      BY <2>2, <2>3, <2>4, MessagesMade DEF Pushed, Closed
    <3>2. Lists(snapshot[p], q) => Introduces(m, q)'
      BY <3>1 DEF Introduces, Lists
    <3>3. JoinToCome(p, q) => JoinToCome(p, q)'
      BY <2>3 DEF JoinToCome
    <3>4. /\ Lists(view[p], q) => Lists(view[p], q)'
          /\ \A n : Introduces(n, q) => Introduces(n, q)'
      BY <3>1 DEF Lists, Introduces
    <3> QED
      BY <1>7, <2>3, <2>4, <3>1, <3>2, <3>3, <3>4 DEF Heard
  <2>5. CASE p # a
    <3>1. queue'[p] = queue[p] /\ pc'[p] = pc[p]
      BY <1>1, <1>3, <2>3, <2>5 DEF Pushed
    <3> QED
      BY <1>3, <1>5, <1>7, <2>3, <3>1, HeardKept DEF JoinToCome
  <2> QED
    BY <2>4, <2>5
<1>10. CASE \E a \in Peers : Deliver(a)
  <2>1. PICK a \in Peers : Deliver(a)
    BY <1>10
  <2>2. group' = group
    BY <2>1 DEF Deliver
  <2>3. CASE p = a
    BY <1>3, <1>7, <2>1, <2>2, <2>3, HeardDelivered
  <2>4. CASE p # a
    <3>1. queue'[p] = queue[p] /\ view'[p] = view[p] /\ UNCHANGED <<pc, sending, snapshot>>
      BY <1>1, <1>3, <2>1, <2>4 DEF Deliver
    <3> QED
      BY <1>3, <1>5, <1>7, <2>2, <3>1, HeardKept DEF JoinToCome
  <2> QED
    BY <2>3, <2>4
<1>11. CASE \E a \in Peers : Disconnect(a) \/ Throttle(a) \/ DrainFails(a)
  <2>1. PICK a \in Peers : Disconnect(a) \/ Throttle(a) \/ DrainFails(a)
    BY <1>11
  <2>2. pc' = [pc EXCEPT ![a] = "closing"] /\ Forget(a) /\ UNCHANGED <<group, sending>>
    BY <2>1 DEF Disconnect, Throttle, DrainFails, Forget
  <2>3. CASE p = a
    BY <1>1, <1>3, <2>2, <2>3 DEF Heard
  <2>4. CASE p # a
    <3>1. queue'[p] = queue[p] /\ view'[p] = view[p] /\ snapshot'[p] = snapshot[p] /\ pc'[p] = pc[p]
      BY <1>1, <1>3, <2>2, <2>4 DEF Forget
    <3> QED
      BY <1>3, <1>5, <1>7, <2>2, <3>1, HeardKept DEF JoinToCome
  <2> QED
    BY <2>3, <2>4
<1>12. CASE \/ ClearCounts
            \/ \E a \in Peers : \/ Abort(a)
                                \/ \E i \in Infos : UpdateInfo(a, i)
                                \/ \E b \in Peers : SendSdp(a, b)
  <2>1. UNCHANGED <<group, pc, sending, snapshot, queue, view>>
    BY <1>12 DEF ClearCounts, Abort, UpdateInfo, SendSdp
  <2> QED
    BY <1>3, <1>5, <1>7, <2>1, HeardKept DEF JoinToCome
<1>13. CASE \E a, b \in Peers : SendNext(a, b) \/ Relay(a, b)
  <2>1. PICK a \in Peers, b \in Peers : SendNext(a, b) \/ Relay(a, b)
    BY <1>13
  <2>2. PICK m \in Message :
          \/ SendNext(a, b) /\ m = sending[a].msg
          \/ Relay(a, b) /\ m = relaying[a].msg
    BY <2>1 DEF TypeOK
  <2>3. Sent(a, b, m)
    BY <2>2, WhatIsSent
  <2>4. Pushed(a, b, m) /\ UNCHANGED <<group, pc, snapshot, view>> /\ m.of = a
    BY <2>3, PushDone DEF Sent
  <2>5. Coming(p) \subseteq Coming(p)'
    BY <1>3, <1>5, <2>4 DEF Pushed
  <2>6. CASE pc[p] = "closing"
    BY <2>4, <2>6 DEF Heard
  <2>7. CASE pc[p] # "closing"
    <3>1. ~Closed(p)
      BY <1>7, <2>4, <2>7 DEF Closed, InGroup
    <3>2. /\ sending'[q].msg = sending[q].msg
          /\ p \in sending[q].to => p \in sending'[q].to \/ (a = q /\ b = p /\ m = sending[q].msg)
      <4>1. CASE SendNext(a, b) /\ m = sending[a].msg
        BY <1>1, <1>3, <4>1 DEF SendNext
      <4>2. CASE Relay(a, b)
        BY <4>2 DEF Relay
      <4> QED
        BY <2>2, <4>1, <4>2
    <3>3. a = q /\ b = p => m \in Coming(p)' /\ m.of = q
      BY <2>4, <3>1 DEF Pushed
    <3>4. JoinToCome(p, q) => JoinToCome(p, q)' \/ \E n \in Coming(p)' : Introduces(n, q)
      BY <3>2, <3>3 DEF JoinToCome, Introduces
    <3> QED
      BY <1>3, <1>7, <2>4, <2>5, <3>4, HeardKept
  <2> QED
    BY <2>6, <2>7
<1> QED
  BY <1>6, <1>8, <1>9, <1>10, <1>11, <1>12, <1>13 DEF Next

-----------------------------------------------------------------------------
(* The theorems                                                            *)

\* Nobody is in the group before the first step.
LEMMA InvInit ==
  ASSUME Init
  PROVE  SignalingInv
<1>1. IsFiniteSet({}) /\ Cardinality({}) = 0
  BY FS_EmptySet
<1>2. <<>> \in Seq(Message) /\ Len(<<>>) = 0 /\ DOMAIN <<>> = {}
  BY EmptySeq
<1>3. MAX_CONNECTIONS \in Nat /\ MAX_REQUESTS \in Nat /\ Hours \in Nat /\ Capacity \in Nat
  BY SignalingAssumption
<1>4. \A p \in Peers : Nothing(p) \in [to : SUBSET Peers, msg : Message] /\ Nothing(p).to = {} /\ Nothing(p).msg.of = p
  BY DEF Nothing, Left, Message
<1>5. TypeOK
  BY <1>1, <1>2, <1>3, <1>4 DEF Init, TypeOK
<1>6. Senders
  BY <1>1, <1>4 DEF Init, Senders, InGroup
<1>7. Clients
  <2>1. \A p \in Peers : Coming(p) = {}
    BY <1>2 DEF Init, Coming
  <2> QED
    BY <2>1 DEF Init, Clients, ClientOK
<1>8. AllPutRight
  BY <1>2 DEF Init, AllPutRight, PutRight, Stale
<1>9. AllHeard
  BY DEF Init, AllHeard
<1>10. Relays
  BY <1>2, <1>4 DEF Init, Relays, RelaysOf
<1> QED
  BY <1>5, <1>6, <1>7, <1>8, <1>9, <1>10 DEF SignalingInv

\* Every step keeps the invariant.
LEMMA InvStep ==
  ASSUME SignalingInv, [Next]_vars
  PROVE  SignalingInv'
<1>1. CASE Next
  BY <1>1, TypeStep, SendersStep, RelaysStep, ClientsStep, RightStep, HeardStep DEF SignalingInv
<1>2. CASE UNCHANGED vars
  <2>1. TypeOK'
    BY <1>2 DEF vars, recvTask, history, SignalingInv, TypeOK
  <2>2. Senders'
    BY <1>2 DEF vars, SignalingInv, Senders, Join, Left
  <2>8. Relays'
    BY <1>2 DEF vars, recvTask, history, SignalingInv, Relays, RelaysOf, Update, Sdp
  <2>3. \A p : Coming(p)' = Coming(p)
    BY <1>2 DEF vars, Coming
  <2>4. Clients'
    BY <1>2, <2>3 DEF vars, history, SignalingInv, Clients, ClientOK, Arriving, Hello
  <2>5. \A q, x : Outdated(q, x)' = Outdated(q, x)
    BY <1>2 DEF vars, Outdated
  <2>6. AllPutRight'
    <3>1. ASSUME NEW p \in Peers, NEW q \in Peers
          PROVE  PutRight(p, q)'
      <4>1. SameFacts(q)
        BY <1>2, <2>5 DEF vars, SameFacts, Remedy
      <4>2. ToCome(p, q) => ToCome(p, q)'
        BY <1>2 DEF vars, recvTask, history, ToCome, Remedy
      <4>3. PutRight(p, q)
        BY DEF SignalingInv, AllPutRight
      <4> QED
        BY <1>2, <4>1, <4>2, <4>3, RightKept DEF vars
    <3> QED
      BY <3>1 DEF AllPutRight
  <2>7. AllHeard'
    BY <1>2, <2>3 DEF vars, SignalingInv, AllHeard, Heard, JoinToCome, Introduces, Lists
  <2> QED
    BY <2>1, <2>2, <2>4, <2>6, <2>7, <2>8 DEF SignalingInv
<1> QED
  BY <1>1, <1>2

\* The invariant holds in every reachable state.
LEMMA SignalingAlways == Spec => []SignalingInv
BY InvInit, InvStep, PTL DEF Spec

\* The group never grows beyond MAX_CONNECTIONS and its count beyond
\* MAX_REQUESTS, no queue beyond its capacity.
THEOREM SignalingTypeCorrect == Spec => []TypeOK
<1>1. SignalingInv => TypeOK
  BY DEF SignalingInv
<1> QED
  BY <1>1, SignalingAlways, PTL

\* MembersKnown: two members of a group never miss each other, because entering
\* takes the list of the others and queues the Join for them under one lock, and
\* a Hello or Join that is under way is only lost with its client.
THEOREM MembersKnow == Spec => []MembersKnown
<1>1. ASSUME SignalingInv
      PROVE  MembersKnown
  <2> SUFFICES ASSUME NEW p \in group, NEW q \in group, p # q
               PROVE  \/ Lists(view[p], q)
                      \/ UnderWay({"Join"}, q, p)
                      \/ pc[p] = "joining" /\ Lists(snapshot[p], q)
                      \/ UnderWay({"Hello"}, p, p) /\ Lists(snapshot[p], q)
                      \/ pc[p] = "closing"
    BY DEF MembersKnown
  <2>1. Heard(p, q) /\ ClientOK(p) /\ p \in Peers /\ q \in Peers
    BY <1>1 DEF SignalingInv, AllHeard, Clients, TypeOK
  <2>2. JoinToCome(p, q) => UnderWay({"Join"}, q, p)
    BY DEF JoinToCome, UnderWay
  <2>3. ASSUME NEW m \in Coming(p), Introduces(m, q)
        PROVE  UnderWay({"Join"}, q, p) \/ (UnderWay({"Hello"}, p, p) /\ Lists(snapshot[p], q))
    <3>1. PICK i \in DOMAIN queue[p] : queue[p][i] = m
      BY DEF Coming
    <3>2. CASE m.type = "Join" /\ m.of = q
      BY <3>1, <3>2 DEF UnderWay
    <3>3. CASE m.type = "Hello" /\ Lists(m.peers, q)
      <4>1. m.of = p /\ m.peers = snapshot[p]
        BY <1>1, <2>1, <3>3, MessagesMade DEF SignalingInv, ClientOK, Arriving
      <4> QED
        BY <3>1, <3>3, <4>1 DEF UnderWay
    <3> QED
      BY <2>3, <3>2, <3>3 DEF Introduces
  <2> QED
    BY <2>1, <2>2, <2>3 DEF Heard
<1> QED
  BY <1>1, SignalingAlways, PTL

\* What is to come to a client, or is queued for it, is under way.
LEMMA RemedyUnderWay ==
  ASSUME NEW p \in Peers, NEW q \in Peers, Remedied(p, q, 0)
  PROVE  UnderWay({Remedy(q)}, q, p) \/ q \in early[p] \cup belated[p]
BY DEF Remedied, ToCome, IsRemedy, UnderWay

\* GhostsOnlyFromRaces: whoever left is forgotten by every client, unless its
\* Left was queued before the client's own Hello, or before an Update that its
\* aborted reading task was still sending.
THEOREM GhostsGo == Spec => []GhostsOnlyFromRaces
<1>1. ASSUME SignalingInv
      PROVE  GhostsOnlyFromRaces
  <2> SUFFICES ASSUME NEW p \in Peers, NEW k \in view[p], k[1] \notin group
               PROVE  UnderWay({"Left"}, k[1], p) \/ k[1] \in early[p] \cup belated[p]
    BY DEF GhostsOnlyFromRaces
  <2>1. k[1] \in Peers
    BY <1>1 DEF SignalingInv, TypeOK, Known
  <2>2. PICK q \in Peers : q = k[1]
    BY <2>1
  <2>3. Stale(view[p], q) /\ Remedy(q) = "Left" /\ PutRight(p, q)
    BY <1>1, <2>2 DEF Stale, Outdated, Remedy, SignalingInv, AllPutRight
  <2>4. Remedied(p, q, 0)
    BY <2>3 DEF PutRight
  <2> QED
    BY <2>2, <2>3, <2>4, RemedyUnderWay
<1> QED
  BY <1>1, SignalingAlways, PTL

\* InfoCurrent: what a client knows of a member is what that told the server
\* last, unless an Update was queued before the client's own Hello.
THEOREM InfoStaysCurrent == Spec => []InfoCurrent
<1>1. ASSUME SignalingInv
      PROVE  InfoCurrent
  <2> SUFFICES ASSUME NEW p \in Peers, NEW k \in view[p],
                      k[1] \in group, pc[k[1]] # "closing", k[2] # info[k[1]]
               PROVE  UnderWay({"Update"}, k[1], p) \/ k[1] \in early[p]
    BY DEF InfoCurrent
  <2>1. PICK q \in Peers : q = k[1]
    BY <1>1 DEF SignalingInv, TypeOK
  <2>2. Stale(view[p], q) /\ Remedy(q) = "Update" /\ PutRight(p, q)
    BY <1>1, <2>1 DEF Stale, Outdated, Remedy, SignalingInv, AllPutRight
  <2>3. Remedied(p, q, 0)
    BY <2>2 DEF PutRight
  <2>4. q \notin belated[p]
    BY <1>1, <2>1 DEF SignalingInv, Senders, Relays, RelaysOf, InGroup
  <2> QED
    BY <2>1, <2>2, <2>3, <2>4, RemedyUnderWay
<1> QED
  BY <1>1, SignalingAlways, PTL

-----------------------------------------------------------------------------
(* The client's end of a connection                                        *)

\* The messages between the server and the application, from the ones shown
\* to the ones in the socket.
Carried == seen \o shown \o Held(listener) \o slot \o Held(reader) \o wire

HandsOK ==
  /\ wire \in Seq(Messages) /\ shown \in Seq(Messages) /\ seen \in Seq(Messages) /\ log \in Seq(Messages)
  /\ reader \in Messages \cup {NoMessage} /\ listener \in Messages \cup {NoMessage}
  /\ slot = <<>> \/ \E m \in Messages : slot = <<m>>

\* What the server sent is what is carried, and what the end cut off.
OrderInv ==
  /\ HandsOK
  /\ \E lost \in Seq(Messages) : log = Carried \o lost /\ (closed \/ lost = <<>>)

\* One message is a sequence.
LEMMA OneSeq ==
  ASSUME NEW S, NEW m \in S
  PROVE  <<m>> \in Seq(S)
OBVIOUS

\* A hand that holds something holds a message.
LEMMA HeldSeq ==
  ASSUME NEW m \in Messages \cup {NoMessage}
  PROVE  /\ Held(m) \in Seq(Messages)
         /\ m # NoMessage => m \in Messages /\ Held(m) = <<m>>
         /\ Held(NoMessage) = <<>>
         /\ \A n \in Messages : Held(n) = <<n>>
<1>1. \A n \in Messages : n # NoMessage
  BY DEF Messages, NoMessage, Greeting, Other, Answer
<1>2. <<>> \in Seq(Messages) /\ \A n \in Messages : <<n>> \in Seq(Messages)
  BY EmptySeq
<1> QED
  BY <1>1, <1>2 DEF Held

\* The first message of a sequence moves to the end of the one before it.
LEMMA HeadMoves ==
  ASSUME NEW S, NEW s \in Seq(S), NEW t \in Seq(S), t # <<>>
  PROVE  s \o t = (s \o <<Head(t)>>) \o Tail(t)
<1>1. Len(t) \in Nat /\ Len(t) # 0
  BY EmptySeq
<1>2. PICK h \in S, r \in Seq(S) : h = Head(t) /\ r = Tail(t)
  BY HeadTailProperties
<1>3. t = <<h>> \o r
  <2>1. 1 \in 1..Len(t) /\ Len(t) \in 1..Len(t)
    BY <1>1
  <2>2. SubSeq(t, 1, Len(t)) = <<t[1]>> \o SubSeq(t, 2, Len(t))
    BY <2>1, SubSeqRecursiveFirst
  <2>3. SubSeq(t, 1, Len(t)) = t /\ SubSeq(t, 2, Len(t)) = r /\ t[1] = h
    BY <1>2, SubSeqFull, TailIsSubSeq, HeadTailProperties
  <2> QED
    BY <2>2, <2>3
<1>4. PICK one \in Seq(S) : one = <<h>>
  BY OneSeq
<1> QED
  BY <1>2, <1>3, <1>4, ConcatAssociative

\* A message that goes from one hand to the next.
LEMMA HandMoves ==
  ASSUME NEW S, NEW s \in Seq(S), NEW m \in S
  PROVE  (s \o <<>>) \o <<m>> = (s \o <<m>>) \o <<>>
<1>1. PICK one \in Seq(S) : one = <<m>>
  BY OneSeq
<1>2. s \o <<>> = s /\ s \o one \in Seq(S)
  BY ConcatEmptySeq, ConcatProperties
<1>3. (s \o one) \o <<>> = s \o one
  BY <1>2, ConcatEmptySeq
<1> QED
  BY <1>1, <1>2, <1>3

\* What is carried, up to each hand, is a sequence of messages.
LEMMA HandsAreSequences ==
  ASSUME HandsOK
  PROVE  /\ seen \o shown \in Seq(Messages)
         /\ seen \o shown \o Held(listener) \in Seq(Messages)
         /\ slot \in Seq(Messages) /\ seen \o shown \o Held(listener) \o slot \in Seq(Messages)
         /\ seen \o shown \o Held(listener) \o slot \o Held(reader) \in Seq(Messages)
         /\ Carried \in Seq(Messages)
<1>1. slot \in Seq(Messages)
  BY EmptySeq, OneSeq DEF HandsOK
<1>2. Held(reader) \in Seq(Messages) /\ Held(listener) \in Seq(Messages)
  BY HeldSeq DEF HandsOK
<1>3. seen \o shown \in Seq(Messages)
  BY ConcatProperties DEF HandsOK
<1>4. seen \o shown \o Held(listener) \in Seq(Messages)
  BY <1>2, <1>3, ConcatProperties
<1>5. seen \o shown \o Held(listener) \o slot \in Seq(Messages)
  BY <1>1, <1>4, ConcatProperties
<1>6. seen \o shown \o Held(listener) \o slot \o Held(reader) \in Seq(Messages)
  BY <1>2, <1>5, ConcatProperties
<1> QED
  BY <1>1, <1>3, <1>4, <1>5, <1>6, ConcatProperties DEF Carried, HandsOK

\* The tasks of the client hand every message on, in the order they come.
LEMMA HandsKeepOrder ==
  ASSUME HandsOK, Read \/ HandOn \/ Listen \/ Forward \/ Show
  PROVE  HandsOK' /\ Carried' = Carried /\ UNCHANGED <<log, closed>>
<1>1. CASE Read
  <2>1. /\ wire # <<>> /\ reader = NoMessage /\ reader' = Head(wire) /\ wire' = Tail(wire)
        /\ UNCHANGED <<slot, listener, shown, seen, log, closed>>
    BY <1>1 DEF Read
  <2>2. PICK m \in Messages, rest \in Seq(Messages) : m = Head(wire) /\ rest = Tail(wire)
    BY <2>1, HeadTailProperties DEF HandsOK
  <2>3. PICK s \in Seq(Messages) : s = seen \o shown \o Held(listener) \o slot
    BY HandsAreSequences
  <2>4. Carried = (s \o <<>>) \o wire /\ Carried' = (s \o <<m>>) \o rest
    BY <2>1, <2>2, <2>3, HeldSeq DEF Carried
  <2>5. (s \o <<>>) \o wire = (s \o <<m>>) \o rest
    BY <2>1, <2>2, HeadMoves, ConcatEmptySeq DEF HandsOK
  <2> QED
    BY <2>1, <2>2, <2>4, <2>5 DEF HandsOK
<1>2. CASE HandOn
  <2>1. /\ reader # NoMessage /\ slot = <<>> /\ slot' = <<reader>> /\ reader' = NoMessage
        /\ UNCHANGED <<wire, listener, shown, seen, log, closed>>
    BY <1>2 DEF HandOn
  <2>2. PICK m \in Messages : m = reader
    BY <2>1 DEF HandsOK
  <2>3. PICK s \in Seq(Messages) : s = seen \o shown \o Held(listener)
    BY HandsAreSequences
  <2>4. Carried = ((s \o <<>>) \o <<m>>) \o wire /\ Carried' = ((s \o <<m>>) \o <<>>) \o wire
    BY <2>1, <2>2, <2>3, HeldSeq DEF Carried
  <2>5. Carried' = Carried
    BY <2>4, HandMoves
  <2> QED
    BY <2>1, <2>2, <2>5 DEF HandsOK
<1>3. CASE Listen
  <2>1. /\ listener = NoMessage /\ slot # <<>> /\ listener' = Head(slot) /\ slot' = <<>>
        /\ UNCHANGED <<wire, reader, shown, seen, log, closed>>
    BY <1>3 DEF Listen
  <2>2. PICK m \in Messages : slot = <<m>> /\ listener' = m
    BY <2>1 DEF HandsOK
  <2>3. PICK s \in Seq(Messages) : s = seen \o shown
    BY HandsAreSequences
  <2>4. Carried' = Carried
    <3>1. Held(listener) = <<>> /\ Held(listener') = <<m>> /\ Held(reader') = Held(reader)
      BY <2>1, <2>2, HeldSeq
    <3>2. Carried = ((s \o <<>>) \o <<m>>) \o Held(reader) \o wire
      BY <2>2, <2>3, <3>1 DEF Carried
    <3>3. Carried' = ((s \o <<m>>) \o <<>>) \o Held(reader) \o wire
      BY <2>1, <2>3, <3>1 DEF Carried
    <3> QED
      BY <3>2, <3>3, HandMoves
  <2> QED
    BY <2>1, <2>2, <2>4 DEF HandsOK
<1>4. CASE Forward
  <2>1. /\ listener # NoMessage /\ shown' = Append(shown, listener) /\ listener' = NoMessage
        /\ UNCHANGED <<wire, reader, slot, seen, log, closed>>
    BY <1>4 DEF Forward
  <2>2. PICK m \in Messages : m = listener
    BY <2>1 DEF HandsOK
  <2>3. PICK one \in Seq(Messages) : one = <<m>>
    BY OneSeq
  <2>4. shown' = shown \o one /\ shown' \in Seq(Messages)
    BY <2>1, <2>2, <2>3, AppendIsConcat, AppendProperties DEF HandsOK
  <2>5. (seen \o shown) \o one = (seen \o (shown \o one)) \o <<>>
    <3>1. (seen \o shown) \o one = seen \o (shown \o one)
      BY ConcatAssociative DEF HandsOK
    <3>2. seen \o (shown \o one) \in Seq(Messages)
      BY <2>4, ConcatProperties DEF HandsOK
    <3> QED
      BY <3>1, <3>2, ConcatEmptySeq
  <2>6. /\ Carried = (seen \o shown) \o one \o slot \o Held(reader) \o wire
        /\ Carried' = (seen \o (shown \o one)) \o <<>> \o slot \o Held(reader) \o wire
    BY <2>1, <2>2, <2>3, <2>4, HeldSeq DEF Carried
  <2>7. Carried' = Carried
    BY <2>5, <2>6
  <2> QED
    BY <2>1, <2>4, <2>7 DEF HandsOK
<1>5. CASE Show
  <2>1. /\ shown # <<>> /\ seen' = Append(seen, Head(shown)) /\ shown' = Tail(shown)
        /\ UNCHANGED <<wire, reader, slot, listener, log, closed>>
    BY <1>5 DEF Show
  <2>2. PICK m \in Messages : m = Head(shown) /\ Tail(shown) \in Seq(Messages)
    BY <2>1, HeadTailProperties DEF HandsOK
  <2>3. seen' = seen \o <<m>> /\ seen' \in Seq(Messages)
    BY <2>1, <2>2, AppendIsConcat, AppendProperties DEF HandsOK
  <2>4. seen' \o shown' = seen \o shown
    BY <2>1, <2>2, <2>3, HeadMoves DEF HandsOK
  <2>5. /\ Carried = (seen \o shown) \o Held(listener) \o slot \o Held(reader) \o wire
        /\ Carried' = (seen' \o shown') \o Held(listener) \o slot \o Held(reader) \o wire
    BY <2>1 DEF Carried
  <2>6. Carried' = Carried
    BY <2>4, <2>5
  <2> QED
    BY <2>1, <2>2, <2>3, <2>6 DEF HandsOK
<1> QED
  BY <1>1, <1>2, <1>3, <1>4, <1>5

\* What the server sends is carried after everything else.
LEMMA SentIsCarried ==
  ASSUME OrderInv, NEW m \in Messages, ServerSends(m)
  PROVE  OrderInv'
<1>1. /\ ~closed /\ wire' = Append(wire, m) /\ log' = Append(log, m)
      /\ UNCHANGED <<closed, reader, slot, listener, shown, seen>>
  BY DEF ServerSends, hands
<1>2. PICK s \in Seq(Messages) : s = seen \o shown \o Held(listener) \o slot \o Held(reader)
  BY HandsAreSequences DEF OrderInv
<1>3. PICK one \in Seq(Messages) : one = <<m>>
  BY OneSeq
<1>4. /\ wire' = wire \o one /\ wire' \in Seq(Messages)
      /\ log' = log \o one /\ log' \in Seq(Messages)
  BY <1>1, <1>3, AppendIsConcat, AppendProperties DEF OrderInv, HandsOK
<1>5. log = s \o wire
  <2>1. log = Carried \o <<>> /\ Carried \in Seq(Messages)
    BY <1>1, HandsAreSequences DEF OrderInv
  <2> QED
    BY <1>2, <2>1, ConcatEmptySeq DEF Carried
<1>6. Carried' = s \o wire'
  BY <1>1, <1>2 DEF Carried
<1>7. log' = Carried' /\ Carried' \o <<>> = Carried'
  BY <1>3, <1>4, <1>5, <1>6, ConcatAssociative, ConcatEmptySeq DEF OrderInv, HandsOK
<1>8. HandsOK'
  BY <1>1, <1>4 DEF OrderInv, HandsOK
<1> QED
  BY <1>7, <1>8, EmptySeq DEF OrderInv

\* The end of the connection cuts off what is in the socket.
LEMMA CutOff ==
  ASSUME OrderInv, ServerCloses
  PROVE  OrderInv'
<1>1. /\ ~closed /\ closed' /\ wire' = <<>>
      /\ UNCHANGED <<reader, slot, listener, shown, seen, log>>
  BY DEF ServerCloses, hands
<1>2. PICK s \in Seq(Messages) : s = seen \o shown \o Held(listener) \o slot \o Held(reader)
  BY HandsAreSequences DEF OrderInv
<1>3. log = s \o wire
  <2>1. log = Carried \o <<>> /\ Carried \in Seq(Messages)
    BY <1>1, HandsAreSequences DEF OrderInv
  <2> QED
    BY <1>2, <2>1, ConcatEmptySeq DEF Carried
<1>4. Carried' = s
  BY <1>1, <1>2, ConcatEmptySeq DEF Carried
<1>5. HandsOK'
  BY <1>1, EmptySeq DEF OrderInv, HandsOK
<1> QED
  BY <1>1, <1>3, <1>4, <1>5 DEF OrderInv, HandsOK

\* No step of the client, the server or the other peers changes the order.
LEMMA OrderStep ==
  ASSUME OrderInv, [ClientNext]_clientVars
  PROVE  OrderInv'
<1>1. CASE Read \/ HandOn \/ Listen \/ Forward \/ Show
  BY <1>1, HandsKeepOrder DEF OrderInv
<1>2. CASE SendHello \/ SendOther \/ \E o \in Offers : PeerAnswers(o)
  BY <1>2, SentIsCarried DEF SendHello, SendOther, PeerAnswers, Messages
<1>3. CASE ServerCloses
  BY <1>3, CutOff
<1>4. CASE \/ ConnectPanics \/ OnConnection \/ TakeOut \/ Written \/ WriteFails \/ WriteTimesOut
           \/ \E o \in Offers : OnAnswer(o) \/ SendOffer(o)
           \/ UNCHANGED clientVars
  <2>1. UNCHANGED <<wire, reader, slot, listener, shown, seen, log, closed>>
    BY <1>4 DEF ConnectPanics, OnConnection, TakeOut, Written, WriteFails, WriteTimesOut,
                OnAnswer, SendOffer, clientVars, hands
  <2> QED
    BY <2>1 DEF OrderInv, HandsOK, Carried
<1> QED
  BY <1>1, <1>2, <1>3, <1>4 DEF ClientNext, Client

\* ShownInOrder: through reader, channel and listener the application sees what
\* the server sent, each message once and in order; only the end of the
\* connection cuts off the last ones.
THEOREM ClientShowsInOrder == ClientSpec => []ShownInOrder
<1>1. ASSUME ClientInit
      PROVE  OrderInv
  <2>1. HandsOK
    BY <1>1, EmptySeq DEF ClientInit, HandsOK
  <2>2. PICK none \in Seq(Messages) : none = <<>> /\ none \o none = none
    BY EmptySeq, ConcatEmptySeq
  <2>3. Carried = none /\ log = none
    BY <1>1, <2>2, HeldSeq DEF ClientInit, Carried
  <2> QED
    BY <2>1, <2>2, <2>3 DEF OrderInv
<1>2. ASSUME OrderInv
      PROVE  ShownInOrder
  <2>1. PICK lost \in Seq(Messages) : log = Carried \o lost /\ (closed \/ lost = <<>>)
    BY <1>2 DEF OrderInv
  <2>2. PICK c \in Seq(Messages) : c = Carried
    BY <1>2, HandsAreSequences DEF OrderInv
  <2>3. SubSeq(c \o lost, 1, Len(c)) = c
    <3>1. CASE c = <<>>
      <4>1. Len(c) = 0
        BY <3>1, EmptySeq
      <4> QED
        BY <3>1, <4>1, SubSeqEmpty
    <3>2. CASE c # <<>>
      <4>1. 1 \in 1..Len(c) /\ Len(c) \in 1..Len(c)
        BY <3>2, EmptySeq
      <4> QED
        BY <4>1, SubSeqOfConcat1, SubSeqFull
    <3> QED
      BY <3>1, <3>2
  <2>4. closed \/ c = log
    BY <2>1, <2>2, ConcatEmptySeq
  <2>5. ShownInOrder <=> SubSeq(log, 1, Len(Carried)) = Carried /\ (closed \/ Carried = log)
    BY DEF ShownInOrder, Carried
  <2> QED
    BY <2>1, <2>2, <2>3, <2>4, <2>5
<1> QED
  BY <1>1, <1>2, OrderStep, PTL DEF ClientSpec

-----------------------------------------------------------------------------
(* The types of the client                                                 *)

HandsTyped ==
  /\ wire \in Seq(Messages) /\ log \in Seq(Messages) /\ seen \in Seq(Messages)
  /\ shown \in Seq(Messages) /\ Len(shown) <= ListenerCap
  /\ slot \in {<<>>} \cup {<<m>> : m \in Messages}
  /\ reader \in Messages \cup {NoMessage} /\ listener \in Messages \cup {NoMessage}

CountsTyped == ahead \in 0..MaxOthers /\ others \in 0..MaxOthers /\ ahead <= others

FlagsTyped ==
  closed \in BOOLEAN /\ client \in {"waiting", "connected", "panicked"} /\ serving \in BOOLEAN

OffersTyped ==
  /\ callbacks \in SUBSET Offers
  /\ offer \in [Offers -> {"new", "sent", "waiting", "answered", "failed"}]
  /\ out \in {<<>>} \cup {<<o>> : o \in Offers}
  /\ writer \in Offers \cup {"idle", "ended"}
  /\ relayed \in SUBSET Offers /\ answered \in SUBSET Offers /\ missed \in SUBSET Offers

\* More messages than were sent cannot come ahead of Hello.
ClientTyped == HandsTyped /\ CountsTyped /\ FlagsTyped /\ OffersTyped

\* What the server and the other peers send.
LEMMA SendingTyped ==
  ASSUME ClientTyped, NEW m \in Messages, ServerSends(m), CountsTyped', answered' \in SUBSET Offers
  PROVE  ClientTyped'
<1>1. wire' \in Seq(Messages) /\ log' \in Seq(Messages)
  BY AppendProperties DEF ServerSends, ClientTyped, HandsTyped
<1>2. HandsTyped'
  BY <1>1 DEF ServerSends, hands, ClientTyped, HandsTyped
<1>3. OffersTyped'
  BY DEF ServerSends, sendside, ClientTyped, OffersTyped
<1>4. FlagsTyped'
  BY DEF ServerSends, ClientTyped, FlagsTyped
<1> QED
  BY <1>2, <1>3, <1>4 DEF ClientTyped

\* The tasks that hand the server's messages on.
LEMMA ReceivingTyped ==
  ASSUME ClientTyped, Read \/ HandOn \/ Listen \/ Forward \/ Show
  PROVE  ClientTyped'
<1>1. HandsTyped /\ CountsTyped /\ FlagsTyped /\ OffersTyped
  BY DEF ClientTyped
<1>2. FlagsTyped' /\ CountsTyped'
  BY <1>1 DEF Read, HandOn, Listen, Forward, Show, FlagsTyped, CountsTyped
<1>3. CASE Read
  <2>1. Head(wire) \in Messages /\ Tail(wire) \in Seq(Messages)
    BY <1>1, <1>3, HeadTailProperties DEF Read, HandsTyped
  <2>2. HandsTyped'
    BY <1>1, <1>3, <2>1 DEF Read, HandsTyped
  <2>3. OffersTyped'
    BY <1>1, <1>3 DEF Read, OffersTyped, sendside
  <2> QED
    BY <1>2, <2>2, <2>3 DEF ClientTyped
<1>4. CASE HandOn
  <2>1. reader \in Messages /\ slot' = <<reader>>
    BY <1>1, <1>4 DEF HandOn, HandsTyped
  <2>2. HandsTyped'
    BY <1>1, <1>4, <2>1 DEF HandOn, HandsTyped
  <2>3. OffersTyped'
    BY <1>1, <1>4 DEF HandOn, OffersTyped, sendside
  <2> QED
    BY <1>2, <2>2, <2>3 DEF ClientTyped
<1>5. CASE Listen
  <2>1. PICK m \in Messages : slot = <<m>> /\ listener' = m
    BY <1>1, <1>5 DEF Listen, HandsTyped
  <2>2. HandsTyped'
    BY <1>1, <1>5, <2>1 DEF Listen, HandsTyped
  <2>3. /\ callbacks' \in SUBSET Offers
        /\ offer' \in [Offers -> {"new", "sent", "waiting", "answered", "failed"}]
    BY <1>1, <1>5 DEF Listen, OffersTyped
  <2>4. missed' \in SUBSET Offers
    <3>1. CASE m.type # "Answer"
      BY <1>1, <1>5, <2>1, <3>1 DEF Listen, OffersTyped
    <3>2. CASE m.type = "Answer"
      <4>1. PICK o \in Offers : m = Answer(o) /\ o = m.session
        BY <3>2 DEF Messages, Greeting, Other, Answer
      <4>2. missed' \in {missed, missed \cup {o}}
        BY <1>5, <2>1, <4>1 DEF Listen
      <4> QED
        BY <1>1, <4>1, <4>2 DEF OffersTyped
    <3> QED
      BY <3>1, <3>2
  <2>5. OffersTyped'
    BY <1>1, <1>5, <2>3, <2>4 DEF Listen, OffersTyped, sendside
  <2> QED
    BY <1>2, <2>2, <2>5 DEF ClientTyped
<1>6. CASE Forward
  <2>1. PICK m \in Messages : m = listener
    BY <1>1, <1>6 DEF Forward, HandsTyped
  <2>2. shown' \in Seq(Messages) /\ Len(shown') = Len(shown) + 1 /\ Len(shown) \in Nat
    BY <1>1, <1>6, <2>1, AppendProperties DEF Forward, HandsTyped
  <2>3. Len(shown') <= ListenerCap
    BY <1>6, <2>2, ClientAssumption DEF Forward
  <2>4. HandsTyped'
    BY <1>1, <1>6, <2>2, <2>3 DEF Forward, HandsTyped
  <2>5. OffersTyped'
    BY <1>1, <1>6 DEF Forward, OffersTyped, sendside
  <2> QED
    BY <1>2, <2>4, <2>5 DEF ClientTyped
<1>7. CASE Show
  <2>1. /\ Head(shown) \in Messages /\ Tail(shown) \in Seq(Messages)
        /\ Len(Tail(shown)) = Len(shown) - 1 /\ Len(shown) \in Nat
    BY <1>1, <1>7, HeadTailProperties DEF Show, HandsTyped
  <2>2. seen' \in Seq(Messages) /\ shown' \in Seq(Messages)
    BY <1>1, <1>7, <2>1, AppendProperties DEF Show, HandsTyped
  <2>3. Len(shown') <= ListenerCap
    BY <1>1, <1>7, <2>1, ClientAssumption DEF Show, HandsTyped
  <2>4. HandsTyped'
    BY <1>1, <1>7, <2>2, <2>3 DEF Show, HandsTyped
  <2>5. OffersTyped'
    BY <1>1, <1>7 DEF Show, OffersTyped, sendside
  <2> QED
    BY <1>2, <2>4, <2>5 DEF ClientTyped
<1> QED
  BY <1>3, <1>4, <1>5, <1>6, <1>7

\* Every step of the client, the server and the other peers keeps the types.
LEMMA ClientTypedStep ==
  ASSUME ClientTyped, [ClientNext]_clientVars
  PROVE  ClientTyped'
<1>1. HandsTyped /\ CountsTyped /\ FlagsTyped /\ OffersTyped
  BY DEF ClientTyped
<1>2. CASE SendHello
  <2>1. ServerSends(Greeting) /\ UNCHANGED <<ahead, others, answered>> /\ Greeting \in Messages
    BY <1>2 DEF SendHello, Messages
  <2>2. CountsTyped' /\ answered' \in SUBSET Offers
    BY <1>1, <2>1 DEF CountsTyped, OffersTyped
  <2> QED
    BY <2>1, <2>2, SendingTyped
<1>3. CASE SendOther
  <2>1. /\ ServerSends(Other) /\ Other \in Messages
        /\ others < MaxOthers /\ others' = others + 1
        /\ ahead' = ahead \/ ahead' = ahead + 1
        /\ answered' = answered
    BY <1>3 DEF SendOther, Messages
  <2>2. CountsTyped'
    BY <1>1, <2>1, ClientAssumption DEF CountsTyped
  <2>3. answered' \in SUBSET Offers
    BY <1>1, <2>1 DEF OffersTyped
  <2> QED
    BY <2>1, <2>2, <2>3, SendingTyped
<1>4. CASE \E o \in Offers : PeerAnswers(o)
  <2>1. PICK o \in Offers : PeerAnswers(o)
    BY <1>4
  <2>2. ServerSends(Answer(o)) /\ Answer(o) \in Messages /\ answered' = answered \cup {o}
    BY <2>1 DEF PeerAnswers, Messages
  <2>3. CountsTyped'
    BY <1>1, <2>1 DEF PeerAnswers, CountsTyped
  <2>4. answered' \in SUBSET Offers
    BY <1>1, <2>2 DEF OffersTyped
  <2> QED
    BY <2>2, <2>3, <2>4, SendingTyped
<1>5. CASE Read \/ HandOn \/ Listen \/ Forward \/ Show
  BY <1>5, ReceivingTyped
<1>6. CASE ServerCloses \/ ConnectPanics \/ OnConnection
  <2>1. HandsTyped' /\ CountsTyped'
    BY <1>1, <1>6, EmptySeq DEF ServerCloses, ConnectPanics, OnConnection, hands, HandsTyped, CountsTyped
  <2>2. FlagsTyped' /\ OffersTyped'
    BY <1>1, <1>6 DEF ServerCloses, ConnectPanics, OnConnection, sendside, FlagsTyped, OffersTyped
  <2> QED
    BY <2>1, <2>2 DEF ClientTyped
<1>7. CASE \/ TakeOut \/ Written \/ WriteFails \/ WriteTimesOut
           \/ \E o \in Offers : OnAnswer(o) \/ SendOffer(o)
  <2>1. HandsTyped' /\ CountsTyped' /\ FlagsTyped'
    BY <1>1, <1>7 DEF TakeOut, Written, WriteFails, WriteTimesOut, OnAnswer, SendOffer, hands,
                      HandsTyped, CountsTyped, FlagsTyped
  <2>2. OffersTyped'
    BY <1>1, <1>7 DEF TakeOut, Written, WriteFails, WriteTimesOut, OnAnswer, SendOffer, sendside,
                      OffersTyped
  <2> QED
    BY <2>1, <2>2 DEF ClientTyped
<1>8. CASE UNCHANGED clientVars
  BY <1>1, <1>8 DEF clientVars, hands, sendside, ClientTyped, HandsTyped, CountsTyped, FlagsTyped, OffersTyped
<1> QED
  BY <1>2, <1>3, <1>4, <1>5, <1>6, <1>7, <1>8 DEF ClientNext, Client

\* The state of the client is well typed, and no more messages come before
\* Hello than the server has sent.
THEOREM ClientTypeCorrect == ClientSpec => []ClientTypeOK
<1>1. ASSUME ClientInit
      PROVE  ClientTyped
  <2>1. HandsTyped /\ CountsTyped
    BY <1>1, EmptySeq, ClientAssumption DEF ClientInit, HandsTyped, CountsTyped
  <2>2. FlagsTyped /\ OffersTyped
    BY <1>1 DEF ClientInit, FlagsTyped, OffersTyped
  <2> QED
    BY <2>1, <2>2 DEF ClientTyped
<1>2. ClientTyped => ClientTypeOK
  BY DEF ClientTyped, HandsTyped, CountsTyped, FlagsTyped, OffersTyped, ClientTypeOK
<1> QED
  BY <1>1, <1>2, ClientTypedStep, PTL DEF ClientSpec

=============================================================================
