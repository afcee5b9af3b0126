--------------------------- MODULE SignalingClient ---------------------------
(***************************************************************************)
(* The client's end of a signaling connection                              *)
(* (core/src/webrtc/signaling.rs), with the part of send_offer that waits  *)
(* for an answer (core/src/webrtc/webrtc.rs) and the loop that shows the   *)
(* messages to the application (api/webrtc.rs).                            *)
(*                                                                         *)
(* A message of the server passes, one at a time, through four hands: the  *)
(* socket, the reading task, the listener and the application.  Messages   *)
(* to the server go through the task that writes.                          *)
(*                                                                         *)
(* The names of the specification begin with Client, so that it can stand  *)
(* beside Signaling, the server's end, in one module.                      *)
(***************************************************************************)
EXTENDS Naturals, Sequences, FiniteSets

CONSTANTS
  Offers,      \* session ids of the offers the client makes
  MaxOthers,   \* bound: messages of the server besides Hello and answers
  ListenerCap  \* capacity of the listener's channel (16 in the code)

ASSUME ClientAssumption == MaxOthers \in Nat /\ ListenerCap \in Nat \ {0}

VARIABLES
  wire,      \* messages the server sent, in the socket
  ahead,     \* messages the server sent before Hello
  others,    \* messages the server sent besides Hello and answers
  closed,    \* the server's end is gone
  client,    \* connect: "waiting", "connected" or "panicked"
  serving,   \* on_connection returned, the application is shown messages
  reader,    \* message in the hands of the reading task
  slot,      \* receive_tx (capacity 1)
  listener,  \* message in the hands of the listener
  shown,     \* channel between listener and application
  callbacks, \* on_answer
  offer,     \* control point of each send_offer
  out,       \* send_tx (capacity 1)
  writer,    \* message in the hands of the writing task, or its end
  relayed,   \* offers that reached the server
  answered,  \* offers the other peer answered
  missed,    \* history: offers whose answer overtook its callback
  log, seen  \* history: what the server sent, what the application saw

hands == <<reader, slot, listener, shown>>
sendside == <<out, writer, relayed>>
clientVars == <<wire, ahead, others, closed, client, serving, hands, callbacks, offer,
                sendside, answered, missed, log, seen>>

Greeting  == [type |-> "Hello"]
Other     == [type |-> "Other"]
Answer(o) == [type |-> "Answer", session |-> o]
NoMessage == [type |-> "Nothing"]

ClientInit ==
  /\ wire = <<>> /\ ahead = 0 /\ others = 0 /\ closed = FALSE
  /\ client = "waiting" /\ serving = FALSE
  /\ reader = NoMessage /\ slot = <<>> /\ listener = NoMessage /\ shown = <<>>
  /\ callbacks = {}
  /\ offer = [o \in Offers |-> "new"]
  /\ out = <<>> /\ writer = "idle" /\ relayed = {}
  /\ answered = {} /\ missed = {}
  /\ log = <<>> /\ seen = <<>>

-----------------------------------------------------------------------------
(* The server and the other peers                                          *)

Greeted == \E i \in 1..Len(log) : log[i] = Greeting

ServerSends(msg) ==
  /\ ~closed
  /\ wire' = Append(wire, msg)
  /\ log' = Append(log, msg)
  /\ UNCHANGED <<closed, client, serving, hands, callbacks, offer, sendside, missed, seen>>

SendHello ==
  /\ ~Greeted
  /\ ServerSends(Greeting)
  /\ UNCHANGED <<ahead, others, answered>>

\* Join, Update, Left, an offer of a peer; also before Hello.
SendOther ==
  /\ others < MaxOthers
  /\ ServerSends(Other)
  /\ others' = others + 1
  /\ ahead' = IF Greeted THEN ahead ELSE ahead + 1
  /\ UNCHANGED answered

PeerAnswers(o) ==
  /\ o \in relayed \ answered
  /\ ServerSends(Answer(o))
  /\ answered' = answered \cup {o}
  /\ UNCHANGED <<ahead, others>>

\* The connection ends; what the socket still holds is lost.
ServerCloses ==
  /\ ~closed
  /\ closed' = TRUE
  /\ wire' = <<>>
  /\ UNCHANGED <<ahead, others, client, serving, hands, callbacks, offer, sendside,
                 answered, missed, log, seen>>

-----------------------------------------------------------------------------
(* connect                                                                 *)

\* Mutant: Hello lets connect return after it was handed on, which waits for
\* whatever came before it.
ReadHandsOnFirst ==
  /\ wire # <<>> /\ reader = NoMessage
  /\ reader' = Head(wire)
  /\ wire' = Tail(wire)
  /\ client' = IF Head(wire) = Greeting /\ slot = <<>> THEN "connected" ELSE client
  /\ UNCHANGED <<ahead, others, closed, serving, slot, listener, shown, callbacks, offer,
                 sendside, answered, missed, log, seen>>

\* The reading task takes one message at a time; Hello lets connect return.
Read ==
  /\ wire # <<>> /\ reader = NoMessage
  /\ reader' = Head(wire)
  /\ wire' = Tail(wire)
  /\ client' = IF Head(wire) = Greeting THEN "connected" ELSE client
  /\ UNCHANGED <<ahead, others, closed, serving, slot, listener, shown, callbacks, offer,
                 sendside, answered, missed, log, seen>>

\* Mutant: a message is dropped when the channel is full.
HandOnOrDrop ==
  /\ reader # NoMessage
  /\ slot' = IF slot = <<>> THEN <<reader>> ELSE slot
  /\ reader' = NoMessage
  /\ UNCHANGED <<wire, ahead, others, closed, client, serving, listener, shown, callbacks,
                 offer, sendside, answered, missed, log, seen>>

\* It waits until the channel has room.
HandOn ==
  /\ reader # NoMessage /\ slot = <<>>
  /\ slot' = <<reader>>
  /\ reader' = NoMessage
  /\ UNCHANGED <<wire, ahead, others, closed, client, serving, listener, shown, callbacks,
                 offer, sendside, answered, missed, log, seen>>

\* The socket ended before Hello: client_rx gives None, which is unwrapped.
ConnectPanics ==
  /\ closed /\ wire = <<>> /\ reader = NoMessage /\ client = "waiting"
  /\ client' = "panicked"
  /\ UNCHANGED <<wire, ahead, others, closed, serving, hands, callbacks, offer, sendside,
                 answered, missed, log, seen>>

-----------------------------------------------------------------------------
(* start_listener                                                          *)

\* An answer is first given to the callback of its session, if there is one.
Listen ==
  /\ client = "connected" /\ listener = NoMessage /\ slot # <<>>
  /\ listener' = Head(slot)
  /\ slot' = <<>>
  /\ LET o == Head(slot).session
     IN  IF Head(slot).type # "Answer"
           THEN UNCHANGED <<callbacks, offer, missed>>
         ELSE IF o \in callbacks
           THEN /\ callbacks' = callbacks \ {o}
                /\ offer' = [offer EXCEPT ![o] = "answered"]
                /\ UNCHANGED missed
         ELSE /\ missed' = IF offer[o] = "sent" THEN missed \cup {o} ELSE missed
              /\ UNCHANGED <<callbacks, offer>>
  /\ UNCHANGED <<wire, ahead, others, closed, client, serving, reader, shown, sendside,
                 answered, log, seen>>

Forward ==
  /\ listener # NoMessage /\ Len(shown) < ListenerCap
  /\ shown' = Append(shown, listener)
  /\ listener' = NoMessage
  /\ UNCHANGED <<wire, ahead, others, closed, client, serving, reader, slot, callbacks,
                 offer, sendside, answered, missed, log, seen>>

\* The application's callback on_connection returns.
OnConnection ==
  /\ client = "connected" /\ ~serving
  /\ serving' = TRUE
  /\ UNCHANGED <<wire, ahead, others, closed, client, hands, callbacks, offer, sendside,
                 answered, missed, log, seen>>

Show ==
  /\ serving /\ shown # <<>>
  /\ seen' = Append(seen, Head(shown))
  /\ shown' = Tail(shown)
  /\ UNCHANGED <<wire, ahead, others, closed, client, serving, reader, slot, listener,
                 callbacks, offer, sendside, answered, missed, log>>

-----------------------------------------------------------------------------
(* Offers                                                                  *)

\* send_offer puts the offer into the channel of the writing task, or fails
\* when that task is gone.
SendOffer(o) ==
  /\ client = "connected" /\ offer[o] = "new"
  /\ \/ /\ writer # "ended" /\ out = <<>>
        /\ out' = <<o>>
        /\ offer' = [offer EXCEPT ![o] = "sent"]
     \/ /\ writer = "ended"
        /\ offer' = [offer EXCEPT ![o] = "failed"]
        /\ UNCHANGED out
  /\ UNCHANGED <<wire, ahead, others, closed, client, serving, hands, callbacks, writer,
                 relayed, answered, missed, log, seen>>

\* Mutant: the callback of another offer is lost.
OnAnswerReplaces(o) ==
  /\ offer[o] = "sent"
  /\ callbacks' = {o}
  /\ offer' = [offer EXCEPT ![o] = "waiting"]
  /\ UNCHANGED <<wire, ahead, others, closed, client, serving, hands, sendside, answered,
                 missed, log, seen>>

\* Then it registers the callback for the answer, and waits.
OnAnswer(o) ==
  /\ offer[o] = "sent"
  /\ callbacks' = callbacks \cup {o}
  /\ offer' = [offer EXCEPT ![o] = "waiting"]
  /\ UNCHANGED <<wire, ahead, others, closed, client, serving, hands, sendside, answered,
                 missed, log, seen>>

-----------------------------------------------------------------------------
(* The task that writes                                                    *)

TakeOut ==
  /\ writer = "idle" /\ out # <<>>
  /\ writer' = Head(out)
  /\ out' = <<>>
  /\ UNCHANGED <<wire, ahead, others, closed, client, serving, hands, callbacks, offer,
                 relayed, answered, missed, log, seen>>

Written ==
  /\ writer \in Offers /\ ~closed
  /\ relayed' = relayed \cup {writer}
  /\ writer' = "idle"
  /\ UNCHANGED <<wire, ahead, others, closed, client, serving, hands, callbacks, offer, out,
                 answered, missed, log, seen>>

\* The 120 seconds end while the message is being written: it is lost, a ping
\* takes its place.
WriteTimesOut ==
  /\ writer \in Offers /\ ~closed
  /\ writer' = "idle"
  /\ UNCHANGED <<wire, ahead, others, closed, client, serving, hands, callbacks, offer, out,
                 relayed, answered, missed, log, seen>>

\* The write, or the ping of an idle connection, fails.
WriteFails ==
  /\ closed /\ writer # "ended"
  /\ writer' = "ended"
  /\ out' = <<>>
  /\ UNCHANGED <<wire, ahead, others, closed, client, serving, hands, callbacks, offer,
                 relayed, answered, missed, log, seen>>

Client == \/ Read \/ HandOn \/ ConnectPanics
          \/ Listen \/ Forward \/ OnConnection \/ Show
          \/ \E o \in Offers : OnAnswer(o)
          \/ TakeOut \/ Written \/ WriteFails

ClientNext == \/ SendHello \/ SendOther \/ ServerCloses
              \/ \E o \in Offers : PeerAnswers(o) \/ SendOffer(o)
              \/ WriteTimesOut
              \/ Client

ClientSpec == ClientInit /\ [][ClientNext]_clientVars

\* Tasks that can step do; the application returns from its callback and
\* takes what it is shown.
ClientFairSpec ==
  /\ ClientSpec
  /\ WF_clientVars(Read) /\ WF_clientVars(HandOn) /\ WF_clientVars(Listen) /\ WF_clientVars(Forward)
  /\ WF_clientVars(OnConnection) /\ WF_clientVars(Show)
  /\ \A o \in Offers : WF_clientVars(OnAnswer(o))

-----------------------------------------------------------------------------
(* Properties                                                              *)

Messages == {Greeting, Other} \cup {Answer(o) : o \in Offers}

\* Every variable has its type.
ClientTypeOK ==
  /\ wire \in Seq(Messages) /\ ahead \in 0..MaxOthers /\ others \in 0..MaxOthers
  /\ closed \in BOOLEAN
  /\ client \in {"waiting", "connected", "panicked"} /\ serving \in BOOLEAN
  /\ reader \in Messages \cup {NoMessage}
  /\ slot \in {<<>>} \cup {<<m>> : m \in Messages}
  /\ listener \in Messages \cup {NoMessage}
  /\ shown \in Seq(Messages) /\ Len(shown) <= ListenerCap
  /\ callbacks \in SUBSET Offers
  /\ offer \in [Offers -> {"new", "sent", "waiting", "answered", "failed"}]
  /\ out \in {<<>>} \cup {<<o>> : o \in Offers}
  /\ writer \in Offers \cup {"idle", "ended"}
  /\ relayed \in SUBSET Offers /\ answered \in SUBSET Offers /\ missed \in SUBSET Offers
  /\ log \in Seq(Messages) /\ seen \in Seq(Messages)

Held(msg) == IF msg = NoMessage THEN <<>> ELSE <<msg>>

\* Every message of the server reaches the application once and in the order
\* the server sent it, through all hands and however full the channels are;
\* only the end of the connection cuts messages off, from the last one on.
ShownInOrder ==
  LET carried == seen \o shown \o Held(listener) \o slot \o Held(reader) \o wire
  IN  /\ SubSeq(log, 1, Len(carried)) = carried
      /\ closed \/ carried = log

\* Hello makes connect return, unless two messages came before it: the second
\* one waits for room that nobody makes before Hello was read.
ConnectReturns ==
  Greeted ~> (client = "connected" \/ ahead >= 2 \/ closed)

\* send_offer goes on when its offer is answered, whatever other offers are
\* under way, unless the answer came between the sending of the offer and the
\* registration of its callback (webrtc.rs:577 and 587) or the connection
\* ended.
AnswerArrives ==
  \A o \in Offers : o \in answered ~> (offer[o] = "answered" \/ o \in missed \/ closed)
=============================================================================
