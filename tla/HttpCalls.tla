----------------------------- MODULE HttpCalls -----------------------------
(***************************************************************************)
(* The calls of the HTTP client (core/src/http/client, both versions of    *)
(* the protocol) to whatever device answers at one address, from the call  *)
(* through the routes and handlers of that device's server                 *)
(* (core/src/http/server) to the result the caller gets.                   *)
(*                                                                         *)
(* The device behind the address may change between two calls and during   *)
(* one; a call may fail on the way, and the handler of a call nobody waits *)
(* for is dropped or runs on.  What goes on inside prepare-upload and      *)
(* upload is the subject of UploadServer: here a decision and the session  *)
(* it creates are one step, and a PIN check refuses or does not.           *)
(***************************************************************************)
EXTENDS Identity, Sequences

CONSTANTS
  Calls,     \* calls; a prepare-upload also names the session it may create
  Devices,   \* devices with a server, by their keys
  Me,        \* the caller, by its key
  Files,     \* the files a prepare-upload offers
  None,      \* nothing
  Capacity,  \* capacity of each event channel
  V2On,      \* are the v2 endpoints enabled?
  ShowOn,    \* is the show endpoint enabled?
  WebOn      \* is web send enabled?

ASSUME HttpCallsAssumption ==
  /\ Capacity \in Nat \ {0}
  /\ {V2On, ShowOn, WebOn} \subseteq BOOLEAN
  /\ NoKey \notin Devices \cup {Me}
  /\ None \notin [call : Calls, active : BOOLEAN]

VARIABLES
  tls,      \* do the servers run with TLS?
  at,       \* the device that answers at the address
  known,    \* the key the last registration learned
  req,      \* the request of each call
  pc,       \* where the request of each call is
  by,       \* the device that handles it
  emitting, \* the event its handler is about to send
  reply,    \* the response to each call
  result,   \* what each call returned
  slot,     \* the session slot of each server
  events,   \* the event channel of each server
  seen,     \* the events each application received
  appOpen   \* the applications that still hold their receiver

caller == <<known, req, result>>
server == <<by, emitting, reply, slot, events>>
app == <<seen, appOpen>>
vars == <<tls, at, pc, caller, server, app>>

Init ==
  /\ tls \in BOOLEAN
  /\ at \in Devices
  /\ known = NoKey
  /\ req = [c \in Calls |-> None]
  /\ pc = [c \in Calls |-> "idle"]
  /\ by = [c \in Calls |-> None]
  /\ emitting = [c \in Calls |-> None]
  /\ reply = [c \in Calls |-> None]
  /\ result = [c \in Calls |-> None]
  /\ slot = [d \in Devices |-> None]
  /\ events = [d \in Devices |-> <<>>]
  /\ seen = [d \in Devices |-> {}]
  /\ appOpen = Devices

-----------------------------------------------------------------------------
(* What goes over the wire                                                 *)

\* A v2 request carries the token and the web flag of the caller's own
\* description under other names.
RegisterDtoV2(info) == [fingerprint |-> info.token, download |-> info.web]

RegisterResponseDto(body) == [token |-> body.fingerprint, web |-> body.download]

Registration(info)  == [type |-> "register", info |-> info]
Offer(c)            == [type |-> "prepare", session |-> c]
SessionEnd(s)       == [type |-> "sessionEnd", session |-> s]
CancelReceived(s)   == [type |-> "cancelReceived", session |-> s]
ShowRequest(c)      == [type |-> "show", args |-> c]

-----------------------------------------------------------------------------
(* Calling                                                                 *)

TargetUrl(version, path, params) == [version |-> version, path |-> path, params |-> params]

Send(c, url, body, expected) ==
  /\ pc[c] = "idle"
  /\ pc' = [pc EXCEPT ![c] = "sent"]
  /\ req' = [req EXCEPT ![c] = [url |-> url, body |-> body, expected |-> expected]]
  /\ UNCHANGED <<tls, at, known, result, server, app>>

RegisterV2(c, info) == Send(c, TargetUrl("v2", "register", <<>>), RegisterDtoV2(info), NoKey)
RegisterV3(c, info) == Send(c, TargetUrl("v3", "register", <<>>), info, NoKey)

\* The token need not be the hash of the caller's certificate.
Register(c) ==
  \E token \in {Me, NoKey} :
    LET info == [token |-> token, web |-> FALSE] IN RegisterV2(c, info) \/ RegisterV3(c, info)

PrepareUploadV2(c) == Send(c, TargetUrl("v2", "prepare-upload", <<>>), None, known)
PrepareUploadV3(c) == Send(c, TargetUrl("v3", "prepare-upload", <<>>), None, known)

PrepareUpload(c) == PrepareUploadV2(c) \/ PrepareUploadV3(c)

CancelV2(c, s) == Send(c, TargetUrl("v2", "cancel", <<s>>), None, NoKey)
CancelV3(c, s) == Send(c, TargetUrl("v3", "cancel", <<s>>), None, NoKey)

\* Only a session the caller was told can be named.
Cancel(c) ==
  \E s \in Calls :
    /\ result[s] # None /\ result[s].kind = "session"
    /\ CancelV2(c, s) \/ CancelV3(c, s)

Info(c) == Send(c, TargetUrl("v2", "info", <<>>), None, NoKey)

\* Another instance of the application, with the right token or a stale one,
\* and a body the server can read or not.
Show(c) ==
  \E token \in {"right", "stale"}, readable \in BOOLEAN :
    Send(c, TargetUrl("v2", "show", <<token>>), [readable |-> readable], NoKey)

-----------------------------------------------------------------------------
(* The handlers                                                            *)

Is(c, version, path) ==
  pc[c] = "sent" /\ req[c].url.version = version /\ req[c].url.path = path

\* The device at the address handles the request.
Take(c) == by' = [by EXCEPT ![c] = at] /\ UNCHANGED <<tls, at, caller, app>>

Respond(c, status, body) ==
  /\ pc' = [pc EXCEPT ![c] = "replied"]
  /\ reply' = [reply EXCEPT ![c] = [status |-> status, body |-> body]]

Reply(c, status, body) ==
  Respond(c, status, body) /\ UNCHANGED <<emitting, slot, events>>

\* The handler goes on to send the event.
Announce(c, event) ==
  /\ pc' = [pc EXCEPT ![c] = "emit"]
  /\ emitting' = [emitting EXCEPT ![c] = event]
  /\ UNCHANGED <<reply, events>>

\* The description a device gives of itself.
InfoBody(d) == [fingerprint |-> d, download |-> WebOn]

V2Paths == {"register", "prepare-upload", "cancel", "info"}

NotFound(c) ==
  /\ pc[c] = "sent"
  /\ LET url == req[c].url
     IN \/ url.version = "v2" /\ url.path \in V2Paths /\ ~V2On
        \/ url.version = "v2" /\ url.path = "show" /\ ~ShowOn
        \/ url.version = "v3" /\ url.path # "register"
  /\ Take(c)
  /\ Reply(c, 404, None)

\* On TLS a registration counts if the claimed fingerprint is that of the
\* client certificate; it is answered all the same.
HandleRegisterV2(c) ==
  /\ Is(c, "v2", "register") /\ V2On
  /\ Take(c)
  /\ IF tls /\ req[c].body.fingerprint # Me
       THEN Reply(c, 200, InfoBody(at))
       ELSE Announce(c, Registration(req[c].body)) /\ UNCHANGED slot

\* The v3 route tells the application nothing.
HandleRegisterV3(c) ==
  /\ Is(c, "v3", "register")
  /\ Take(c)
  /\ Reply(c, 200, [token |-> at, web |-> WebOn])

HandleInfo(c) ==
  /\ Is(c, "v2", "info") /\ V2On
  /\ Take(c)
  /\ Reply(c, 200, InfoBody(at))

HandleShow(c) ==
  /\ Is(c, "v2", "show") /\ ShowOn
  /\ Take(c)
  /\ IF req[c].url.params # <<"right">> THEN Reply(c, 403, None)
     ELSE IF ~req[c].body.readable THEN Reply(c, 400, None)
     ELSE Announce(c, ShowRequest(c)) /\ UNCHANGED slot

\* Refused by the PIN check or by the session in the slot, or the slot is
\* claimed.
HandlePrepareUpload(c) ==
  /\ Is(c, "v2", "prepare-upload") /\ V2On
  /\ Take(c)
  /\ \/ \E status \in {401, 429} : Reply(c, status, None)
     \/ slot[at] # None /\ Reply(c, 409, None)
     \/ /\ slot[at] = None
        /\ slot' = [slot EXCEPT ![at] = [call |-> c, active |-> FALSE]]
        /\ Announce(c, Offer(c))

Holds(d, s) == slot[d] = [call |-> s, active |-> TRUE]

\* A session this server does not hold may be one its own application sends.
HandleCancel(c) ==
  /\ Is(c, "v2", "cancel") /\ V2On
  /\ Take(c)
  /\ LET s == req[c].url.params[1]
     IN IF Holds(at, s)
          THEN slot' = [slot EXCEPT ![at] = None] /\ Announce(c, SessionEnd(s))
          ELSE UNCHANGED slot /\ Announce(c, CancelReceived(s))

Free(d) == slot' = [slot EXCEPT ![d] = None]

\* Only a registration is answered with a body.
Acknowledge(c) ==
  Respond(c, 200, IF emitting[c].type = "register" THEN InfoBody(by[c]) ELSE None)

\* Mutant: an event that finds no room is thrown away.
EmitOrDiscard(c) ==
  /\ pc[c] = "emit"
  /\ LET d == by[c] IN
     \/ /\ d \in appOpen
        /\ events' = IF Len(events[d]) < Capacity
                       THEN [events EXCEPT ![d] = Append(@, emitting[c])] ELSE events
        /\ IF emitting[c].type = "prepare"
             THEN pc' = [pc EXCEPT ![c] = "decide"] /\ UNCHANGED <<reply, slot>>
             ELSE Acknowledge(c) /\ UNCHANGED slot
     \/ /\ d \notin appOpen
        /\ IF emitting[c].type = "prepare"
             THEN Respond(c, 500, None) /\ Free(d)
             ELSE Acknowledge(c) /\ UNCHANGED slot
        /\ UNCHANGED events
  /\ UNCHANGED <<tls, at, caller, by, emitting, app>>

\* Mutant: nobody sees that the channel was closed.
EmitForEver(c) ==
  /\ pc[c] = "emit"
  /\ LET d == by[c] IN
     /\ d \in appOpen
     /\ Len(events[d]) < Capacity
     /\ events' = [events EXCEPT ![d] = Append(@, emitting[c])]
     /\ IF emitting[c].type = "prepare"
          THEN pc' = [pc EXCEPT ![c] = "decide"] /\ UNCHANGED <<reply, slot>>
          ELSE Acknowledge(c) /\ UNCHANGED slot
  /\ UNCHANGED <<tls, at, caller, by, emitting, app>>

\* A handler waits for room in the channel; when the receiver is gone,
\* prepare-upload fails and the others do not care.
Emit(c) ==
  /\ pc[c] = "emit"
  /\ LET d == by[c] IN
     \/ /\ d \in appOpen
        /\ Len(events[d]) < Capacity
        /\ events' = [events EXCEPT ![d] = Append(@, emitting[c])]
        /\ IF emitting[c].type = "prepare"
             THEN pc' = [pc EXCEPT ![c] = "decide"] /\ UNCHANGED <<reply, slot>>
             ELSE Acknowledge(c) /\ UNCHANGED slot
     \/ /\ d \notin appOpen
        /\ IF emitting[c].type = "prepare"
             THEN Respond(c, 500, None) /\ Free(d)
             ELSE Acknowledge(c) /\ UNCHANGED slot
        /\ UNCHANGED events
  /\ UNCHANGED <<tls, at, caller, by, emitting, app>>

\* Mutant: accepting no file creates a session as well.
DecideKeepsSlot(c) ==
  /\ pc[c] = "decide"
  /\ \/ Offer(c) \in seen[by[c]] /\ Respond(c, 403, None) /\ Free(by[c])
     \/ by[c] \notin appOpen /\ Respond(c, 500, None) /\ Free(by[c])
     \/ /\ Offer(c) \in seen[by[c]]
        /\ \E accepted \in SUBSET Files :
             /\ Respond(c, IF accepted = {} THEN 204 ELSE 200, [files |-> accepted])
             /\ slot' = [slot EXCEPT ![by[c]].active = TRUE]
  /\ UNCHANGED <<tls, at, caller, by, emitting, events, app>>

\* The application declines, drops the request, or accepts files; no file
\* means that there is nothing to transfer.
Decide(c) ==
  /\ pc[c] = "decide"
  /\ \/ Offer(c) \in seen[by[c]] /\ Respond(c, 403, None) /\ Free(by[c])
     \/ by[c] \notin appOpen /\ Respond(c, 500, None) /\ Free(by[c])
     \/ Offer(c) \in seen[by[c]] /\ Respond(c, 204, None) /\ Free(by[c])
     \/ /\ Offer(c) \in seen[by[c]]
        /\ \E accepted \in SUBSET Files \ {{}} : Respond(c, 200, [files |-> accepted])
        /\ slot' = [slot EXCEPT ![by[c]].active = TRUE]
  /\ UNCHANGED <<tls, at, caller, by, emitting, events, app>>

\* Nobody waits for the call any more; its claim of the slot is given up.
DropHandler(c) ==
  /\ pc[c] \in {"emit", "decide"}
  /\ result[c] # None
  /\ pc' = [pc EXCEPT ![c] = "dropped"]
  /\ IF slot[by[c]] = [call |-> c, active |-> FALSE]
       THEN Free(by[c]) ELSE UNCHANGED slot
  /\ UNCHANGED <<tls, at, caller, by, emitting, reply, events, app>>

-----------------------------------------------------------------------------
(* Returning                                                               *)

Return(c, r, key) ==
  /\ pc' = [pc EXCEPT ![c] = "over"]
  /\ result' = [result EXCEPT ![c] = r]
  /\ known' = key
  /\ UNCHANGED <<tls, at, req, server, app>>

IntoError(c) == [kind |-> "status", status |-> reply[c].status]

Replied(c, path) == pc[c] = "replied" /\ result[c] = None /\ req[c].url.path = path

\* The v3 client does not look at the status, which is always 200.
RegisterReturnsV3(c) ==
  /\ Replied(c, "register") /\ req[c].url.version = "v3"
  /\ Return(c, [kind |-> "ok", body |-> reply[c].body], IF tls THEN by[c] ELSE known)

RegisterReturnsV2(c) ==
  /\ Replied(c, "register") /\ req[c].url.version = "v2"
  /\ IF reply[c].status = 200
       THEN Return(c, [kind |-> "ok", body |-> RegisterResponseDto(reply[c].body)],
                   IF tls THEN by[c] ELSE known)
       ELSE Return(c, IntoError(c), known)

\* The certificate is looked at before the status.
PrepareOutcome(c) ==
  IF tls /\ ~VerifyCert(Certificate(by[c], TRUE, TRUE), req[c].expected)
    THEN [kind |-> "wrongKey"]
  ELSE IF reply[c].status >= 400 THEN IntoError(c)
  ELSE IF reply[c].status = 204 THEN [kind |-> "nothing"]
  ELSE [kind |-> "session", files |-> reply[c].body.files]

PrepareReturns(c) == Replied(c, "prepare-upload") /\ Return(c, PrepareOutcome(c), known)

\* Whatever the status.
CancelReturns(c) == Replied(c, "cancel") /\ Return(c, [kind |-> "ok"], known)

InfoReturns(c) ==
  /\ \/ Replied(c, "info")
     \/ Replied(c, "show")
  /\ Return(c, IF reply[c].status = 200 THEN [kind |-> "ok"] ELSE IntoError(c), known)

\* The request is lost, or the connection breaks or the time is up while its
\* handler runs or answers.
Fails(c) ==
  /\ \/ pc[c] = "sent" /\ pc' = [pc EXCEPT ![c] = "dropped"]
     \/ pc[c] \in {"emit", "decide", "replied"} /\ UNCHANGED pc
  /\ result[c] = None
  /\ result' = [result EXCEPT ![c] = [kind |-> "failed"]]
  /\ UNCHANGED <<tls, at, known, req, server, app>>

-----------------------------------------------------------------------------
(* The surroundings                                                        *)

AppReceive(d) ==
  /\ events[d] # <<>>
  /\ d \in appOpen
  /\ seen' = [seen EXCEPT ![d] = @ \cup {Head(events[d])}]
  /\ events' = [events EXCEPT ![d] = Tail(@)]
  /\ UNCHANGED <<tls, at, pc, caller, by, emitting, reply, slot, appOpen>>

AppClose(d) ==
  /\ appOpen' = appOpen \ {d} /\ d \in appOpen
  /\ events' = [events EXCEPT ![d] = <<>>]
  /\ UNCHANGED <<tls, at, pc, caller, by, emitting, reply, slot, seen>>

\* The last file is settled, or the receiving user cancels.
EndSession(d) ==
  /\ slot[d] # None /\ slot[d].active
  /\ Free(d)
  /\ UNCHANGED <<tls, at, pc, caller, by, emitting, reply, events, app>>

\* Another device gets the address.
Move ==
  /\ at' \in Devices \ {at}
  /\ UNCHANGED <<tls, pc, caller, server, app>>

Handle(c) ==
  \/ NotFound(c) \/ HandleRegisterV2(c) \/ HandleRegisterV3(c) \/ HandleInfo(c)
  \/ HandleShow(c) \/ HandlePrepareUpload(c) \/ HandleCancel(c)
  \/ Emit(c) \/ Decide(c)

Returns(c) ==
  \/ RegisterReturnsV2(c) \/ RegisterReturnsV3(c) \/ PrepareReturns(c)
  \/ CancelReturns(c) \/ InfoReturns(c)

Next ==
  \/ \E c \in Calls :
       \/ Register(c) \/ PrepareUpload(c) \/ Cancel(c) \/ Info(c) \/ Show(c)
       \/ Handle(c) \/ DropHandler(c) \/ Returns(c) \/ Fails(c)
  \/ \E d \in Devices : AppReceive(d) \/ AppClose(d) \/ EndSession(d)
  \/ Move

Spec == Init /\ [][Next]_vars

\* Requests arrive, handlers and callers run, applications take their events
\* and decide what they are asked.
FairSpec ==
  /\ Spec
  /\ \A c \in Calls : WF_vars(Handle(c)) /\ WF_vars(Returns(c))
  /\ \A d \in Devices : WF_vars(AppReceive(d))
-----------------------------------------------------------------------------
(* Properties                                                              *)

\* Every variable stays in its domain; the channels within their capacity.
TypeOK ==
  /\ tls \in BOOLEAN
  /\ at \in Devices
  /\ known \in Devices \cup {NoKey}
  /\ pc \in [Calls -> {"idle", "sent", "emit", "decide", "replied", "over", "dropped"}]
  /\ by \in [Calls -> Devices \cup {None}]
  /\ slot \in [Devices -> {None} \cup [call : Calls, active : BOOLEAN]]
  /\ \A d \in Devices : Len(events[d]) <= Capacity
  /\ appOpen \subseteq Devices

\* A caller that was refused, or told that there is nothing to transfer, never
\* leaves a session behind: that takes a response it did not get or not trust.
RefusedMeansNoSession ==
  \A c \in Calls, d \in Devices :
    /\ result[c] # None
    /\ result[c].kind \in {"status", "nothing"}
    => slot[d] = None \/ slot[d].call # c

\* What is answered with success was told to the application, as long as there
\* is one: registrations with a proven fingerprint, requests to show, cancels.
AnsweredMeansDelivered ==
  \A c \in Calls :
    /\ result[c] # None
    /\ result[c].kind = "ok"
    /\ by[c] \in appOpen
    /\ req[c].url.version = "v2"
    /\ \/ req[c].url.path \in {"show", "cancel"}
       \/ req[c].url.path = "register" /\ (tls => req[c].body.fingerprint = Me)
    => emitting[c] \in seen[by[c]] \cup {events[by[c]][i] : i \in DOMAIN events[by[c]]}

\* Every call returns, with channels that fill up, applications that leave and
\* an address that moves.
CallsReturn == \A c \in Calls : pc[c] = "sent" ~> result[c] # None
=============================================================================
