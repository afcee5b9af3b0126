------------------------------ MODULE WebSend ------------------------------
(***************************************************************************)
(* The download API of the Rust core: the handlers of                      *)
(* core/src/http/server/web.rs with the bridge that keeps their responders *)
(* for the application (localsend_isolates/rust/src/api/server.rs) on one  *)
(* side and the download client (core/src/http/client/v2.rs) on the other. *)
(* A session is keyed by the address of the client, so all requests of a   *)
(* client share one entry of the session map; the bridge keys its          *)
(* responders by session, and by file.  Steps and drops are those of       *)
(* UploadServer.                                                           *)
(***************************************************************************)
EXTENDS PinAttempts, FiniteSets

CONSTANTS
  Requests,        \* prepare-download requests
  Downloads,       \* download requests
  Files,           \* the files offered
  None,            \* no session or no such file
  Size,            \* chunks of a file as its metadata says
  OnAndroid,       \* does the application run on Android?
  Capacity,        \* capacity of the event channel
  UnguardedDrops   \* may a future be dropped where its guard is disarmed?

ASSUME WebSendAssumption ==
  /\ Requests \cap Downloads = {}
  /\ None \notin Ips \cup Files
  /\ Size \in Nat
  /\ Capacity \in Nat \ {0}
  /\ {UnguardedDrops, OnAndroid} \subseteq BOOLEAN

VARIABLES
  sessions,    \* WebPageState::sessions, by client: "none", "pending" or "accepted"
  reqPc,       \* control point of each prepare-download request
  from,        \* client of each request and download
  query,       \* the session a request or download names, with a PIN or a file
  decision,    \* what the decision channel of the request holds
  dlPc,        \* control point of each download request
  events,      \* the event channel: the request each event asks about
  appOpen,     \* the application still holds the receiver of the channel
  held,        \* requests and downloads whose responder the bridge holds
  streamed,    \* chunks of each download the server has put on its connection
  written,     \* chunks of each download the client has written
  latest       \* history: the last request that entered each client's session

body == <<streamed, written>>
webVars == <<sessions, reqPc, from, query, decision, dlPc, events, appOpen, held, body,
             latest>>
vars == <<pinVars, webVars>>

Init ==
  /\ PinInit
  /\ sessions = [ip \in Ips |-> "none"]
  /\ reqPc = [r \in Requests |-> "idle"]
  /\ from \in [Requests \cup Downloads -> Ips]
  /\ query = [x \in Requests \cup Downloads |-> None]
  /\ decision = [x \in Requests \cup Downloads |-> "none"]
  /\ dlPc = [d \in Downloads |-> "idle"]
  /\ events = <<>>
  /\ appOpen = TRUE
  /\ held = {}
  /\ streamed = [d \in Downloads |-> 0]
  /\ written = [d \in Downloads |-> 0]
  /\ latest = [ip \in Ips |-> {}]

-----------------------------------------------------------------------------
(* prepare_download                                                        *)

ReqGoto(r, from_, to) == reqPc[r] = from_ /\ reqPc' = [reqPc EXCEPT ![r] = to]

SendEvent(x) == appOpen /\ Len(events) < Capacity /\ events' = Append(events, x)

\* The client names the session of an earlier list, a PIN, both or neither.
CallPrepare(r, session, pin) ==
  /\ ReqGoto(r, "idle", "sent")
  /\ query' = [query EXCEPT ![r] = [session |-> session, pin |-> pin]]
  /\ UNCHANGED <<pinVars, sessions, from, decision, dlPc, events, appOpen, held, body, latest>>

\* sessions.get(session_id).is_some_and(accepted && ip == client): the only
\* session a client can use is the one of its own address.
Granted(x) == query[x].session = from[x] /\ sessions[from[x]] = "accepted"

\* The query is of no further use once the handler read it.
Parsed(x) == query' = [query EXCEPT ![x] = None]

\* An accepted client that names its session gets the list again, without PIN.
Refetch(r) ==
  /\ ReqGoto(r, "sent", "listed")
  /\ Granted(r)
  /\ Parsed(r)
  /\ UNCHANGED <<pinVars, sessions, from, decision, dlPc, events, appOpen, held, body, latest>>

PrepareArrive(r) ==
  /\ reqPc[r] = "sent" /\ ~Granted(r)
  /\ CheckPin(from[r], query[r].pin)
  /\ ReqGoto(r, "sent", IF PinOutcome(from[r], query[r].pin) = "ok" THEN "enter" ELSE "refused")
  /\ Parsed(r)
  /\ UNCHANGED <<sessions, from, decision, dlPc, events, appOpen, held, body, latest>>

\* Mutant: the new entry counts as accepted.
EnterSessionAccepted(r) ==
  /\ ReqGoto(r, "enter", "announce")
  /\ sessions' = [sessions EXCEPT ![from[r]] = "accepted"]
  /\ latest' = [latest EXCEPT ![from[r]] = {r}]
  /\ UNCHANGED <<pinVars, from, query, decision, dlPc, events, appOpen, held, body>>

\* The entry of the client is replaced, whoever made it.
EnterSession(r) ==
  /\ ReqGoto(r, "enter", "announce")
  /\ sessions' = [sessions EXCEPT ![from[r]] = "pending"]
  /\ latest' = [latest EXCEPT ![from[r]] = {r}]
  /\ UNCHANGED <<pinVars, from, query, decision, dlPc, events, appOpen, held, body>>

AnnounceRequest(r) ==
  /\ \/ ReqGoto(r, "announce", "decide") /\ SendEvent(r)
     \/ ReqGoto(r, "announce", "cleanup") /\ ~appOpen /\ UNCHANGED events
  /\ UNCHANGED <<pinVars, sessions, from, query, decision, dlPc, appOpen, held, body, latest>>

TakeDecision(r) ==
  /\ \/ decision[r] = "accept" /\ ReqGoto(r, "decide", "accept")
     \/ decision[r] = "decline" /\ ReqGoto(r, "decide", "clear")
     \/ decision[r] = "dropped" /\ ReqGoto(r, "decide", "cleanup")
  /\ UNCHANGED <<pinVars, sessions, from, query, decision, dlPc, events, appOpen, held, body, latest>>

\* Whatever entry the client has now is accepted; the response is 200 even
\* when it has none.
AcceptSession(r) ==
  /\ ReqGoto(r, "accept", "listed")
  /\ sessions' = [sessions EXCEPT ![from[r]] = IF @ = "none" THEN @ ELSE "accepted"]
  /\ UNCHANGED <<pinVars, from, query, decision, dlPc, events, appOpen, held, body, latest>>

ClearPendingSession(ip) ==
  sessions' = [sessions EXCEPT ![ip] = IF @ = "pending" THEN "none" ELSE @]

\* clear() of a declined request, or the task a dropped guard spawned.
RemovePending(r) ==
  /\ ReqGoto(r, "clear", "rejected") \/ ReqGoto(r, "cleanup", "rejected")
  /\ ClearPendingSession(from[r])
  /\ UNCHANGED <<pinVars, from, query, decision, dlPc, events, appOpen, held, body, latest>>

\* Mutant: the guard does nothing on drop.
DropRequestLeaks(r) ==
  /\ \E pc \in {"enter", "announce", "decide", "accept"} : ReqGoto(r, pc, "rejected")
  /\ UNCHANGED <<pinVars, sessions, from, query, decision, dlPc, events, appOpen, held, body, latest>>

DropRequest(r) ==
  /\ \/ ReqGoto(r, "enter", "rejected")
     \/ \E pc \in {"announce", "decide", "accept"} : ReqGoto(r, pc, "cleanup")
     \/ UnguardedDrops /\ ReqGoto(r, "clear", "leaked")
  /\ UNCHANGED <<pinVars, sessions, from, query, decision, dlPc, events, appOpen, held, body, latest>>

\* Only a 200 gives the caller a list; a caller the PIN check refused may ask
\* again.
PrepareReturns(r) ==
  /\ \/ ReqGoto(r, "listed", "ok")
     \/ ReqGoto(r, "rejected", "error")
     \/ ReqGoto(r, "refused", "idle")
  /\ UNCHANGED <<pinVars, sessions, from, query, decision, dlPc, events, appOpen, held, body, latest>>

-----------------------------------------------------------------------------
(* download                                                                *)

DlGoto(d, from_, to) == dlPc[d] = from_ /\ dlPc' = [dlPc EXCEPT ![d] = to]

CallDownload(d, session, f) ==
  /\ DlGoto(d, "idle", "sent")
  /\ query' = [query EXCEPT ![d] = [session |-> session, file |-> f]]
  /\ UNCHANGED <<pinVars, sessions, reqPc, from, decision, events, appOpen, held, body, latest>>

ValidateDownload(d) ==
  /\ dlPc[d] = "sent"
  /\ IF Granted(d) /\ query[d].file \in Files
       THEN DlGoto(d, "sent", "announce") /\ UNCHANGED query
       ELSE DlGoto(d, "sent", "refused") /\ Parsed(d)
  /\ UNCHANGED <<pinVars, sessions, reqPc, from, decision, events, appOpen, held, body, latest>>

AnnounceDownload(d) ==
  /\ \/ DlGoto(d, "announce", "content") /\ SendEvent(d)
     \/ DlGoto(d, "announce", "refused") /\ ~appOpen /\ UNCHANGED events
  /\ UNCHANGED <<pinVars, sessions, reqPc, from, query, decision, appOpen, held, body, latest>>

TakeContent(d) ==
  /\ \/ decision[d] = "accept" /\ DlGoto(d, "content", "stream")
     \/ decision[d] = "dropped" /\ DlGoto(d, "content", "refused")
  /\ UNCHANGED <<pinVars, sessions, reqPc, from, query, decision, events, appOpen, held, body, latest>>

\* The connection carries no more than the size the header declares, however
\* long the file is by now.
StreamChunk(d) ==
  /\ dlPc[d] = "stream"
  /\ streamed[d] < Size
  /\ streamed' = [streamed EXCEPT ![d] = @ + 1]
  /\ UNCHANGED <<pinVars, sessions, reqPc, from, query, decision, dlPc, events, appOpen, held,
                 written, latest>>

\* Mutant: without a declared size the end of the stream is the end of the body.
StreamEndsAnyhow(d) ==
  /\ DlGoto(d, "stream", "complete")
  /\ UNCHANGED <<pinVars, sessions, reqPc, from, query, decision, events, appOpen, held, body, latest>>

\* The source is at its end, or a read failed: the stream cannot tell which,
\* the declared size can.
StreamEnds(d) ==
  /\ DlGoto(d, "stream", IF streamed[d] = Size THEN "complete" ELSE "aborted")
  /\ UNCHANGED <<pinVars, sessions, reqPc, from, query, decision, events, appOpen, held, body, latest>>

\* The caller writes what arrives; an aborted body may lose its last chunks.
WriteChunk(d) ==
  /\ dlPc[d] \in {"stream", "complete", "aborted"}
  /\ \/ /\ written[d] < streamed[d]
        /\ written' = [written EXCEPT ![d] = @ + 1]
        /\ UNCHANGED dlPc
     \/ /\ \/ written[d] = streamed[d] /\ DlGoto(d, "complete", "saved")
           \/ DlGoto(d, "aborted", "broken")
        /\ UNCHANGED written
  /\ UNCHANGED <<pinVars, sessions, reqPc, from, query, decision, events, appOpen, held,
                 streamed, latest>>

DropDownload(d) ==
  /\ \/ \E pc \in {"announce", "content"} : DlGoto(d, pc, "refused")
     \/ \E pc \in {"stream", "complete"} : DlGoto(d, pc, "broken")
  /\ UNCHANGED <<pinVars, sessions, reqPc, from, query, decision, events, appOpen, held, body, latest>>

-----------------------------------------------------------------------------
(* The bridge and the application                                          *)

Waiting(x) == IF x \in Requests THEN reqPc[x] = "decide" ELSE dlPc[x] = "content"

Tell(xs, answer) ==
  decision' = [x \in Requests \cup Downloads |->
                 IF x \in xs /\ Waiting(x) THEN answer ELSE decision[x]]

\* The session, and for a download the file, by which the bridge keeps x.
Key(x) == IF x \in Requests THEN <<from[x], None>> ELSE <<query[x].session, query[x].file>>

\* An older responder with the key of the new one is dropped.
AppReceive ==
  /\ events # <<>>
  /\ LET x == Head(events)
         older == {y \in held : Key(y) = Key(x)}
     IN held' = (held \ older) \cup {x} /\ Tell(older, "dropped")
  /\ events' = Tail(events)
  /\ UNCHANGED <<pinVars, sessions, reqPc, from, query, dlPc, appOpen, body, latest>>

\* Whether or not the request still waits, its responder is used up.
Respond(x, answer) ==
  /\ x \in held
  /\ held' = held \ {x}
  /\ Tell({x}, answer)
  /\ UNCHANGED <<pinVars, sessions, reqPc, from, query, dlPc, events, appOpen, body, latest>>

RespondPrepare(r, accept) == Respond(r, IF accept THEN "accept" ELSE "decline")

\* A path or a file descriptor, never both, and a descriptor only on Android.
ResolveFileContent(path, fd) == path # fd /\ (fd => OnAndroid)

\* A source the bridge cannot resolve drops the responder.
RespondDownload(d, path, fd) ==
  Respond(d, IF ResolveFileContent(path, fd) THEN "accept" ELSE "dropped")

RejectDownload(d) == Respond(d, "dropped")

AppClose ==
  /\ appOpen
  /\ appOpen' = FALSE
  /\ Tell(held \cup {events[i] : i \in DOMAIN events}, "dropped")
  /\ events' = <<>>
  /\ held' = {}
  /\ UNCHANGED <<pinVars, sessions, reqPc, from, query, dlPc, body, latest>>

Next ==
  \/ \E r \in Requests :
       \/ \E session \in Ips \cup {None}, pin \in Pins \cup {NoPin} :
            CallPrepare(r, session, pin)
       \/ Refetch(r) \/ PrepareArrive(r) \/ EnterSession(r) \/ AnnounceRequest(r)
       \/ TakeDecision(r) \/ AcceptSession(r) \/ RemovePending(r) \/ DropRequest(r)
       \/ PrepareReturns(r)
       \/ \E accept \in BOOLEAN : RespondPrepare(r, accept)
  \/ \E d \in Downloads :
       \/ \E session \in Ips, f \in Files \cup {None} : CallDownload(d, session, f)
       \/ ValidateDownload(d) \/ AnnounceDownload(d) \/ TakeContent(d)
       \/ StreamChunk(d) \/ StreamEnds(d) \/ WriteChunk(d) \/ DropDownload(d)
       \/ \E path, fd \in BOOLEAN : RespondDownload(d, path, fd)
       \/ RejectDownload(d)
  \/ AppReceive
  \/ AppClose

Spec == Init /\ [][Next]_vars
-----------------------------------------------------------------------------
(* Properties                                                              *)

\* Every variable stays in its domain; the event channel within its capacity.
TypeOK ==
  /\ PinTypeOK
  /\ sessions \in [Ips -> {"none", "pending", "accepted"}]
  /\ reqPc \in [Requests -> {"idle", "sent", "enter", "announce", "decide", "accept", "clear",
                             "cleanup", "listed", "rejected", "refused", "leaked", "ok", "error"}]
  /\ from \in [Requests \cup Downloads -> Ips]
  /\ query \in [Requests \cup Downloads ->
                   {None} \cup [session : Ips \cup {None}, pin : Pins \cup {NoPin}]
                          \cup [session : Ips, file : Files \cup {None}]]
  /\ decision \in [Requests \cup Downloads -> {"none", "accept", "decline", "dropped"}]
  /\ dlPc \in [Downloads -> {"idle", "sent", "announce", "content", "stream", "complete",
                             "aborted", "refused", "saved", "broken"}]
  /\ events \in Seq(Requests \cup Downloads)
  /\ Len(events) <= Capacity
  /\ held \in SUBSET (Requests \cup Downloads)
  /\ streamed \in [Downloads -> 0..Size]
  /\ written \in [Downloads -> 0..Size]
  /\ latest \in [Ips -> SUBSET Requests]

AcceptedByApp(ip) == \E r \in Requests : from[r] = ip /\ decision[r] = "accept"

\* Nobody downloads before the application accepted a request of that very
\* client, though sessions are shared, replaced and cleared by its requests.
OnlyAcceptedClientsDownload ==
  \A d \in Downloads :
    dlPc[d] \notin {"idle", "sent", "refused"} => AcceptedByApp(from[d])

\* A pending session is not left behind: the request that entered it last is
\* still there to accept or remove it, or was dropped where its guard was
\* disarmed already ("leaked").
PendingHasRequest ==
  \A ip \in Ips : sessions[ip] = "pending" =>
    \E r \in latest[ip] :
      reqPc[r] \in {"announce", "decide", "accept", "clear", "cleanup", "leaked"}

\* A download that returns without error has written the whole file as it was
\* announced, though its source may have become shorter or longer or fail, the
\* client may leave, and sessions come and go while it runs.
DownloadedWhole == \A d \in Downloads : dlPc[d] = "saved" => written[d] = Size

\* "One session per IP; a new request replaces any previous session of this
\* client" (web.rs:235): a client that is sent the list on the application's
\* decision has the session the list names, so that it can download.
ListMeansSession ==
  [][\A r \in Requests : reqPc[r] = "accept" /\ reqPc'[r] = "listed"
                           => sessions'[from[r]] = "accepted"]_vars
=============================================================================
