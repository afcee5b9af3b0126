--------------------------- MODULE WebSendProofs ---------------------------
(***************************************************************************)
(* Proofs about WebSend, for any number of requests, downloads, clients    *)
(* and files, any capacity of the channel and any size.                    *)
(***************************************************************************)
EXTENDS WebSend, PinAttemptsProofs

-----------------------------------------------------------------------------
(* The inductive invariant                                                 *)

Calls == Requests \cup Downloads

EarlyReqPcs == {"idle", "sent", "enter", "announce", "refused"}
EarlyDlPcs == {"idle", "sent", "announce"}

\* The event of x has not been sent.
Early(x) == \/ x \in Requests /\ reqPc[x] \in EarlyReqPcs
            \/ x \in Downloads /\ dlPc[x] \in EarlyDlPcs

Queued == {events[i] : i \in DOMAIN events}

\* A responder is in one place, and there once.
AskedOnce ==
  /\ \A i, j \in DOMAIN events : events[i] = events[j] => i = j
  /\ Queued \cap held = {}

\* It is unused until the bridge uses it.
Unanswered ==
  \A x \in Calls : /\ Early(x) => x \notin Queued \cup held
                   /\ Early(x) \/ x \in Queued \cup held => decision[x] = "none"

\* Only the application's word makes a session accepted.
AcceptedTrue ==
  /\ \A ip \in Ips : sessions[ip] = "accepted" => AcceptedByApp(ip)
  /\ \A r \in Requests : reqPc[r] = "accept" => decision[r] = "accept"

HoldingPcs == {"announce", "decide", "accept", "clear", "cleanup", "leaked"}

\* A client's entry was made by one of its own requests.
LatestOwn == \A ip \in Ips : \A r \in latest[ip] : from[r] = ip

\* A body the client takes for complete is.
CompleteIsWhole == \A d \in Downloads : dlPc[d] = "complete" => streamed[d] = Size

WebInv ==
  /\ TypeOK
  /\ AskedOnce /\ Unanswered
  /\ AcceptedTrue /\ OnlyAcceptedClientsDownload
  /\ LatestOwn /\ PendingHasRequest
  /\ CompleteIsWhole /\ DownloadedWhole

LEMMA WebInit == Init => WebInv
<1> SUFFICES ASSUME Init PROVE WebInv
  OBVIOUS
<1> USE WebSendAssumption, PinAssumption
<1>1. PinTypeOK
  <2>1. <<>> \in Seq(Attempt) /\ Len(<<>>) = 0 /\ DOMAIN <<>> = {}
    OBVIOUS
  <2> QED
    BY <2>1 DEF Init, PinInit, PinTypeOK
<1>2. TypeOK
  BY <1>1 DEF Init, TypeOK
<1> QED
  BY <1>2 DEF Init, WebInv, AskedOnce, Queued, Unanswered, AcceptedTrue, LatestOwn, Calls,
              OnlyAcceptedClientsDownload, PendingHasRequest, CompleteIsWhole, DownloadedWhole

-----------------------------------------------------------------------------
(* Types                                                                   *)

LEMMA RequestTypeOK ==
  ASSUME TypeOK, NEW r \in Requests,
         \/ \E session \in Ips \cup {None}, pin \in Pins \cup {NoPin} :
              CallPrepare(r, session, pin)
         \/ Refetch(r) \/ PrepareArrive(r) \/ EnterSession(r)
         \/ TakeDecision(r) \/ AcceptSession(r) \/ RemovePending(r) \/ DropRequest(r)
         \/ PrepareReturns(r)
  PROVE  TypeOK'
<1> USE DEF TypeOK, ReqGoto, Parsed, body
<1>1. from[r] \in Ips
  OBVIOUS
<1>2. CASE \E session \in Ips \cup {None}, pin \in Pins \cup {NoPin} :
             CallPrepare(r, session, pin)
  BY <1>2 DEF CallPrepare, PinTypeOK, pinVars
<1>3. CASE Refetch(r) \/ TakeDecision(r) \/ DropRequest(r) \/ PrepareReturns(r)
  BY <1>3 DEF Refetch, TakeDecision, DropRequest, PrepareReturns, PinTypeOK, pinVars
<1>4. CASE PrepareArrive(r)
  <2>1. PinTypeOK'
    BY <1>1, <1>4, CheckPinTypeOK DEF PrepareArrive
  <2> QED
    BY <1>4, <2>1 DEF PrepareArrive
<1>5. CASE EnterSession(r)
  BY <1>1, <1>5 DEF EnterSession, PinTypeOK, pinVars
<1>6. CASE AcceptSession(r) \/ RemovePending(r)
  <2>1. sessions' \in [Ips -> {"none", "pending", "accepted"}]
    BY <1>1, <1>6 DEF AcceptSession, RemovePending, ClearPendingSession
  <2>2. \E to \in {"listed", "rejected"} : reqPc' = [reqPc EXCEPT ![r] = to]
    BY <1>6 DEF AcceptSession, RemovePending
  <2>3. UNCHANGED <<pinVars, from, query, decision, dlPc, events, appOpen, held, body, latest>>
    BY <1>6 DEF AcceptSession, RemovePending
  <2> QED
    BY <2>1, <2>2, <2>3 DEF PinTypeOK, pinVars
<1> QED
  BY <1>2, <1>3, <1>4, <1>5, <1>6

LEMMA DownloadTypeOK ==
  ASSUME TypeOK, NEW d \in Downloads,
         \/ \E session \in Ips, f \in Files \cup {None} : CallDownload(d, session, f)
         \/ ValidateDownload(d) \/ TakeContent(d)
         \/ StreamChunk(d) \/ StreamEnds(d) \/ WriteChunk(d) \/ DropDownload(d)
  PROVE  TypeOK'
<1> USE WebSendAssumption
<1> USE DEF TypeOK, DlGoto, Parsed, body, PinTypeOK, pinVars
<1>1. CASE \E session \in Ips, f \in Files \cup {None} : CallDownload(d, session, f)
  BY <1>1 DEF CallDownload
<1>2. CASE ValidateDownload(d) \/ TakeContent(d) \/ StreamEnds(d) \/ DropDownload(d)
  BY <1>2 DEF ValidateDownload, TakeContent, StreamEnds, DropDownload
<1>3. CASE StreamChunk(d)
  BY <1>3 DEF StreamChunk
<1>4. CASE WriteChunk(d)
  <2>1. written' \in [Downloads -> 0..Size]
    <3>1. written[d] < streamed[d] => written[d] + 1 \in 0..Size
      OBVIOUS
    <3> QED
      BY <1>4, <3>1 DEF WriteChunk
  <2> QED
    BY <1>4, <2>1 DEF WriteChunk
<1> QED
  BY <1>1, <1>2, <1>3, <1>4

\* A call sends its event, or finds the channel closed.
LEMMA AnnounceTypeOK ==
  ASSUME TypeOK,
         \/ \E r \in Requests : AnnounceRequest(r)
         \/ \E d \in Downloads : AnnounceDownload(d)
  PROVE  TypeOK'
<1> USE DEF TypeOK, body, PinTypeOK, pinVars
<1>1. PICK x \in Calls : SendEvent(x) \/ UNCHANGED events
  BY DEF AnnounceRequest, AnnounceDownload, Calls
<1>2. events' \in Seq(Requests \cup Downloads) /\ Len(events') <= Capacity
  <2>1. events \in Seq(Calls) /\ Len(events) \in Nat /\ Len(events) <= Capacity
    BY DEF Calls
  <2>2. Append(events, x) \in Seq(Calls) /\ Len(Append(events, x)) = Len(events) + 1
    BY <2>1
  <2>3. CASE SendEvent(x)
    BY <2>1, <2>2, <2>3, WebSendAssumption DEF SendEvent, Calls
  <2> QED
    BY <1>1, <2>3 DEF SendEvent
<1>3. CASE \E r \in Requests : AnnounceRequest(r)
  BY <1>2, <1>3 DEF AnnounceRequest, ReqGoto
<1>4. CASE \E d \in Downloads : AnnounceDownload(d)
  BY <1>2, <1>4 DEF AnnounceDownload, DlGoto
<1> QED
  BY <1>3, <1>4

LEMMA AppTypeOK ==
  ASSUME TypeOK,
         \/ \E r \in Requests, accept \in BOOLEAN : RespondPrepare(r, accept)
         \/ \E d \in Downloads : \/ \E path, fd \in BOOLEAN : RespondDownload(d, path, fd)
                                 \/ RejectDownload(d)
         \/ AppReceive \/ AppClose
  PROVE  TypeOK'
<1> USE DEF TypeOK, body, PinTypeOK, pinVars
<1>1. ASSUME NEW xs, NEW answer \in {"accept", "decline", "dropped"}, Tell(xs, answer)
      PROVE  decision' \in [Requests \cup Downloads -> {"none", "accept", "decline", "dropped"}]
  BY <1>1 DEF Tell
<1>2. ASSUME NEW x \in Calls, NEW answer \in {"accept", "decline", "dropped"}, Respond(x, answer)
      PROVE  TypeOK'
  BY <1>1, <1>2 DEF Respond
<1>3. CASE \E r \in Requests, accept \in BOOLEAN : RespondPrepare(r, accept)
  BY <1>2, <1>3 DEF RespondPrepare, Calls
<1>4. CASE \E d \in Downloads : \/ \E path, fd \in BOOLEAN : RespondDownload(d, path, fd)
                                \/ RejectDownload(d)
  BY <1>2, <1>4 DEF RespondDownload, RejectDownload, Calls
<1>5. CASE AppReceive
  <2>1. /\ Tail(events) \in Seq(Requests \cup Downloads) /\ Len(Tail(events)) <= Len(events)
        /\ Head(events) \in Requests \cup Downloads /\ Len(Tail(events)) \in Nat
        /\ Len(events) \in Nat
    BY <1>5 DEF AppReceive
  <2>2. held' \in SUBSET (Requests \cup Downloads)
    BY <1>5, <2>1 DEF AppReceive
  <2>3. decision' \in [Requests \cup Downloads -> {"none", "accept", "decline", "dropped"}]
    BY <1>1, <1>5 DEF AppReceive
  <2> QED
    BY <1>5, <2>1, <2>2, <2>3, WebSendAssumption DEF AppReceive
<1>6. CASE AppClose
  <2>1. <<>> \in Seq(Requests \cup Downloads) /\ Len(<<>>) <= Capacity
    BY WebSendAssumption
  <2> QED
    BY <1>1, <1>6, <2>1 DEF AppClose
<1> QED
  BY <1>3, <1>4, <1>5, <1>6

LEMMA WebTypeOK == TypeOK /\ [Next]_vars => TypeOK'
<1> SUFFICES ASSUME TypeOK, [Next]_vars PROVE TypeOK'
  OBVIOUS
<1>1. CASE UNCHANGED vars
  BY <1>1 DEF vars, webVars, pinVars, body, TypeOK, PinTypeOK
<1> QED
  BY <1>1, RequestTypeOK, DownloadTypeOK, AnnounceTypeOK, AppTypeOK DEF Next

-----------------------------------------------------------------------------
(* Steps of a request                                                      *)

\* A step that moves one request and touches no session, responder or event.
LEMMA QuietRequest ==
  ASSUME WebInv, TypeOK', NEW r \in Requests, NEW to,
         reqPc' = [reqPc EXCEPT ![r] = to],
         UNCHANGED <<sessions, from, decision, dlPc, events, held, body, latest>>,
         to \in EarlyReqPcs => reqPc[r] \in EarlyReqPcs,
         to = "accept" => decision[r] = "accept",
         reqPc[r] \in HoldingPcs => to \in HoldingPcs
  PROVE  WebInv'
<1> USE DEF WebInv, body
<1>1. DOMAIN reqPc = Requests
  BY DEF TypeOK
<1>2. AskedOnce' /\ Unanswered'
  BY <1>1, WebSendAssumption DEF AskedOnce, Unanswered, Queued, Early
<1>3. AcceptedTrue' /\ OnlyAcceptedClientsDownload'
  BY <1>1 DEF AcceptedTrue, OnlyAcceptedClientsDownload, AcceptedByApp
<1>4. LatestOwn' /\ PendingHasRequest'
  BY <1>1 DEF LatestOwn, PendingHasRequest, HoldingPcs, TypeOK
<1>5. CompleteIsWhole' /\ DownloadedWhole'
  BY DEF CompleteIsWhole, DownloadedWhole
<1> QED
  BY <1>2, <1>3, <1>4, <1>5

\* A step that changes the session of one request's client.
LEMMA SessionStep ==
  ASSUME WebInv, TypeOK', NEW r \in Requests,
         EnterSession(r) \/ AcceptSession(r) \/ RemovePending(r)
  PROVE  WebInv'
<1> USE DEF WebInv, body, ReqGoto
<1>1. /\ DOMAIN reqPc = Requests /\ DOMAIN sessions = Ips
      /\ latest \in [Ips -> SUBSET Requests] /\ from[r] \in Ips
      /\ UNCHANGED <<from, decision, dlPc, events, held, body>>
  BY DEF TypeOK, EnterSession, AcceptSession, RemovePending
<1>2. \/ /\ reqPc' = [reqPc EXCEPT ![r] = "announce"] /\ reqPc[r] = "enter"
         /\ sessions' = [sessions EXCEPT ![from[r]] = "pending"]
         /\ latest' = [latest EXCEPT ![from[r]] = {r}]
      \/ /\ reqPc' = [reqPc EXCEPT ![r] = "listed"] /\ decision[r] = "accept"
         /\ reqPc[r] \notin EarlyReqPcs
         /\ sessions' = [sessions EXCEPT ![from[r]] = IF @ = "none" THEN @ ELSE "accepted"]
         /\ latest' = latest
      \/ /\ reqPc' = [reqPc EXCEPT ![r] = "rejected"]
         /\ reqPc[r] \notin EarlyReqPcs
         /\ sessions' = [sessions EXCEPT ![from[r]] = IF @ = "pending" THEN "none" ELSE @]
         /\ latest' = latest
  BY DEF EnterSession, AcceptSession, RemovePending, ClearPendingSession, AcceptedTrue, EarlyReqPcs
<1>3. AskedOnce' /\ Unanswered'
  BY <1>1, <1>2, WebSendAssumption DEF AskedOnce, Unanswered, Queued, Early, EarlyReqPcs
<1>4. AcceptedTrue'
  <2>1. \A ip \in Ips : AcceptedByApp(ip)' <=> AcceptedByApp(ip)
    BY <1>1 DEF AcceptedByApp
  <2>2. decision[r] = "accept" => AcceptedByApp(from[r])
    BY DEF AcceptedByApp
  <2> QED
    BY <1>1, <1>2, <2>1, <2>2 DEF AcceptedTrue
<1>5. OnlyAcceptedClientsDownload'
  BY <1>1 DEF OnlyAcceptedClientsDownload, AcceptedByApp
<1>6. LatestOwn'
  BY <1>1, <1>2 DEF LatestOwn
<1>7. PendingHasRequest'
  <2>1. SUFFICES ASSUME NEW ip \in Ips, sessions'[ip] = "pending"
                 PROVE  \E q \in latest'[ip] : reqPc'[q] \in HoldingPcs
    BY DEF PendingHasRequest, HoldingPcs
  <2>2. CASE ip = from[r]
    BY <1>1, <1>2, <2>1, <2>2 DEF HoldingPcs
  <2>3. CASE ip # from[r]
    \* The request of the entry is another one.
    BY <1>1, <1>2, <2>1, <2>3 DEF LatestOwn, PendingHasRequest, HoldingPcs
  <2> QED
    BY <2>2, <2>3
<1>8. CompleteIsWhole' /\ DownloadedWhole'
  BY <1>1 DEF CompleteIsWhole, DownloadedWhole
<1> QED
  BY <1>3, <1>4, <1>5, <1>6, <1>7, <1>8

-----------------------------------------------------------------------------
(* Steps of a download                                                     *)

\* A step of a download touches no session, responder or event.
LEMMA QuietDownload ==
  ASSUME WebInv, TypeOK',
         UNCHANGED <<sessions, reqPc, from, decision, events, held, latest>>,
         \A c \in Downloads :
           /\ dlPc'[c] \in EarlyDlPcs => dlPc[c] \in EarlyDlPcs
           /\ dlPc'[c] \notin {"idle", "sent", "refused"} =>
                dlPc[c] \notin {"idle", "sent", "refused"} \/ AcceptedByApp(from[c]),
         \A c \in Downloads : dlPc'[c] = "complete" => streamed'[c] = Size,
         \A c \in Downloads : dlPc'[c] = "saved" => written'[c] = Size
  PROVE  WebInv'
<1> USE DEF WebInv
<1>1. from \in [Calls -> Ips]
  BY DEF TypeOK, Calls
<1>2. AskedOnce' /\ Unanswered'
  BY <1>1, WebSendAssumption DEF AskedOnce, Unanswered, Queued, Early
<1>3. AcceptedTrue' /\ OnlyAcceptedClientsDownload'
  BY <1>1 DEF AcceptedTrue, OnlyAcceptedClientsDownload, AcceptedByApp
<1>4. LatestOwn' /\ PendingHasRequest'
  BY DEF LatestOwn, PendingHasRequest
<1>5. CompleteIsWhole' /\ DownloadedWhole'
  BY DEF CompleteIsWhole, DownloadedWhole
<1> QED
  BY <1>2, <1>3, <1>4, <1>5

LEMMA DownloadStep ==
  ASSUME WebInv, TypeOK', NEW d \in Downloads,
         \/ \E session \in Ips, f \in Files \cup {None} : CallDownload(d, session, f)
         \/ ValidateDownload(d) \/ TakeContent(d)
         \/ StreamChunk(d) \/ StreamEnds(d) \/ WriteChunk(d) \/ DropDownload(d)
  PROVE  WebInv'
<1> USE DEF DlGoto, body
<1>1. /\ DOMAIN dlPc = Downloads /\ from[d] \in Ips
      /\ streamed \in [Downloads -> 0..Size] /\ written \in [Downloads -> 0..Size]
      /\ \A c \in Downloads : dlPc[c] = "complete" => streamed[c] = Size
      /\ \A c \in Downloads : dlPc[c] = "saved" => written[c] = Size
  BY DEF WebInv, TypeOK, CompleteIsWhole, DownloadedWhole
<1>2. CASE \E session \in Ips, f \in Files \cup {None} : CallDownload(d, session, f)
  BY <1>1, <1>2, QuietDownload DEF CallDownload, EarlyDlPcs
<1>3. CASE ValidateDownload(d)
  <2>1. Granted(d) => AcceptedByApp(from[d])
    BY <1>1 DEF Granted, WebInv, AcceptedTrue
  <2> QED
    BY <1>1, <1>3, <2>1, QuietDownload DEF ValidateDownload, EarlyDlPcs
<1>4. CASE TakeContent(d)
  BY <1>1, <1>4, QuietDownload DEF TakeContent, EarlyDlPcs
<1>5. CASE StreamChunk(d)
  BY <1>1, <1>5, QuietDownload DEF StreamChunk
<1>6. CASE StreamEnds(d)
  BY <1>1, <1>6, QuietDownload DEF StreamEnds, EarlyDlPcs
<1>7. CASE WriteChunk(d)
  <2>1. CASE written[d] < streamed[d] /\ written' = [written EXCEPT ![d] = @ + 1] /\ UNCHANGED dlPc
    BY <1>1, <1>7, <2>1, QuietDownload DEF WriteChunk
  <2>2. CASE written[d] = streamed[d] /\ DlGoto(d, "complete", "saved") /\ UNCHANGED written
    BY <1>1, <1>7, <2>2, QuietDownload DEF WriteChunk, EarlyDlPcs
  <2>3. CASE DlGoto(d, "aborted", "broken") /\ UNCHANGED written
    BY <1>1, <1>7, <2>3, QuietDownload DEF WriteChunk, EarlyDlPcs
  <2> QED
    BY <1>7, <2>1, <2>2, <2>3 DEF WriteChunk
<1>8. CASE DropDownload(d)
  BY <1>1, <1>8, QuietDownload DEF DropDownload, EarlyDlPcs
<1> QED
  BY <1>2, <1>3, <1>4, <1>5, <1>6, <1>7, <1>8

-----------------------------------------------------------------------------
(* Responders                                                              *)

\* An event is sent once, while its responder is unused.
LEMMA AnnounceStep ==
  ASSUME WebInv, TypeOK',
         \/ \E r \in Requests : AnnounceRequest(r)
         \/ \E d \in Downloads : AnnounceDownload(d)
  PROVE  WebInv'
<1> USE WebSendAssumption
<1> USE DEF WebInv, body
<1>1. PICK x \in Calls :
        /\ \/ x \in Requests /\ reqPc[x] = "announce" /\ dlPc' = dlPc
              /\ \E to \in {"decide", "cleanup"} : reqPc' = [reqPc EXCEPT ![x] = to]
           \/ x \in Downloads /\ dlPc[x] = "announce" /\ reqPc' = reqPc
              /\ \E to \in {"content", "refused"} : dlPc' = [dlPc EXCEPT ![x] = to]
        /\ SendEvent(x) \/ UNCHANGED events
  BY DEF AnnounceRequest, AnnounceDownload, Calls, ReqGoto, DlGoto
<1>2. /\ UNCHANGED <<sessions, from, decision, held, streamed, written, latest>>
      /\ DOMAIN reqPc = Requests /\ DOMAIN dlPc = Downloads
  BY DEF AnnounceRequest, AnnounceDownload, TypeOK
<1>3. x \notin Queued \cup held /\ decision[x] = "none"
  BY <1>1 DEF Unanswered, Early, EarlyReqPcs, EarlyDlPcs
<1>4. AskedOnce' /\ Queued' \subseteq Queued \cup {x}
  <2>1. CASE events' = Append(events, x)
    <3>1. /\ events \in Seq(Calls) /\ Len(events) \in Nat
          /\ DOMAIN events = 1..Len(events) /\ DOMAIN events' = 1..(Len(events) + 1)
          /\ \A i \in 1..Len(events) : events'[i] = events[i]
          /\ events'[Len(events) + 1] = x
      BY <2>1 DEF TypeOK, Calls
    <3>2. Queued' = Queued \cup {x}
      BY <3>1 DEF Queued
    <3>3. \A i, j \in DOMAIN events' : events'[i] = events'[j] => i = j
      BY <1>3, <3>1 DEF AskedOnce, Queued
    <3> QED
      BY <1>2, <1>3, <3>2, <3>3 DEF AskedOnce
  <2>2. CASE events' = events
    BY <1>2, <2>2 DEF AskedOnce, Queued
  <2> QED
    BY <1>1, <2>1, <2>2 DEF SendEvent
<1>5. ~Early(x)' /\ \A y \in Calls \ {x} : Early(y)' <=> Early(y)
  BY <1>1, <1>2 DEF Early, EarlyReqPcs, EarlyDlPcs, Calls
<1>6. Unanswered'
  <2> HIDE DEF WebInv
  <2>1. \A y \in Calls : /\ Early(y)' => y \notin Queued' \cup held'
                         /\ Early(y)' \/ y \in Queued' \cup held' => decision'[y] = "none"
    BY <1>2, <1>3, <1>4, <1>5 DEF WebInv, Unanswered
  <2> QED
    BY <2>1 DEF Unanswered
<1>7. AcceptedTrue'
  BY <1>1, <1>2 DEF AcceptedTrue, AcceptedByApp
<1>8. OnlyAcceptedClientsDownload'
  BY <1>1, <1>2 DEF OnlyAcceptedClientsDownload, AcceptedByApp
<1>9. LatestOwn' /\ PendingHasRequest'
  <2>1. \A r \in Requests : reqPc[r] \in HoldingPcs => reqPc'[r] \in HoldingPcs
    BY <1>1, <1>2 DEF HoldingPcs
  <2>2. \A ip \in Ips : latest[ip] \subseteq Requests
    BY DEF TypeOK
  <2> QED
    BY <1>2, <2>1, <2>2 DEF LatestOwn, PendingHasRequest, HoldingPcs
<1>10. CompleteIsWhole' /\ DownloadedWhole'
  BY <1>1, <1>2 DEF CompleteIsWhole, DownloadedWhole
<1> QED
  BY <1>4, <1>6, <1>7, <1>8, <1>9, <1>10

\* Responders are used once: an answer given is not taken back.
LEMMA ResponderStep ==
  ASSUME WebInv, TypeOK',
         UNCHANGED <<sessions, reqPc, from, dlPc, body, latest>>,
         NEW xs \in SUBSET (Queued \cup held), NEW answer, Tell(xs, answer),
         AskedOnce', Queued' \cup held' \subseteq (Queued \cup held) \ xs
  PROVE  WebInv'
<1> USE DEF WebInv, body
<1>1. \A x \in Calls : x \in xs \/ decision'[x] = decision[x]
  BY DEF Tell, Calls
<1>2. Unanswered'
  BY <1>1, Zenon DEF Unanswered, Early
<1>3. \A r \in Requests : decision[r] = "accept" => decision'[r] = "accept"
  BY <1>1 DEF Unanswered, Calls
<1>4. \A ip \in Ips : AcceptedByApp(ip) => AcceptedByApp(ip)'
  BY <1>3 DEF AcceptedByApp
<1>5. AcceptedTrue'
  BY <1>3, <1>4 DEF AcceptedTrue
<1>6. OnlyAcceptedClientsDownload'
  BY <1>4 DEF OnlyAcceptedClientsDownload, TypeOK
<1>7. LatestOwn' /\ PendingHasRequest' /\ CompleteIsWhole' /\ DownloadedWhole'
  BY DEF LatestOwn, PendingHasRequest, CompleteIsWhole, DownloadedWhole
<1> QED
  BY <1>2, <1>5, <1>6, <1>7

LEMMA AppStep ==
  ASSUME WebInv, TypeOK',
         \/ \E r \in Requests, accept \in BOOLEAN : RespondPrepare(r, accept)
         \/ \E d \in Downloads : \/ \E path, fd \in BOOLEAN : RespondDownload(d, path, fd)
                                 \/ RejectDownload(d)
         \/ AppReceive \/ AppClose
  PROVE  WebInv'
<1>1. AskedOnce
  BY DEF WebInv
<1>2. ASSUME NEW x, NEW answer, Respond(x, answer)
      PROVE  WebInv'
  <2>1. AskedOnce' /\ Queued' \cup held' \subseteq (Queued \cup held) \ {x}
    BY <1>1, <1>2 DEF Respond, AskedOnce, Queued
  <2>2. {x} \in SUBSET (Queued \cup held)
    BY <1>2 DEF Respond
  <2> QED
    BY <1>2, <2>1, <2>2, ResponderStep DEF Respond
<1>3. CASE AppReceive
  <2> DEFINE x == Head(events)
             older == {y \in held : Key(y) = Key(x)}
  <2>1. /\ events \in Seq(Requests \cup Downloads) /\ events # <<>>
        /\ Len(events) \in Nat \ {0} /\ DOMAIN events = 1..Len(events)
        /\ events' = Tail(events) /\ DOMAIN events' = 1..(Len(events) - 1)
        /\ \A i \in 1..(Len(events) - 1) : events'[i] = events[i + 1]
        /\ x = events[1]
    BY <1>3 DEF AppReceive, WebInv, TypeOK
  <2>2. /\ x \in Queued /\ x \notin held /\ x \notin Queued' /\ Queued' \subseteq Queued
        /\ \A i, j \in DOMAIN events' : events'[i] = events'[j] => i = j
    <3>1. 1 \in DOMAIN events
      BY <2>1
    <3>2. \A i \in 1..(Len(events) - 1) : i + 1 \in 1..Len(events) /\ i + 1 # 1
      BY <2>1
    <3>3. \A i, j \in 1..(Len(events) - 1) : i + 1 = j + 1 => i = j
      BY <2>1
    <3> HIDE DEF x
    <3> QED
      BY <1>1, <2>1, <3>1, <3>2, <3>3 DEF AskedOnce, Queued
  <2>3. held' = (held \ older) \cup {x} /\ Tell(older, "dropped")
    BY <1>3 DEF AppReceive
  <2>4. UNCHANGED <<sessions, reqPc, from, dlPc, body, latest>>
    BY <1>3 DEF AppReceive
  <2> HIDE DEF x
  <2>5. AskedOnce' /\ Queued' \cup held' \subseteq (Queued \cup held) \ older
    BY <1>1, <2>2, <2>3 DEF AskedOnce
  <2>6. older \in SUBSET (Queued \cup held)
    OBVIOUS
  <2> HIDE DEF older
  <2> QED
    BY <2>3, <2>4, <2>5, <2>6, ResponderStep
<1>4. CASE AppClose
  <2>1. events' = <<>> /\ held' = {} /\ Queued' = {} /\ Tell(held \cup Queued, "dropped")
    BY <1>4 DEF AppClose, Queued
  <2>2. AskedOnce'
    BY <2>1 DEF AskedOnce
  <2> QED
    BY <1>4, <2>1, <2>2, ResponderStep DEF AppClose
<1> QED
  BY <1>2, <1>3, <1>4 DEF RespondPrepare, RespondDownload, RejectDownload

-----------------------------------------------------------------------------
(* The theorems                                                            *)

LEMMA WebStep == WebInv /\ [Next]_vars => WebInv'
<1> SUFFICES ASSUME WebInv, [Next]_vars PROVE WebInv'
  OBVIOUS
<1>1. TypeOK'
  BY WebTypeOK DEF WebInv
<1>2. CASE \E r \in Requests :
             \/ \E session \in Ips \cup {None}, pin \in Pins \cup {NoPin} :
                  CallPrepare(r, session, pin)
             \/ Refetch(r) \/ PrepareArrive(r) \/ TakeDecision(r) \/ DropRequest(r)
             \/ PrepareReturns(r)
  <2>1. PICK r \in Requests :
             \/ \E session \in Ips \cup {None}, pin \in Pins \cup {NoPin} :
                  CallPrepare(r, session, pin)
             \/ Refetch(r) \/ PrepareArrive(r) \/ TakeDecision(r) \/ DropRequest(r)
             \/ PrepareReturns(r)
    BY <1>2
  <2>2. UNCHANGED <<sessions, from, decision, dlPc, events, held, body, latest>>
    BY <2>1 DEF CallPrepare, Refetch, PrepareArrive, TakeDecision, DropRequest, PrepareReturns
  <2>3. \E to : /\ reqPc' = [reqPc EXCEPT ![r] = to]
                /\ to \in EarlyReqPcs => reqPc[r] \in EarlyReqPcs
                /\ to = "accept" => decision[r] = "accept"
                /\ reqPc[r] \in HoldingPcs => to \in HoldingPcs
    BY <2>1 DEF CallPrepare, Refetch, PrepareArrive, TakeDecision, DropRequest, PrepareReturns,
                ReqGoto, EarlyReqPcs, HoldingPcs
  <2> QED
    BY <1>1, <2>2, <2>3, QuietRequest
<1>3. CASE UNCHANGED vars
  BY <1>3 DEF WebInv, vars, webVars, pinVars, body, TypeOK, PinTypeOK, AskedOnce, Unanswered,
              Queued, Early, AcceptedTrue, AcceptedByApp, OnlyAcceptedClientsDownload,
              LatestOwn, PendingHasRequest, CompleteIsWhole, DownloadedWhole
<1> QED
  BY <1>1, <1>2, <1>3, SessionStep, DownloadStep, AnnounceStep, AppStep DEF Next

LEMMA WebAlways == Spec => []WebInv
  BY WebInit, WebStep, PTL DEF Spec

\* Every variable of the web send server has its type.
THEOREM WebTypeCorrect == Spec => []TypeOK
<1>1. WebInv => TypeOK
  BY DEF WebInv
<1> QED
  BY <1>1, WebAlways, PTL

\* Nobody downloads before the application accepted a request of that client
\* (web.rs, download).
THEOREM OnlyAcceptedDownload == Spec => []OnlyAcceptedClientsDownload
<1>1. WebInv => OnlyAcceptedClientsDownload
  BY DEF WebInv
<1> QED
  BY <1>1, WebAlways, PTL

\* A pending session has a request that will accept or remove it, but for the
\* drops the guard does not see (web.rs, prepare_download).
THEOREM PendingNotLeftBehind == Spec => []PendingHasRequest
<1>1. WebInv => PendingHasRequest
  BY DEF WebInv
<1> QED
  BY <1>1, WebAlways, PTL

\* A download that returns without error is whole (web.rs, download; v2.rs).
THEOREM SavedIsWhole == Spec => []DownloadedWhole
<1>1. WebInv => DownloadedWhole
  BY DEF WebInv
<1> QED
  BY <1>1, WebAlways, PTL

\* However the requests of many clients interleave, nobody tests more than
\* three PINs between two successes, if the cache has room for all clients
\* (check_pin).
THEOREM PinLimit ==
  ASSUME RoomForAll
  PROVE  Spec => []GuessesBounded
<1>1. Init => Remembered
  <2>1. Init => wrong = [ip \in Ips |-> 0]
    BY Zenon DEF Init, PinInit
  <2>2. wrong = [ip \in Ips |-> 0] => Remembered
    BY DEF Remembered
  <2> QED
    BY <2>1, <2>2
<1>2. WebInv /\ Remembered /\ [Next]_vars => Remembered'
  <2> SUFFICES ASSUME WebInv, Remembered, [Next]_vars PROVE Remembered'
    OBVIOUS
  <2>1. PinTypeOK /\ from \in [Calls -> Ips]
    BY DEF WebInv, TypeOK, Calls
  <2>2. CASE \E r \in Requests : PrepareArrive(r)
    BY RoomForAll, <2>1, <2>2, CheckPinRemembers DEF PrepareArrive, Calls
  <2>3. CASE UNCHANGED pinVars
    BY <2>3 DEF Remembered, pinVars
  <2>4. UNCHANGED pinVars \/ \E r \in Requests : PrepareArrive(r)
    BY DEF Next, vars, CallPrepare, Refetch, EnterSession, AnnounceRequest, TakeDecision,
           AcceptSession, RemovePending, DropRequest, PrepareReturns, RespondPrepare,
           CallDownload, ValidateDownload, AnnounceDownload, TakeContent, StreamChunk,
           StreamEnds, WriteChunk, DropDownload, RespondDownload, RejectDownload, Respond,
           AppReceive, AppClose
  <2> QED
    BY <2>2, <2>3, <2>4
<1>3. WebInv /\ Remembered => GuessesBounded
  BY RememberedIsBounded DEF WebInv, TypeOK
<1> QED
  BY <1>1, <1>2, <1>3, WebAlways, PTL DEF Spec
=============================================================================
