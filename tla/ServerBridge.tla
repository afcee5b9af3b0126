---------------------------- MODULE ServerBridge ----------------------------
(***************************************************************************)
(* The application's handle of the upload server                           *)
(* (localsend_isolates/rust/src/api/server.rs) between the server, whose   *)
(* requests wait for answers on one-shot channels, and the application,    *)
(* which sees events on a stream and answers them by calls.                *)
(*                                                                         *)
(* The server is UploadServer with less detail: who holds the slot, which  *)
(* requests wait for what, and the events they send.                       *)
(***************************************************************************)
EXTENDS Naturals, Sequences, FiniteSets

CONSTANTS
  Sessions,  \* session ids; each is of one prepare-upload request
  Files,     \* files of every session
  Capacity,  \* capacity of the event channel (16 in the code)
  None       \* no session

ASSUME BridgeAssumption == Capacity \in Nat \ {0} /\ None \notin Sessions

VARIABLES
  slot,      \* session that claimed or owns the slot of the server, or None
  active,    \* is it accepted
  req,       \* control point of each prepare-upload request
  decision,  \* what its decision_rx gives
  up,        \* control point of each upload
  target,    \* what its target_rx gives
  unsent,    \* events whose sender waits for room in the channel
  queue,     \* event channel
  pendingDecision, \* the session whose responder is kept, or None
  pendingUploads,  \* the uploads whose responders are kept
  stream,    \* events on their way to the application
  dialogs,   \* sessions the application has to decide about
  todo,      \* uploads it has to answer
  cancels,   \* control point of cancel_session of each session
  server     \* "running", "stopping" or "stopped"

requests == <<slot, active, req, up>>
answers  == <<decision, target>>
channel  == <<unsent, queue>>
kept     == <<pendingDecision, pendingUploads>>
app      == <<stream, dialogs, todo, cancels>>
vars     == <<requests, answers, channel, kept, app, server>>

Uploads == Sessions \X Files

Prepared(s)   == [type |-> "PrepareUpload", session |-> s]
Aborted(s)    == [type |-> "PrepareUploadAborted", session |-> s]
Ended(s)      == [type |-> "SessionEnd", session |-> s]
Uploading(u)  == [type |-> "FileUpload", session |-> u[1], file |-> u[2]]

Init ==
  /\ slot = None /\ active = FALSE
  /\ req = [s \in Sessions |-> "new"]
  /\ decision = [s \in Sessions |-> "open"]
  /\ up = [u \in Uploads |-> "new"]
  /\ target = [u \in Uploads |-> "open"]
  /\ unsent = {} /\ queue = <<>>
  /\ pendingDecision = None /\ pendingUploads = {}
  /\ stream = <<>> /\ dialogs = {} /\ todo = {}
  /\ cancels = [s \in Sessions |-> "no"]
  /\ server = "running"

-----------------------------------------------------------------------------
(* Requests of the server                                                  *)

\* prepare_upload claims the slot and sends its event.
Prepare(s) ==
  /\ server = "running" /\ req[s] = "new" /\ slot = None
  /\ slot' = s
  /\ active' = FALSE
  /\ req' = [req EXCEPT ![s] = "asking"]
  /\ unsent' = unsent \cup {Prepared(s)}
  /\ UNCHANGED <<up, answers, queue, kept, app, server>>

\* The application accepts or declines.
Decided(s) ==
  /\ req[s] = "asking" /\ decision[s] \in {"accept", "decline"}
  /\ req' = [req EXCEPT ![s] = "over"]
  /\ IF decision[s] = "accept" THEN active' = TRUE /\ UNCHANGED slot
                               ELSE slot' = None /\ UNCHANGED active
  /\ UNCHANGED <<up, answers, channel, kept, app, server>>

\* The request fails: its responder was dropped, its sender disconnects or the
\* server stops.  An event that waits for room goes with it.  The cleanup task
\* frees the slot and tells the application.
AbortPrepare(s) ==
  /\ req[s] = "asking"
  /\ req' = [req EXCEPT ![s] = "over"]
  /\ slot' = IF active THEN slot ELSE None
  /\ unsent' = (unsent \ {Prepared(s)}) \cup {Aborted(s)}
  /\ UNCHANGED <<active, up, answers, queue, kept, app, server>>

\* upload of an accepted session.
Upload(u) ==
  /\ server = "running" /\ up[u] = "new"
  /\ slot = u[1] /\ active
  /\ up' = [up EXCEPT ![u] = "asking"]
  /\ unsent' = unsent \cup {Uploading(u)}
  /\ UNCHANGED <<slot, active, req, answers, queue, kept, app, server>>

GetTarget(u) ==
  /\ up[u] = "asking" /\ target[u] = "sent"
  /\ up' = [up EXCEPT ![u] = "saving"]
  /\ UNCHANGED <<slot, active, req, answers, channel, kept, app, server>>

\* The upload is over: its body was saved or not, its responder was dropped,
\* its sender disconnects or the server stops.  finalize_file ends the
\* session in the slot with its last file.
EndUpload(u) ==
  /\ up[u] \in {"asking", "saving"}
  /\ up' = [up EXCEPT ![u] = "over"]
  /\ LET ends == slot = u[1] /\ active /\ \A f \in Files : up'[<<u[1], f>>] = "over"
     IN  /\ slot' = IF ends THEN None ELSE slot
         /\ active' = (active /\ ~ends)
         /\ unsent' = (unsent \ {Uploading(u)}) \cup (IF ends THEN {Ended(u[1])} ELSE {})
  /\ UNCHANGED <<req, answers, queue, kept, app, server>>

\* cancel of the sender.
SenderCancels(s) ==
  /\ server = "running" /\ slot = s /\ active
  /\ slot' = None /\ active' = FALSE
  /\ unsent' = unsent \cup {Ended(s)}
  /\ UNCHANGED <<req, up, answers, queue, kept, app, server>>

Enqueue(e) ==
  /\ e \in unsent /\ Len(queue) < Capacity
  /\ queue' = Append(queue, e)
  /\ unsent' = unsent \ {e}
  /\ UNCHANGED <<requests, answers, kept, app, server>>

-----------------------------------------------------------------------------
(* listen                                                                  *)

DropTargets(dropped) ==
  target' = [u \in Uploads |-> IF u \in dropped /\ target[u] = "open"
                                 THEN "dropped" ELSE target[u]]

DropDecision(s) ==
  decision' = IF s # None /\ s \in Sessions /\ decision[s] = "open"
                THEN [decision EXCEPT ![s] = "dropped"] ELSE decision

\* Mutant: an aborted request takes the responder of its successor along.
HandleAbortedAnyway(e) ==
  /\ e.type = "PrepareUploadAborted"
  /\ DropDecision(pendingDecision)
  /\ pendingDecision' = None
  /\ UNCHANGED <<pendingUploads, target>>

\* Mutant: the responder that is there is kept.
HandlePrepareKeepsOld(e) ==
  /\ e.type = "PrepareUpload"
  /\ pendingDecision' = IF pendingDecision = None THEN e.session ELSE pendingDecision
  /\ IF pendingDecision = None THEN UNCHANGED decision ELSE DropDecision(e.session)
  /\ UNCHANGED <<pendingUploads, target>>

\* The new responder replaces the one that is there.
HandlePrepare(e) ==
  /\ e.type = "PrepareUpload"
  /\ DropDecision(pendingDecision)
  /\ pendingDecision' = e.session
  /\ UNCHANGED <<pendingUploads, target>>

HandleAborted(e) ==
  /\ e.type = "PrepareUploadAborted"
  /\ IF pendingDecision = e.session
       THEN pendingDecision' = None /\ DropDecision(e.session)
       ELSE UNCHANGED <<pendingDecision, decision>>
  /\ UNCHANGED <<pendingUploads, target>>

HandleUpload(e) ==
  /\ e.type = "FileUpload"
  /\ pendingUploads' = pendingUploads \cup {<<e.session, e.file>>}
  /\ UNCHANGED <<pendingDecision, decision, target>>

OfSession(s) == {u \in Uploads : u[1] = s}

\* Mutant: the responders of all sessions go.
HandleEndOfAll(e) ==
  /\ e.type = "SessionEnd"
  /\ pendingUploads' = {}
  /\ DropTargets(pendingUploads)
  /\ UNCHANGED <<pendingDecision, decision>>

HandleEnd(e) ==
  /\ e.type = "SessionEnd"
  /\ pendingUploads' = pendingUploads \ OfSession(e.session)
  /\ DropTargets(pendingUploads \cap OfSession(e.session))
  /\ UNCHANGED <<pendingDecision, decision>>

\* handle_server_event keeps the responder and puts the event on the stream.
Listen ==
  /\ queue # <<>>
  /\ LET e == Head(queue)
     IN  /\ HandlePrepare(e) \/ HandleAborted(e) \/ HandleUpload(e) \/ HandleEnd(e)
         /\ stream' = Append(stream, e)
  /\ queue' = Tail(queue)
  /\ UNCHANGED <<requests, unsent, dialogs, todo, cancels, server>>

-----------------------------------------------------------------------------
(* The application                                                         *)

\* It takes an event.  When a session ends it has no work for it any more.
TakeEvent ==
  /\ stream # <<>>
  /\ LET e == Head(stream)
         s == e.session
     IN  /\ dialogs' = CASE e.type = "PrepareUpload"        -> dialogs \cup {s}
                         [] e.type = "PrepareUploadAborted" -> dialogs \ {s}
                         [] OTHER                           -> dialogs
         /\ todo' = CASE e.type = "FileUpload" -> todo \cup {<<s, e.file>>}
                      [] e.type = "SessionEnd" -> todo \ OfSession(s)
                      [] OTHER                 -> todo
  /\ stream' = Tail(stream)
  /\ UNCHANGED <<requests, answers, channel, kept, cancels, server>>

\* respond_prepare_upload after the user decided about s: it takes whatever
\* responder is kept, or fails.
RespondPrepare(s) ==
  /\ s \in dialogs
  /\ dialogs' = dialogs \ {s}
  /\ IF pendingDecision = None
       THEN UNCHANGED <<pendingDecision, decision>>
       ELSE /\ pendingDecision' = None
            /\ \E d \in {"accept", "decline"} :
                 decision' = [decision EXCEPT ![pendingDecision] = d]
  /\ UNCHANGED <<requests, target, channel, pendingUploads, stream, todo, cancels, server>>

\* A target that cannot be resolved drops the responder, as a rejection does.
Resolved == {"sent", "dropped"}

\* respond_file_upload or reject_file_upload.
RespondUpload(u) ==
  /\ u \in todo
  /\ todo' = todo \ {u}
  /\ pendingUploads' = pendingUploads \ {u}
  /\ IF u \in pendingUploads
       THEN \E t \in Resolved : target' = [target EXCEPT ![u] = t]
       ELSE UNCHANGED target
  /\ UNCHANGED <<requests, decision, channel, pendingDecision, stream, dialogs, cancels, server>>

\* cancel_session of a session the application accepted: it first takes the
\* session off the server, when it is still there.
CancelSession(s) ==
  /\ cancels[s] = "no" /\ decision[s] = "accept"
  /\ cancels' = [cancels EXCEPT ![s] = "cleared"]
  /\ IF slot = s /\ active THEN slot' = None /\ active' = FALSE
                          ELSE UNCHANGED <<slot, active>>
  /\ UNCHANGED <<req, up, answers, channel, kept, stream, dialogs, todo, server>>

\* Mutant: the responders are kept.
CancelKeepsResponders(s) ==
  /\ cancels[s] = "cleared"
  /\ cancels' = [cancels EXCEPT ![s] = "done"]
  /\ todo' = todo \ OfSession(s)
  /\ UNCHANGED <<requests, answers, channel, kept, stream, dialogs, server>>

\* Then it drops the responders of the session; the application has no work
\* for it any more.
CancelDropsResponders(s) ==
  /\ cancels[s] = "cleared"
  /\ cancels' = [cancels EXCEPT ![s] = "done"]
  /\ todo' = todo \ OfSession(s)
  /\ pendingUploads' = pendingUploads \ OfSession(s)
  /\ DropTargets(pendingUploads \cap OfSession(s))
  /\ UNCHANGED <<requests, decision, channel, pendingDecision, stream, dialogs, server>>

-----------------------------------------------------------------------------
(* stop                                                                    *)

\* The call that takes stop_tx signals the server task, then waits for it.
Stop ==
  /\ server = "running"
  /\ server' = "stopping"
  /\ UNCHANGED <<requests, answers, channel, kept, app>>

Served == {s \in Sessions : req[s] = "asking"}
            \cup {u \in Uploads : up[u] \in {"asking", "saving"}}

\* The server task drops its listeners and waits for the connections; then
\* stop returns.
ServerStops ==
  /\ server = "stopping" /\ Served = {}
  /\ server' = "stopped"
  /\ UNCHANGED <<requests, answers, channel, kept, app>>

\* What the server does by itself; a stop drops every request.
Server ==
  \/ \E s \in Sessions : Decided(s)
  \/ \E s \in Sessions : (decision[s] = "dropped" \/ server = "stopping") /\ AbortPrepare(s)
  \/ \E u \in Uploads : GetTarget(u)
  \/ \E u \in Uploads : (target[u] # "open" \/ server = "stopping") /\ EndUpload(u)
  \/ ServerStops

Call == \/ \E s \in Sessions : RespondPrepare(s) \/ CancelDropsResponders(s)
        \/ \E u \in Uploads : RespondUpload(u)

Next == \/ Server \/ Listen \/ TakeEvent \/ Call
        \/ \E e \in unsent : Enqueue(e)
        \/ \E s \in Sessions : Prepare(s) \/ AbortPrepare(s) \/ SenderCancels(s) \/ CancelSession(s)
        \/ \E u \in Uploads : Upload(u) \/ EndUpload(u)
        \/ Stop

Spec == Init /\ [][Next]_vars

\* Tasks step when they can, and the application answers what it is asked.
FairSpec ==
  /\ Spec
  /\ WF_vars(Server) /\ WF_vars(Listen) /\ WF_vars(TakeEvent) /\ WF_vars(Call)
  /\ WF_vars(\E e \in unsent : Enqueue(e))

-----------------------------------------------------------------------------
(* Properties                                                              *)

Events ==
  {Prepared(s) : s \in Sessions} \cup {Aborted(s) : s \in Sessions}
    \cup {Ended(s) : s \in Sessions} \cup {Uploading(u) : u \in Uploads}

\* Every variable has its type.
TypeOK ==
  /\ slot \in Sessions \cup {None} /\ active \in BOOLEAN
  /\ req \in [Sessions -> {"new", "asking", "over"}]
  /\ decision \in [Sessions -> {"open", "accept", "decline", "dropped"}]
  /\ up \in [Uploads -> {"new", "asking", "saving", "over"}]
  /\ target \in [Uploads -> {"open", "sent", "dropped"}]
  /\ unsent \in SUBSET Events
  /\ queue \in Seq(Events) /\ Len(queue) <= Capacity
  /\ pendingDecision \in Sessions \cup {None}
  /\ pendingUploads \in SUBSET Uploads
  /\ stream \in Seq(Events)
  /\ dialogs \in SUBSET Sessions /\ todo \in SUBSET Uploads
  /\ cancels \in [Sessions -> {"no", "cleared", "done"}]
  /\ server \in {"running", "stopping", "stopped"}

\* A responder is kept for each unanswered upload the application is asked
\* about, until its session ends or is cancelled: whatever the order in which SessionEnd,
\* cancel_session and FileUpload of several sessions reach listen
\* (handle_server_event, cancel_session).
AskedUploadsCanBeAnswered ==
  \A u \in todo : /\ up[u] = "asking" /\ slot = u[1] /\ active /\ cancels[u[1]] = "no"
                 => u \in pendingUploads

\* listen drops the responder of a prepare-upload request only when the
\* request is over: a late abort never takes the responder of the request
\* that follows, and a new request only replaces a dead one.
OnlyDeadRequestsLoseTheirResponder ==
  [][\A s \in Sessions :
       decision[s] = "open" /\ decision'[s] = "dropped" => req[s] # "asking"]_vars

\* respond_prepare_upload carries no session id.  Still the answer of the
\* dialog of one request reaches another one only when the first request is
\* over.
AnswersStrayOnlyFromDeadRequests ==
  [][\A s, t \in Sessions :
       /\ s \in dialogs \ dialogs'
       /\ decision[t] = "open" /\ decision'[t] \in {"accept", "decline"}
       => s = t \/ req[s] # "asking"]_vars

\* Every request that waits for the application is answered or ends, though
\* the application has no work for a session that ended or that it cancelled
\* (SessionEnd and cancel_session drop the responders).
RequestsAnswered ==
  /\ \A s \in Sessions : req[s] = "asking" ~> req[s] # "asking"
  /\ \A u \in Uploads : up[u] = "asking" ~> up[u] # "asking"
=============================================================================
