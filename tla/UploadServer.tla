---------------------------- MODULE UploadServer ----------------------------
(***************************************************************************)
(* The receiving side of the v2 protocol of the Rust core                  *)
(* (native/packages/core/src/http/server/v2.rs, common/session.rs and      *)
(* ServerHandle::cancel_v2_session of mod.rs).                             *)
(*                                                                         *)
(* Every HTTP request is a process.  A step of it is the code between two  *)
(* awaits; a critical section of the session mutex holds no await and is   *)
(* one step.  The future of a request may be dropped at every await (the   *)
(* peer disconnected or the server is stopped).  What a guard spawns on    *)
(* drop is a task of its own that nobody cancels.                          *)
(*                                                                         *)
(* A prepare-upload request r makes a fresh session id, so r also names    *)
(* the session it may create, and the token of file f is <<r, f>>.         *)
(***************************************************************************)
EXTENDS PinAttempts, FiniteSets

CONSTANTS
  Requests,        \* prepare-upload requests, and the sessions they create
  Uploads,         \* upload requests
  Cancels,         \* cancel requests
  Files,           \* file ids
  None,            \* the slot holds no session
  Pending,         \* the slot is claimed, no session yet
  Capacity,        \* capacity of the event channel (16 in the bridge)
  UnguardedDrops   \* may a future be dropped where no guard is armed?

ASSUME UploadServerAssumption ==
  /\ None \notin Requests /\ Pending \notin Requests /\ None # Pending
  /\ Capacity \in Nat \ {0}
  /\ UnguardedDrops \in BOOLEAN

VARIABLES
  slot,        \* Mutex<Option<SessionStateV2>>: None, Pending or the active session
  files,       \* the files of the active session: file id -> status
  from,        \* address of the sender of each prepare-upload request
  offered,     \* file ids each prepare-upload request offers
  reqPc,       \* control point of each prepare-upload request
  decision,    \* what the decision channel of the request holds
  accepted,    \* the file ids an accepting decision names
  upPc,        \* control point of each upload request
  upFile,      \* <<session, file>> of each validated upload request
  target,      \* what the target channel of the upload request holds
  saved,       \* the `success` an upload passes to finalize_file
  canPc,       \* control point of each cancel request
  canSession,  \* session id the cancel request names
  events,      \* the bounded event channel
  appOpen,     \* the application still holds the receiver of the channel
  deciding,    \* sessions whose decision_tx the application holds
  targeting,   \* uploads whose target_tx the application holds
  ended,       \* history: how the session in the slot ended
  reported     \* history: how many SessionEnd events of a session were sent

reqVars == <<from, offered, reqPc, decision, accepted>>
upVars  == <<upPc, upFile, target, saved>>
canVars == <<canPc, canSession>>
appVars == <<appOpen, deciding, targeting>>
vars == <<pinVars, slot, files, reqVars, upVars, canVars, events, appVars,
          ended, reported>>

FileStatus == {"Absent", "Pending", "InProgress", "Finished", "Failed"}

NoFiles == [f \in Files |-> "Absent"]

\* UploadSessionV2::is_complete
IsComplete(fs) == \A f \in Files : fs[f] \in {"Absent", "Finished", "Failed"}

-----------------------------------------------------------------------------
(* The event channel                                                       *)

PrepareUploadEvent(r) == [type |-> "PrepareUpload", of |-> r]
AbortedEvent(r)       == [type |-> "PrepareUploadAborted", of |-> r]
FileUploadEvent(u)    == [type |-> "FileUpload", of |-> u]
FinishedEvent(s)      == [type |-> "SessionEndFinished", of |-> s]
CancelledEvent(s)     == [type |-> "SessionEndCancelled", of |-> s]
CancelReceivedEvent(s) == [type |-> "CancelReceived", of |-> s]

Event ==
  [type : {"PrepareUpload", "PrepareUploadAborted", "SessionEndFinished",
           "SessionEndCancelled", "CancelReceived"}, of : Requests]
    \cup [type : {"FileUpload"}, of : Uploads]

\* event_tx.send(e).await returned Ok
Send(e) == /\ appOpen
           /\ Len(events) < Capacity
           /\ events' = Append(events, e)

\* event_tx.send(e).await of a caller that ignores the result
SendOrIgnore(e) == \/ Send(e)
                   \/ ~appOpen /\ UNCHANGED events

Queued(e) == \E i \in DOMAIN events : events[i] = e
-----------------------------------------------------------------------------
Init ==
  /\ PinInit
  /\ slot = None
  /\ files = NoFiles
  /\ from = [r \in Requests |-> None]
  /\ offered = [r \in Requests |-> {}]
  /\ reqPc = [r \in Requests |-> "idle"]
  /\ decision = [r \in Requests |-> "none"]
  /\ accepted = [r \in Requests |-> {}]
  /\ upPc = [u \in Uploads |-> "idle"]
  /\ upFile = [u \in Uploads |-> <<>>]
  /\ target = [u \in Uploads |-> "none"]
  /\ saved = [u \in Uploads |-> FALSE]
  /\ canPc = [c \in Cancels |-> "idle"]
  /\ canSession = [c \in Cancels |-> None]
  /\ events = <<>>
  /\ appOpen = TRUE
  /\ deciding = {}
  /\ targeting = {}
  /\ ended = [r \in Requests |-> "no"]
  /\ reported = [r \in Requests |-> 0]

-----------------------------------------------------------------------------
(* prepare_upload                                                          *)

ReqGoto(r, from_, to) == reqPc[r] = from_ /\ reqPc' = [reqPc EXCEPT ![r] = to]

\* What the request offered goes with its future.
Forget(r) == offered' = [offered EXCEPT ![r] = {}]

\* Up to the claim of the slot: PIN check, then the body, which must be a
\* request that offers files.
PrepareArrive(r, ip, pin, offer) ==
  /\ CheckPin(ip, pin)
  /\ IF PinOutcome(ip, pin) = "ok" /\ offer # {}
       THEN /\ ReqGoto(r, "idle", "claim")
            /\ from' = [from EXCEPT ![r] = ip]
            /\ offered' = [offered EXCEPT ![r] = offer]
       ELSE ReqGoto(r, "idle", "rejected") /\ UNCHANGED <<from, offered>>
  /\ UNCHANGED <<slot, files, decision, accepted, upVars, canVars, events,
                 appVars, ended, reported>>

\* Mutant: the slot is claimed without looking at it.
ClaimSlotUnchecked(r) ==
  /\ ReqGoto(r, "claim", "announce") /\ slot' = Pending
  /\ UNCHANGED <<pinVars, files, from, offered, decision, accepted, upVars,
                 canVars, events, appVars, ended, reported>>

ClaimSlot(r) ==
  /\ IF slot = None
       THEN ReqGoto(r, "claim", "announce") /\ slot' = Pending /\ UNCHANGED offered
       ELSE ReqGoto(r, "claim", "rejected") /\ UNCHANGED slot /\ Forget(r)
  /\ UNCHANGED <<pinVars, files, from, decision, accepted, upVars,
                 canVars, events, appVars, ended, reported>>

AnnouncePrepare(r) ==
  /\ \/ ReqGoto(r, "announce", "decide") /\ Send(PrepareUploadEvent(r))
     \/ ReqGoto(r, "announce", "cleanup") /\ ~appOpen /\ UNCHANGED events
  /\ UNCHANGED <<pinVars, slot, files, from, offered, decision, accepted,
                 upVars, canVars, appVars, ended, reported>>

\* decision_rx.await, up to the next lock of the slot.  Only offered files
\* are accepted, whatever the application names.  The channel is consumed.
TakeDecision(r) ==
  /\ \/ decision[r] = "dropped" /\ ReqGoto(r, "decide", "cleanup")
     \/ decision[r] = "decline" /\ ReqGoto(r, "decide", "clear")
     \/ /\ decision[r] = "accept"
        /\ ReqGoto(r, "decide", IF accepted[r] \cap offered[r] = {}
                                  THEN "clear" ELSE "activate")
  /\ accepted' = [accepted EXCEPT ![r] = @ \cap offered[r]]
  /\ Forget(r)
  /\ decision' = [decision EXCEPT ![r] = "none"]
  /\ UNCHANGED <<pinVars, slot, files, from, upVars, canVars, events, appVars,
                 ended, reported>>

\* Mutant: the guard stays armed, so its drop clears a claim that is not its own.
CreateSessionArmed(r) ==
  /\ ReqGoto(r, "activate", "cleanup")
  /\ slot' = r
  /\ files' = [f \in Files |-> IF f \in accepted[r] THEN "Pending" ELSE "Absent"]
  /\ UNCHANGED <<pinVars, from, offered, decision, accepted, upVars, canVars,
                 events, appVars, ended, reported>>

\* The session takes the slot and the guard is disarmed, without an await in
\* between; the response with the tokens follows.
CreateSession(r) ==
  /\ ReqGoto(r, "activate", "created")
  /\ slot' = r
  /\ files' = [f \in Files |-> IF f \in accepted[r] THEN "Pending" ELSE "Absent"]
  /\ UNCHANGED <<pinVars, from, offered, decision, accepted, upVars, canVars,
                 events, appVars, ended, reported>>

ClearPendingSession == slot' = IF slot = Pending THEN None ELSE slot

\* PendingSessionGuard::clear disarms the guard, then waits for the lock.
RefuseRequest(r) ==
  /\ ReqGoto(r, "clear", "refused")
  /\ ClearPendingSession
  /\ UNCHANGED <<pinVars, files, from, offered, decision, accepted, upVars,
                 canVars, events, appVars, ended, reported>>

\* The task spawned by the drop of an armed PendingSessionGuard.
CleanupPending(r) ==
  /\ ReqGoto(r, "cleanup", "notify")
  /\ ClearPendingSession
  /\ UNCHANGED <<pinVars, files, from, offered, decision, accepted, upVars,
                 canVars, events, appVars, ended, reported>>

NotifyAborted(r) ==
  /\ ReqGoto(r, "notify", "aborted")
  /\ SendOrIgnore(AbortedEvent(r))
  /\ UNCHANGED <<pinVars, slot, files, from, offered, decision, accepted,
                 upVars, canVars, appVars, ended, reported>>

\* Mutant: no cleanup on drop.
DropPrepareLeaks(r) ==
  /\ \/ ReqGoto(r, "claim", "rejected")
     \/ \E pc \in {"announce", "decide", "activate"} : ReqGoto(r, pc, "leaked")
  /\ UNCHANGED <<pinVars, slot, files, from, offered, decision, accepted,
                 upVars, canVars, events, appVars, ended, reported>>

\* The future of the request is dropped at an await.
DropPrepare(r) ==
  /\ \/ ReqGoto(r, "claim", "rejected")
     \/ ReqGoto(r, "announce", "cleanup")
     \/ ReqGoto(r, "decide", "cleanup")
     \/ ReqGoto(r, "activate", "cleanup")
     \/ UnguardedDrops /\ ReqGoto(r, "clear", "leaked")
  /\ Forget(r)
  /\ decision' = [decision EXCEPT ![r] = "none"]
  /\ accepted' = [accepted EXCEPT ![r] = {}]
  /\ UNCHANGED <<pinVars, slot, files, from, upVars, canVars, events, appVars,
                 ended, reported>>

-----------------------------------------------------------------------------
(* upload                                                                  *)

UpGoto(u, from_, to) == upPc[u] = from_ /\ upPc' = [upPc EXCEPT ![u] = to]

\* Mutant: the status of the file is not looked at.
UploadAllowedAgain(s, f, token, ip) ==
  slot = s /\ from[s] = ip /\ files[f] # "Absent" /\ token = <<s, f>>

UploadAllowed(s, f, token, ip) ==
  /\ slot = s
  /\ from[s] = ip
  /\ files[f] # "Absent"
  /\ token = <<s, f>>
  /\ files[f] = "Pending"

\* An upload that is refused leaves nothing behind: u then stands for the
\* next one.
ValidateUpload(u, s, f, token, ip) ==
  /\ upPc[u] = "idle"
  /\ IF UploadAllowed(s, f, token, ip)
       THEN /\ UpGoto(u, "idle", "announce")
            /\ files' = [files EXCEPT ![f] = "InProgress"]
            /\ upFile' = [upFile EXCEPT ![u] = <<s, f>>]
       ELSE UNCHANGED <<upPc, files, upFile>>
  /\ UNCHANGED <<pinVars, slot, reqVars, target, saved, canVars, events,
                 appVars, ended, reported>>

\* Once the receiver is gone the upload goes straight to finish(false).
AnnounceUpload(u) ==
  /\ \/ UpGoto(u, "announce", "target") /\ Send(FileUploadEvent(u))
     \/ UpGoto(u, "announce", "finish") /\ ~appOpen /\ UNCHANGED events
  /\ UNCHANGED <<pinVars, slot, files, reqVars, upFile, target, saved, canVars,
                 appVars, ended, reported>>

TakeTarget(u) ==
  /\ \/ target[u] = "given" /\ UpGoto(u, "target", "saving")
     \/ target[u] = "dropped" /\ UpGoto(u, "target", "finish")
  /\ target' = [target EXCEPT ![u] = "none"]
  /\ UNCHANGED <<pinVars, slot, files, reqVars, upFile, saved, canVars,
                 events, appVars, ended, reported>>

\* save_req_to_target returned; UploadGuard::finish disarms the guard and
\* waits for the lock.
SaveBody(u, success) ==
  /\ UpGoto(u, "saving", "finish")
  /\ saved' = [saved EXCEPT ![u] = success]
  /\ UNCHANGED <<pinVars, slot, files, reqVars, upFile, target, canVars,
                 events, appVars, ended, reported>>

\* Mutant: finalize_file does not compare the session ids.
FinalizeAnySession(u, s, f) ==
  IF slot \notin Requests
    THEN UNCHANGED <<slot, files, ended>>
    ELSE /\ files' = [files EXCEPT ![f] = IF saved[u] THEN "Finished" ELSE "Failed"]
         /\ UNCHANGED <<slot, ended>>

\* The critical section of finalize_file, for upload u of file f of session s.
Finalize(u, s, f) ==
  LET fs == IF files[f] = "InProgress"
              THEN [files EXCEPT ![f] = IF saved[u] THEN "Finished" ELSE "Failed"]
              ELSE files
  IN  IF slot # s
        THEN UNCHANGED <<slot, files, ended>>
      ELSE IF IsComplete(fs)
        THEN /\ slot' = None
             /\ files' = NoFiles
             /\ ended' = [ended EXCEPT ![s] = "finished"]
      ELSE /\ files' = fs
           /\ UNCHANGED <<slot, ended>>

SessionEnds == slot # None /\ slot' = None

\* Mutant: the task spawned by a dropped guard ends the session silently.
FinalizeFileSilently(u) ==
  /\ upPc[u] \in {"finish", "cleanup"}
  /\ Finalize(u, upFile[u][1], upFile[u][2])
  /\ \/ UpGoto(u, "finish", IF SessionEnds THEN "end" ELSE "done")
     \/ UpGoto(u, "cleanup", "done")
  /\ UNCHANGED <<pinVars, reqVars, upFile, target, saved, canVars, events,
                 appVars, reported>>

\* finalize_file called by the request or by the task its guard spawned.
FinalizeFile(u) ==
  /\ upPc[u] \in {"finish", "cleanup"}
  /\ Finalize(u, upFile[u][1], upFile[u][2])
  /\ \/ UpGoto(u, "finish", IF SessionEnds THEN "end" ELSE "done")
     \/ UpGoto(u, "cleanup", IF SessionEnds THEN "taskEnd" ELSE "done")
  /\ UNCHANGED <<pinVars, reqVars, upFile, target, saved, canVars, events,
                 appVars, reported>>

ReportFinished(u) ==
  LET s == upFile[u][1]
  IN  /\ UpGoto(u, "end", "done") \/ UpGoto(u, "taskEnd", "done")
      /\ SendOrIgnore(FinishedEvent(s))
      /\ reported' = [reported EXCEPT ![s] = @ + 1]
      /\ UNCHANGED <<pinVars, slot, files, reqVars, upFile, target, saved,
                     canVars, appVars, ended>>

\* Mutant: no cleanup on drop.
DropUploadLeaks(u) ==
  /\ \E pc \in {"announce", "target", "saving"} : UpGoto(u, pc, "stuck")
  /\ UNCHANGED <<pinVars, slot, files, reqVars, upFile, target, saved, canVars,
                 events, appVars, ended, reported>>

\* The future is dropped; an armed UploadGuard spawns finalize_file(false).
DropUpload(u) ==
  /\ \/ UpGoto(u, "announce", "cleanup")
     \/ UpGoto(u, "target", "cleanup")
     \/ UpGoto(u, "saving", "cleanup")
     \/ UnguardedDrops /\ UpGoto(u, "finish", "stuck")
     \/ UnguardedDrops /\ UpGoto(u, "end", "lost")
  /\ target' = [target EXCEPT ![u] = "none"]
  /\ UNCHANGED <<pinVars, slot, files, reqVars, upFile, saved, canVars, events,
                 appVars, ended, reported>>

-----------------------------------------------------------------------------
(* cancel                                                                  *)

CanGoto(c, from_, to) == canPc[c] = from_ /\ canPc' = [canPc EXCEPT ![c] = to]

\* Mutant: the cancelled session stays in the slot.
CancelSessionKeepsSlot(c, s, ip) ==
  /\ IF slot = s /\ from[s] = ip
       THEN CanGoto(c, "idle", "end") /\ ended' = [ended EXCEPT ![s] = "cancelled"]
       ELSE CanGoto(c, "idle", "foreign") /\ UNCHANGED ended
  /\ canSession' = [canSession EXCEPT ![c] = s]
  /\ UNCHANGED <<pinVars, slot, files, reqVars, upVars, events, appVars, reported>>

CancelSession(c, s, ip) ==
  /\ IF slot = s /\ from[s] = ip
       THEN /\ CanGoto(c, "idle", "end")
            /\ slot' = None
            /\ files' = NoFiles
            /\ ended' = [ended EXCEPT ![s] = "cancelled"]
       ELSE CanGoto(c, "idle", "foreign") /\ UNCHANGED <<slot, files, ended>>
  /\ canSession' = [canSession EXCEPT ![c] = s]
  /\ UNCHANGED <<pinVars, reqVars, upVars, events, appVars, reported>>

ReportCancel(c) ==
  LET s == canSession[c]
  IN  /\ \/ /\ CanGoto(c, "end", "done")
            /\ SendOrIgnore(CancelledEvent(s))
            /\ reported' = [reported EXCEPT ![s] = @ + 1]
         \/ /\ CanGoto(c, "foreign", "done")
            /\ SendOrIgnore(CancelReceivedEvent(s))
            /\ UNCHANGED reported
      /\ UNCHANGED <<pinVars, slot, files, reqVars, upVars, canSession, appVars,
                     ended>>

DropCancel(c) ==
  /\ \/ UnguardedDrops /\ CanGoto(c, "end", "lost")
     \/ CanGoto(c, "foreign", "done")
  /\ UNCHANGED <<pinVars, slot, files, reqVars, upVars, canSession, events,
                 appVars, ended, reported>>

-----------------------------------------------------------------------------
(* The application: it reads the events and answers them when it likes.    *)

\* A responder that is used or dropped after its request ended has no effect.
Decide(rs, d) ==
  decision' = [r \in Requests |->
                 IF r \in rs /\ reqPc[r] = "decide" THEN d ELSE decision[r]]

Answer(us, t) ==
  target' = [u \in Uploads |->
               IF u \in us /\ upPc[u] = "target" THEN t ELSE target[u]]

AppReceive ==
  /\ events # <<>>
  /\ LET e == Head(events)
     IN  /\ deciding' = deciding \cup
              (IF e.type = "PrepareUpload" THEN {e.of} ELSE {})
         /\ targeting' = targeting \cup
              (IF e.type = "FileUpload" THEN {e.of} ELSE {})
  /\ events' = Tail(events)
  /\ UNCHANGED <<pinVars, slot, files, reqVars, upVars, canVars, appOpen,
                 ended, reported>>

\* The application decides, or drops the responder ("dropped").
AppDecide(r, d, ids) ==
  /\ r \in deciding
  /\ deciding' = deciding \ {r}
  /\ Decide({r}, d)
  /\ accepted' = IF d = "accept" /\ reqPc[r] = "decide"
                   THEN [accepted EXCEPT ![r] = ids] ELSE accepted
  /\ UNCHANGED <<pinVars, slot, files, from, offered, reqPc, upVars, canVars,
                 events, appOpen, targeting, ended, reported>>

AppAnswerTarget(u, t) ==
  /\ u \in targeting
  /\ targeting' = targeting \ {u}
  /\ Answer({u}, t)
  /\ UNCHANGED <<pinVars, slot, files, reqVars, upPc, upFile, saved, canVars,
                 events, appOpen, deciding, ended, reported>>

\* ServerHandle::cancel_v2_session
AppCancelSession(s) ==
  /\ slot = s
  /\ slot' = None
  /\ files' = NoFiles
  /\ ended' = [ended EXCEPT ![s] = "byApp"]
  /\ UNCHANGED <<pinVars, reqVars, upVars, canVars, events, appVars, reported>>

\* The receiver and every responder, also the queued ones, are dropped.
AppClose ==
  /\ appOpen
  /\ appOpen' = FALSE
  /\ Decide(deciding \cup {r \in Requests : Queued(PrepareUploadEvent(r))}, "dropped")
  /\ Answer(targeting \cup {u \in Uploads : Queued(FileUploadEvent(u))}, "dropped")
  /\ events' = <<>>
  /\ deciding' = {}
  /\ targeting' = {}
  /\ UNCHANGED <<pinVars, slot, files, from, offered, reqPc, accepted, upPc,
                 upFile, saved, canVars, ended, reported>>

-----------------------------------------------------------------------------
PrepareStep(r) ==
  \/ ClaimSlot(r) \/ AnnouncePrepare(r) \/ TakeDecision(r) \/ CreateSession(r)
  \/ RefuseRequest(r) \/ CleanupPending(r) \/ NotifyAborted(r)

UploadStep(u) ==
  \/ AnnounceUpload(u) \/ TakeTarget(u)
  \/ \E success \in BOOLEAN : SaveBody(u, success)
  \/ FinalizeFile(u) \/ ReportFinished(u)

AppAnswersDecision(r) ==
  \/ \E ids \in SUBSET Files : AppDecide(r, "accept", ids)
  \/ AppDecide(r, "decline", {})
  \/ AppDecide(r, "dropped", {})

AppAnswersTarget(u) == \E t \in {"given", "dropped"} : AppAnswerTarget(u, t)

Next ==
  \/ \E r \in Requests :
       \/ \E ip \in Ips, pin \in Pins \cup {NoPin}, offer \in SUBSET Files :
            PrepareArrive(r, ip, pin, offer)
       \/ PrepareStep(r)
       \/ DropPrepare(r)
       \/ AppAnswersDecision(r)
       \/ AppCancelSession(r)
  \/ \E u \in Uploads :
       \/ \E s \in Requests, f \in Files, token \in Requests \X Files, ip \in Ips :
            ValidateUpload(u, s, f, token, ip)
       \/ UploadStep(u)
       \/ DropUpload(u)
       \/ AppAnswersTarget(u)
  \/ \E c \in Cancels :
       \/ \E s \in Requests, ip \in Ips : CancelSession(c, s, ip)
       \/ ReportCancel(c)
       \/ DropCancel(c)
  \/ AppReceive
  \/ AppClose

Spec == Init /\ [][Next]_vars

(* Fairness: the runtime polls every task that can run; the application    *)
(* drains its event stream and answers what it was asked; the transfer of  *)
(* a body ends, with success or not.  Nothing obliges a sender to upload.  *)
Fairness ==
  /\ \A r \in Requests : WF_vars(PrepareStep(r)) /\ WF_vars(AppAnswersDecision(r))
  /\ \A u \in Uploads : WF_vars(UploadStep(u)) /\ WF_vars(AppAnswersTarget(u))
  /\ \A c \in Cancels : WF_vars(ReportCancel(c))
  /\ WF_vars(AppReceive)

FairSpec == Spec /\ Fairness

-----------------------------------------------------------------------------
(* Properties                                                              *)

ReqPcs == {"idle", "claim", "announce", "decide", "activate", "clear",
           "cleanup", "notify", "rejected", "created", "refused", "aborted",
           "leaked"}

UpPcs == {"idle", "announce", "target", "saving", "finish", "cleanup", "end",
          "taskEnd", "done", "stuck", "lost"}

Validated(u) == upPc[u] # "idle"

\* An upload that was let in names its file, a cancel its session.
RequestsNamed ==
  /\ \A u \in Uploads : Validated(u) => upFile[u] \in Requests \X Files
  /\ \A c \in Cancels : canPc[c] # "idle" => canSession[c] \in Requests

\* Every variable stays in the domain its Rust type gives it.
TypeOK ==
  /\ PinTypeOK
  /\ slot \in {None, Pending} \cup Requests
  /\ files \in [Files -> FileStatus]
  /\ from \in [Requests -> Ips \cup {None}]
  /\ offered \in [Requests -> SUBSET Files]
  /\ reqPc \in [Requests -> ReqPcs]
  /\ decision \in [Requests -> {"none", "dropped", "decline", "accept"}]
  /\ accepted \in [Requests -> SUBSET Files]
  /\ upPc \in [Uploads -> UpPcs]
  /\ upFile \in [Uploads -> (Requests \X Files) \cup {<<>>}]
  /\ target \in [Uploads -> {"none", "given", "dropped"}]
  /\ saved \in [Uploads -> BOOLEAN]
  /\ canPc \in [Cancels -> {"idle", "end", "foreign", "done", "lost"}]
  /\ canSession \in [Cancels -> Requests \cup {None}]
  /\ events \in Seq(Event)
  /\ Len(events) <= Capacity
  /\ appOpen \in BOOLEAN
  /\ deciding \in SUBSET Requests
  /\ targeting \in SUBSET Uploads
  /\ ended \in [Requests -> {"no", "finished", "cancelled", "byApp"}]
  /\ reported \in [Requests -> Nat]
  /\ RequestsNamed

\* The requests the claim of the slot belongs to, also through the task that
\* a dropped guard spawned.
Owners == {r \in Requests : reqPc[r] \in {"announce", "decide", "activate",
                                          "clear", "cleanup", "leaked"}}

\* The slot is claimed exactly while one request owns the claim, though the
\* claim carries no id: a guard can only ever free its own claim, and the
\* unconditional write of the active session (v2.rs:298) hits its own claim.
PendingHasOneOwner ==
  /\ slot = Pending <=> Owners # {}
  /\ \A r1, r2 \in Owners : r1 = r2

\* An active session leaves the slot only by ending, and a session enters it
\* only over the claim of its own request: two requests never share the slot.
SessionNeverReplaced ==
  [][/\ slot \in Requests => slot' \in {slot, None}
     /\ slot' \in Requests /\ slot' # slot => slot = Pending /\ slot' \in Owners]_vars

UploadsOf(s, f) == {u \in Uploads : Validated(u) /\ upFile[u] = <<s, f>>}

Unfinished == {"announce", "target", "saving", "finish", "cleanup", "stuck"}

\* A token admits one upload, also when uploads, cancels and sessions overlap.
TokenUsedOnce ==
  \A u1, u2 \in Uploads :
    Validated(u1) /\ Validated(u2) /\ upFile[u1] = upFile[u2] => u1 = u2

\* The status of a file of the active session is the outcome of the uploads
\* of this very session: a late finalize_file of an upload of an earlier
\* session never changes it, and a file is final only when its upload is.
FileStatusMatchesUploads ==
  slot \in Requests => \A f \in Files :
    LET us == UploadsOf(slot, f)
    IN  CASE files[f] \in {"Absent", "Pending"} -> us = {}
          [] files[f] = "InProgress" -> \E u \in us : upPc[u] \in Unfinished
          [] files[f] = "Finished" -> \E u \in us : upPc[u] = "done" /\ saved[u]
          [] files[f] = "Failed" -> \E u \in us : upPc[u] = "done" /\ ~saved[u]

\* The requests and tasks that still have to report the end of session s, and
\* those that were dropped before they could.
Reporters(s) ==
  {u \in Uploads : upPc[u] \in {"end", "taskEnd", "lost"} /\ upFile[u][1] = s}
    \cup {c \in Cancels : canPc[c] \in {"end", "lost"} /\ canSession[c] = s}

\* A session that finished or that its sender cancelled is reported to the
\* application once: by one request, whichever of the last uploads and the
\* cancels comes first, and a session the application cancelled never is.
SessionEndReportedOnce ==
  \A s \in Requests :
    reported[s] + Cardinality(Reporters(s))
      = IF ended[s] \in {"finished", "cancelled"} THEN 1 ELSE 0

\* A claim of the slot is given up or becomes a session, whatever the sender
\* does, once the application answers.
ClaimReleased == slot = Pending ~> slot # Pending

\* An upload that was let in does not keep its file in progress for ever.
UploadsEnd == \A u \in Uploads : upPc[u] = "announce" ~> upPc[u] \notin Unfinished

\* The application learns of the end of every session it did not end itself.
SessionEndDelivered ==
  \A s \in Requests : ended[s] \in {"finished", "cancelled"} ~> reported[s] = 1

\* The abstract session that request r stands for.
PhaseOf(r) == CASE r \in Owners                           -> "offered"
                [] slot = r                              -> "running"
                [] ended[r] = "finished"                 -> "finished"
                [] ended[r] \in {"cancelled", "byApp"}   -> "cancelled"
                [] reqPc[r] \in {"refused", "notify", "aborted"} -> "refused"
                [] OTHER                                 -> "new"

Slot == INSTANCE TransferSlot WITH
          Sessions <- Requests,
          FileIds  <- Files,
          phase    <- [r \in Requests |-> PhaseOf(r)],
          todo     <- {f \in Files : files[f] = "Pending"},
          busy     <- {f \in Files : files[f] = "InProgress"}

\* The server implements the promise of TransferSlot, drops included.
ImplementsTransferSlot == Slot!ASpec
=============================================================================
