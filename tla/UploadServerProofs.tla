------------------------- MODULE UploadServerProofs -------------------------
(***************************************************************************)
(* Theorems about the receiving server and its refinement of TransferSlot, *)
(* for every number of requests, uploads, cancels, files and clients.      *)
(***************************************************************************)
EXTENDS UploadServer, PinAttemptsProofs

\* The event channel stays a bounded sequence of events.
LEMMA SendTypeOK ==
  ASSUME NEW e \in Event, events \in Seq(Event), Len(events) <= Capacity,
         Send(e) \/ SendOrIgnore(e)
  PROVE  events' \in Seq(Event) /\ Len(events') <= Capacity
<1>1. CASE events' = Append(events, e) /\ Len(events) < Capacity
  <2>1. Len(events) \in Nat /\ Capacity \in Nat
    BY LenProperties, UploadServerAssumption
  <2>2. events' \in Seq(Event) /\ Len(events') = Len(events) + 1
    BY <1>1, AppendProperties
  <2> QED
    BY <1>1, <2>1, <2>2
<1>2. CASE UNCHANGED events
  BY <1>2
<1> QED
  BY <1>1, <1>2 DEF Send, SendOrIgnore

\* The part of TypeOK about the PIN cache, for the actions that leave it alone.
LEMMA PinUnchanged ==
  ASSUME PinTypeOK, UNCHANGED pinVars
  PROVE  PinTypeOK'
BY DEF PinTypeOK, pinVars

\* The same for the uploads and the cancels.
LEMMA RequestsNamedUnchanged ==
  ASSUME RequestsNamed, UNCHANGED <<upPc, upFile, canPc, canSession>>
  PROVE  RequestsNamed'
BY DEF RequestsNamed, Validated

-----------------------------------------------------------------------------
(* Type correctness                                                        *)

\* A step of a prepare-upload request keeps every variable in its domain.
LEMMA PrepareTypeOK ==
  ASSUME TypeOK, NEW r \in Requests
  PROVE  /\ \A ip \in Ips, pin \in Pins \cup {NoPin}, offer \in SUBSET Files :
              PrepareArrive(r, ip, pin, offer) => TypeOK'
         /\ PrepareStep(r) => TypeOK'
         /\ DropPrepare(r) => TypeOK'
<1> USE DEF ReqGoto, Forget, ReqPcs, reqVars, upVars, canVars, appVars
<1>1. ASSUME NEW ip \in Ips, NEW pin \in Pins \cup {NoPin},
             NEW offer \in SUBSET Files, PrepareArrive(r, ip, pin, offer)
      PROVE  TypeOK'
  <2>1. PinTypeOK'
    BY <1>1, CheckPinTypeOK DEF PrepareArrive, TypeOK
  <2> QED
    BY <1>1, <2>1, RequestsNamedUnchanged DEF PrepareArrive, TypeOK
<1>2. ASSUME ClaimSlot(r) PROVE TypeOK'
  BY <1>2, PinUnchanged, RequestsNamedUnchanged DEF ClaimSlot, TypeOK
<1>3. ASSUME AnnouncePrepare(r) PROVE TypeOK'
  <2>1. PrepareUploadEvent(r) \in Event
    BY DEF PrepareUploadEvent, Event
  <2>2. events' \in Seq(Event) /\ Len(events') <= Capacity
    BY <1>3, <2>1, SendTypeOK DEF AnnouncePrepare, TypeOK
  <2> QED
    BY <1>3, <2>2, PinUnchanged, RequestsNamedUnchanged DEF AnnouncePrepare, TypeOK
<1>4. ASSUME TakeDecision(r) PROVE TypeOK'
  BY <1>4, PinUnchanged, RequestsNamedUnchanged DEF TakeDecision, TypeOK
<1>5. ASSUME CreateSession(r) PROVE TypeOK'
  BY <1>5, PinUnchanged, RequestsNamedUnchanged DEF CreateSession, TypeOK, FileStatus
<1>6. ASSUME RefuseRequest(r) PROVE TypeOK'
  BY <1>6, PinUnchanged, RequestsNamedUnchanged DEF RefuseRequest, ClearPendingSession, TypeOK
<1>7. ASSUME CleanupPending(r) PROVE TypeOK'
  BY <1>7, PinUnchanged, RequestsNamedUnchanged DEF CleanupPending, ClearPendingSession, TypeOK
<1>8. ASSUME NotifyAborted(r) PROVE TypeOK'
  <2>1. AbortedEvent(r) \in Event
    BY DEF AbortedEvent, Event
  <2>2. events' \in Seq(Event) /\ Len(events') <= Capacity
    BY <1>8, <2>1, SendTypeOK DEF NotifyAborted, TypeOK
  <2> QED
    BY <1>8, <2>2, PinUnchanged, RequestsNamedUnchanged DEF NotifyAborted, TypeOK
<1>9. ASSUME DropPrepare(r) PROVE TypeOK'
  BY <1>9, PinUnchanged, RequestsNamedUnchanged DEF DropPrepare, TypeOK
<1> QED
  BY <1>1, <1>2, <1>3, <1>4, <1>5, <1>6, <1>7, <1>8, <1>9 DEF PrepareStep

\* A step of an upload request, or of the task its guard spawned, too.
LEMMA UploadTypeOK ==
  ASSUME TypeOK, NEW u \in Uploads
  PROVE  /\ \A s \in Requests, f \in Files, token \in Requests \X Files, ip \in Ips :
              ValidateUpload(u, s, f, token, ip) => TypeOK'
         /\ UploadStep(u) => TypeOK'
         /\ DropUpload(u) => TypeOK'
<1> USE DEF UpGoto, UpPcs, reqVars, upVars, canVars, appVars
<1>1. ASSUME NEW s \in Requests, NEW f \in Files, NEW token \in Requests \X Files,
             NEW ip \in Ips, ValidateUpload(u, s, f, token, ip)
      PROVE  TypeOK'
  <2>1. \/ /\ upPc' = [upPc EXCEPT ![u] = "announce"]
           /\ upFile' = [upFile EXCEPT ![u] = <<s, f>>]
           /\ files' = [files EXCEPT ![f] = "InProgress"]
        \/ UNCHANGED <<upPc, upFile, files>>
    BY <1>1 DEF ValidateUpload
  <2>2. UNCHANGED <<pinVars, slot, reqVars, target, saved, canVars, events,
                    appVars, ended, reported>>
    BY <1>1 DEF ValidateUpload
  <2>3. /\ upPc' \in [Uploads -> UpPcs]
        /\ upFile' \in [Uploads -> (Requests \X Files) \cup {<<>>}]
        /\ files' \in [Files -> FileStatus]
    <3>1. /\ upPc \in [Uploads -> UpPcs]
          /\ upFile \in [Uploads -> (Requests \X Files) \cup {<<>>}]
          /\ files \in [Files -> FileStatus]
      BY DEF TypeOK
    <3>2. <<s, f>> \in Requests \X Files
      OBVIOUS
    <3> QED
      BY <2>1, <3>1, <3>2 DEF FileStatus
  <2>4. RequestsNamed'
    <3>1. /\ \A v \in Uploads : Validated(v)' => v = u \/ Validated(v)
          /\ Validated(u)' => Validated(u) \/ upFile'[u] \in Requests \X Files
      BY <2>1 DEF TypeOK, Validated
    <3>2. \A v \in Uploads : Validated(v) => upFile'[v] = upFile[v]
      <4>1. upPc[u] = "idle"
        BY <1>1 DEF ValidateUpload
      <4> QED
        BY <2>1, <4>1 DEF TypeOK, Validated
    <3>3. RequestsNamed
      BY DEF TypeOK
    <3>4. \A v \in Uploads : Validated(v)' => upFile'[v] \in Requests \X Files
      BY <3>1, <3>2, <3>3 DEF RequestsNamed
    <3> QED
      BY <2>2, <3>3, <3>4 DEF RequestsNamed
  <2>5. PinTypeOK'
    BY <2>2, PinUnchanged DEF TypeOK
  <2> QED
    BY <2>2, <2>3, <2>4, <2>5 DEF TypeOK
<1> SUFFICES ASSUME UploadStep(u) \/ DropUpload(u)
             PROVE  TypeOK'
  BY <1>1
<1>2. RequestsNamed' /\ upPc' \in [Uploads -> UpPcs]
  <2>1. UNCHANGED <<upFile, canPc, canSession>>
    BY DEF UploadStep, DropUpload, AnnounceUpload, TakeTarget, SaveBody,
           FinalizeFile, ReportFinished
  <2>2. \E old, new \in UpPcs : UpGoto(u, old, new) /\ old # "idle"
    BY DEF UploadStep, DropUpload, AnnounceUpload, TakeTarget, SaveBody,
           FinalizeFile, ReportFinished
  <2> QED
    BY <2>1, <2>2 DEF RequestsNamed, Validated, TypeOK
<1>3. ASSUME AnnounceUpload(u) PROVE TypeOK'
  <2>1. FileUploadEvent(u) \in Event
    BY DEF FileUploadEvent, Event
  <2>2. events' \in Seq(Event) /\ Len(events') <= Capacity
    BY <1>3, <2>1, SendTypeOK DEF AnnounceUpload, TypeOK
  <2> QED
    BY <1>2, <1>3, <2>2, PinUnchanged DEF AnnounceUpload, TypeOK
<1>4. ASSUME TakeTarget(u) PROVE TypeOK'
  BY <1>2, <1>4, PinUnchanged DEF TakeTarget, TypeOK
<1>5. ASSUME NEW success \in BOOLEAN, SaveBody(u, success) PROVE TypeOK'
  BY <1>2, <1>5, PinUnchanged DEF SaveBody, TypeOK
<1>6. ASSUME FinalizeFile(u) PROVE TypeOK'
  <2>1. /\ slot' \in {slot, None}
        /\ files' \in [Files -> FileStatus]
        /\ ended' \in [Requests -> {"no", "finished", "cancelled", "byApp"}]
    <3>1. Finalize(u, upFile[u][1], upFile[u][2])
      BY <1>6 DEF FinalizeFile
    <3> DEFINE s  == upFile[u][1]
               f  == upFile[u][2]
               fs == IF files[f] = "InProgress"
                       THEN [files EXCEPT ![f] = IF saved[u] THEN "Finished" ELSE "Failed"]
                       ELSE files
    <3>2. fs \in [Files -> FileStatus]
      BY DEF TypeOK, FileStatus
    <3>3. \/ UNCHANGED <<slot, files, ended>>
          \/ slot' = None /\ files' = NoFiles /\ ended' = [ended EXCEPT ![s] = "finished"]
          \/ files' = fs /\ UNCHANGED <<slot, ended>>
      BY <3>1 DEF Finalize
    <3>4. NoFiles \in [Files -> FileStatus]
      BY DEF NoFiles, FileStatus
    <3> HIDE DEF s, fs
    <3> QED
      BY <3>2, <3>3, <3>4 DEF TypeOK
  <2> QED
    BY <1>2, <1>6, <2>1, PinUnchanged DEF FinalizeFile, TypeOK
<1>7. ASSUME ReportFinished(u) PROVE TypeOK'
  <2>1. Validated(u)
    BY <1>7 DEF ReportFinished, Validated
  <2>2. upFile[u][1] \in Requests
    BY <2>1 DEF TypeOK, RequestsNamed
  <2>3. FinishedEvent(upFile[u][1]) \in Event
    BY <2>2 DEF FinishedEvent, Event
  <2>4. events' \in Seq(Event) /\ Len(events') <= Capacity
    BY <1>7, <2>3, SendTypeOK DEF ReportFinished, TypeOK
  <2>5. reported' \in [Requests -> Nat]
    BY <1>7, <2>2 DEF ReportFinished, TypeOK
  <2> QED
    BY <1>2, <1>7, <2>4, <2>5, PinUnchanged DEF ReportFinished, TypeOK
<1>8. ASSUME DropUpload(u) PROVE TypeOK'
  BY <1>2, <1>8, PinUnchanged DEF DropUpload, TypeOK
<1> QED
  BY <1>3, <1>4, <1>5, <1>6, <1>7, <1>8 DEF UploadStep

\* So does a step of a cancel request.
LEMMA CancelTypeOK ==
  ASSUME TypeOK, NEW c \in Cancels
  PROVE  /\ \A s \in Requests, ip \in Ips : CancelSession(c, s, ip) => TypeOK'
         /\ ReportCancel(c) => TypeOK'
         /\ DropCancel(c) => TypeOK'
<1> USE DEF CanGoto, reqVars, upVars, canVars, appVars
<1>1. ASSUME NEW s \in Requests, NEW ip \in Ips, CancelSession(c, s, ip)
      PROVE  TypeOK'
  <2>1. /\ canPc' \in [Cancels -> {"idle", "end", "foreign", "done", "lost"}]
        /\ canSession' \in [Cancels -> Requests \cup {None}]
    BY <1>1 DEF CancelSession, TypeOK
  <2>2. RequestsNamed'
    BY <1>1 DEF CancelSession, TypeOK, RequestsNamed, Validated
  <2>3. /\ slot' \in {slot, None}
        /\ files' \in {files, NoFiles}
        /\ ended' \in [Requests -> {"no", "finished", "cancelled", "byApp"}]
    BY <1>1 DEF CancelSession, TypeOK
  <2>4. NoFiles \in [Files -> FileStatus]
    BY DEF NoFiles, FileStatus
  <2> QED
    BY <1>1, <2>1, <2>2, <2>3, <2>4, PinUnchanged DEF CancelSession, TypeOK
<1>2. ASSUME ReportCancel(c) PROVE TypeOK'
  <2>1. canSession[c] \in Requests
    BY <1>2 DEF ReportCancel, TypeOK, RequestsNamed
  <2>2. CancelledEvent(canSession[c]) \in Event /\ CancelReceivedEvent(canSession[c]) \in Event
    BY <2>1 DEF CancelledEvent, CancelReceivedEvent, Event
  <2>3. events' \in Seq(Event) /\ Len(events') <= Capacity
    BY <1>2, <2>2, SendTypeOK DEF ReportCancel, TypeOK
  <2>4. RequestsNamed'
    BY <1>2 DEF ReportCancel, TypeOK, RequestsNamed, Validated
  <2> QED
    <3>1. canPc' \in [Cancels -> {"idle", "end", "foreign", "done", "lost"}]
      <4>1. canPc' = [canPc EXCEPT ![c] = "done"]
        BY <1>2 DEF ReportCancel, CanGoto
      <4>2. canPc \in [Cancels -> {"idle", "end", "foreign", "done", "lost"}]
        BY DEF TypeOK
      <4> QED
        BY <4>1, <4>2
    <3>2. reported' \in [Requests -> Nat]
      <4>1. \/ reported' = [reported EXCEPT ![canSession[c]] = @ + 1]
            \/ UNCHANGED reported
        BY <1>2 DEF ReportCancel
      <4>2. reported \in [Requests -> Nat]
        BY DEF TypeOK
      <4> QED
        BY <2>1, <4>1, <4>2
    <3>3. UNCHANGED <<pinVars, slot, files, reqVars, upVars, canSession, appVars, ended>>
      BY <1>2 DEF ReportCancel
    <3> QED
      BY <2>3, <2>4, <3>1, <3>2, <3>3, PinUnchanged DEF TypeOK
<1>3. ASSUME DropCancel(c) PROVE TypeOK'
  <2>1. RequestsNamed'
    BY <1>3 DEF DropCancel, TypeOK, RequestsNamed, Validated
  <2> QED
    BY <1>3, <2>1, PinUnchanged DEF DropCancel, TypeOK
<1> QED
  BY <1>1, <1>2, <1>3

\* So does the application.
LEMMA AppTypeOK ==
  ASSUME TypeOK
  PROVE  /\ \A r \in Requests : AppAnswersDecision(r) => TypeOK'
         /\ \A r \in Requests : AppCancelSession(r) => TypeOK'
         /\ \A u \in Uploads : AppAnswersTarget(u) => TypeOK'
         /\ AppReceive => TypeOK'
         /\ AppClose => TypeOK'
<1> USE DEF reqVars, upVars, canVars, appVars
<1>1. ASSUME NEW r \in Requests, NEW d \in {"accept", "decline", "dropped"},
             NEW ids \in SUBSET Files, AppDecide(r, d, ids)
      PROVE  TypeOK'
  BY <1>1, PinUnchanged, RequestsNamedUnchanged DEF AppDecide, Decide, TypeOK
<1>2. ASSUME NEW r \in Requests, AppCancelSession(r) PROVE TypeOK'
  BY <1>2, PinUnchanged, RequestsNamedUnchanged
  DEF AppCancelSession, TypeOK, NoFiles, FileStatus
<1>3. ASSUME NEW u \in Uploads, NEW t \in {"given", "dropped"}, AppAnswerTarget(u, t)
      PROVE  TypeOK'
  BY <1>3, PinUnchanged, RequestsNamedUnchanged DEF AppAnswerTarget, Answer, TypeOK
<1>4. ASSUME AppReceive PROVE TypeOK'
  <2>1. /\ Head(events) \in Event
        /\ Tail(events) \in Seq(Event)
        /\ Len(Tail(events)) = Len(events) - 1
        /\ Len(events) \in Nat
    BY <1>4, HeadTailProperties, LenProperties DEF AppReceive, TypeOK
  <2>2. Len(events') <= Capacity
    BY <1>4, <2>1, UploadServerAssumption DEF AppReceive, TypeOK
  <2>3. deciding' \in SUBSET Requests /\ targeting' \in SUBSET Uploads
    BY <1>4, <2>1 DEF AppReceive, TypeOK, Event
  <2> QED
    BY <1>4, <2>1, <2>2, <2>3, PinUnchanged, RequestsNamedUnchanged
    DEF AppReceive, TypeOK
<1>5. ASSUME AppClose PROVE TypeOK'
  <2>1. events' \in Seq(Event) /\ Len(events') <= Capacity
    BY <1>5, EmptySeq, UploadServerAssumption DEF AppClose
  <2>2. decision' \in [Requests -> {"none", "dropped", "decline", "accept"}]
    BY <1>5 DEF AppClose, Decide, TypeOK
  <2>3. target' \in [Uploads -> {"none", "given", "dropped"}]
    BY <1>5 DEF AppClose, Answer, TypeOK
  <2>4. UNCHANGED <<pinVars, slot, files, from, offered, reqPc, accepted, upPc,
                    upFile, saved, canVars, ended, reported>>
        /\ appOpen' = FALSE /\ deciding' = {} /\ targeting' = {}
    BY <1>5 DEF AppClose
  <2> QED
    BY <2>1, <2>2, <2>3, <2>4, PinUnchanged, RequestsNamedUnchanged DEF TypeOK
<1> QED
  BY <1>1, <1>2, <1>3, <1>4, <1>5 DEF AppAnswersDecision, AppAnswersTarget

\* The server starts well typed.
LEMMA InitTypeOK == Init => TypeOK
<1> SUFFICES ASSUME Init
             PROVE  TypeOK
  OBVIOUS
<1>1. PinTypeOK
  BY EmptySeq, PinAssumption DEF Init, PinInit, PinTypeOK
<1>2. RequestsNamed
  BY DEF Init, RequestsNamed, Validated
<1>3. events \in Seq(Event) /\ Len(events) <= Capacity
  BY EmptySeq, UploadServerAssumption DEF Init
<1> QED
  BY <1>1, <1>2, <1>3 DEF Init, TypeOK, NoFiles, FileStatus, ReqPcs, UpPcs

\* Every step keeps it well typed.
LEMMA NextTypeOK == TypeOK /\ [Next]_vars => TypeOK'
<1>1. ASSUME TypeOK, Next
      PROVE  TypeOK'
  BY <1>1, PrepareTypeOK, UploadTypeOK, CancelTypeOK, AppTypeOK DEF Next
<1>2. ASSUME TypeOK, UNCHANGED vars
      PROVE  TypeOK'
  BY <1>2, PinUnchanged, RequestsNamedUnchanged
  DEF vars, reqVars, upVars, canVars, appVars, TypeOK
<1> QED
  BY <1>1, <1>2

\* Whatever the number of requests and clients, however they interleave and
\* wherever they are dropped, the state of the server is well typed: the
\* event channel keeps to its capacity and the PIN cache to its own.
THEOREM TypeCorrect == Spec => []TypeOK
BY InitTypeOK, NextTypeOK, PTL DEF Spec

-----------------------------------------------------------------------------
(* The slot                                                                *)

\* All that a step may do to the slot and to the claims on it.
Claim(r)   == slot = None /\ slot' = Pending /\ Owners' = Owners \cup {r}
Release(r) == /\ r \in Owners /\ Owners' = Owners \ {r}
              /\ slot' = IF slot = Pending THEN None ELSE slot
Occupy(r)  == r \in Owners /\ Owners' = Owners \ {r} /\ slot' = r
Vacate     == slot \in Requests /\ slot' = None /\ UNCHANGED Owners
Keep       == UNCHANGED slot /\ UNCHANGED Owners

SlotStep == \/ \E r \in Requests : Claim(r) \/ Release(r) \/ Occupy(r)
            \/ Vacate
            \/ Keep

\* Owners depends on the control points of the prepare-upload requests alone.
LEMMA OwnersMove ==
  ASSUME TypeOK, NEW r \in Requests, NEW a, NEW b, ReqGoto(r, a, b)
  PROVE  LET held == {"announce", "decide", "activate", "clear", "cleanup", "leaked"}
         IN  /\ b \in held => Owners' = Owners \cup {r}
             /\ b \notin held => Owners' = Owners \ {r}
             /\ a \in held <=> r \in Owners
BY DEF ReqGoto, Owners, TypeOK

\* The owners stay the same when no such request moves.
LEMMA OwnersUnchanged == UNCHANGED reqPc => UNCHANGED Owners
BY DEF Owners

\* A prepare-upload request claims, releases or occupies the slot, or leaves it.
LEMMA PrepareSlotStep ==
  ASSUME TypeOK, NEW r \in Requests, PrepareStep(r) \/ DropPrepare(r)
  PROVE  SlotStep
<1>1. CASE ClaimSlot(r)
  BY <1>1, OwnersMove DEF ClaimSlot, ReqGoto, SlotStep, Claim, Keep
<1>2. CASE AnnouncePrepare(r)
  BY <1>2, OwnersMove DEF AnnouncePrepare, SlotStep, Keep
<1>3. CASE TakeDecision(r)
  BY <1>3, OwnersMove DEF TakeDecision, SlotStep, Keep
<1>4. CASE CreateSession(r)
  BY <1>4, OwnersMove DEF CreateSession, SlotStep, Occupy
<1>5. CASE RefuseRequest(r)
  BY <1>5, OwnersMove DEF RefuseRequest, ClearPendingSession, SlotStep, Release
<1>6. CASE CleanupPending(r)
  BY <1>6, OwnersMove DEF CleanupPending, ClearPendingSession, SlotStep, Release
<1>7. CASE NotifyAborted(r)
  BY <1>7, OwnersMove DEF NotifyAborted, SlotStep, Keep
<1>8. CASE DropPrepare(r)
  BY <1>8, OwnersMove DEF DropPrepare, SlotStep, Keep
<1> QED
  BY <1>1, <1>2, <1>3, <1>4, <1>5, <1>6, <1>7, <1>8 DEF PrepareStep

\* A finalize_file that ends a session ends the one its upload names.
LEMMA UploadSlotStep ==
  ASSUME TypeOK, NEW u \in Uploads, UploadStep(u)
  PROVE  SlotStep
<1>1. CASE FinalizeFile(u)
  <2>1. upFile[u][1] \in Requests
    BY <1>1 DEF FinalizeFile, TypeOK, RequestsNamed, Validated
  <2>2. UNCHANGED Owners
    BY <1>1, OwnersUnchanged DEF FinalizeFile, reqVars
  <2>3. slot' = slot \/ (slot = upFile[u][1] /\ slot' = None)
    BY <1>1 DEF FinalizeFile, Finalize
  <2> QED
    BY <2>1, <2>2, <2>3 DEF SlotStep, Vacate, Keep
<1>2. CASE AnnounceUpload(u) \/ TakeTarget(u) \/ ReportFinished(u)
             \/ \E success \in BOOLEAN : SaveBody(u, success)
  BY <1>2, OwnersUnchanged
  DEF AnnounceUpload, TakeTarget, ReportFinished, SaveBody, reqVars, SlotStep, Keep
<1> QED
  BY <1>1, <1>2 DEF UploadStep

\* Every step of the server is one of the five kinds.
LEMMA NextSlotStep == TypeOK /\ [Next]_vars => SlotStep
<1> SUFFICES ASSUME TypeOK, [Next]_vars
             PROVE  SlotStep
  OBVIOUS
<1>1. ASSUME NEW r \in Requests, NEW ip \in Ips, NEW pin \in Pins \cup {NoPin},
             NEW offer \in SUBSET Files, PrepareArrive(r, ip, pin, offer)
      PROVE  SlotStep
  BY <1>1, OwnersMove DEF PrepareArrive, ReqGoto, SlotStep, Keep
<1>2. ASSUME NEW r \in Requests, AppAnswersDecision(r) \/ AppCancelSession(r)
      PROVE  SlotStep
  BY <1>2, OwnersUnchanged
  DEF AppAnswersDecision, AppDecide, AppCancelSession, reqVars, SlotStep, Keep, Vacate
<1>3. ASSUME NEW u \in Uploads, NEW s \in Requests, NEW f \in Files,
             NEW token \in Requests \X Files, NEW ip \in Ips,
             ValidateUpload(u, s, f, token, ip)
      PROVE  SlotStep
  BY <1>3, OwnersUnchanged DEF ValidateUpload, reqVars, SlotStep, Keep
<1>4. ASSUME NEW u \in Uploads, DropUpload(u) \/ AppAnswersTarget(u)
      PROVE  SlotStep
  BY <1>4, OwnersUnchanged
  DEF DropUpload, AppAnswersTarget, AppAnswerTarget, reqVars, SlotStep, Keep
<1>5. ASSUME NEW c \in Cancels, NEW s \in Requests, NEW ip \in Ips,
             CancelSession(c, s, ip)
      PROVE  SlotStep
  BY <1>5, OwnersUnchanged DEF CancelSession, reqVars, SlotStep, Keep, Vacate
<1>6. ASSUME NEW c \in Cancels, ReportCancel(c) \/ DropCancel(c)
      PROVE  SlotStep
  BY <1>6, OwnersUnchanged DEF ReportCancel, DropCancel, reqVars, SlotStep, Keep
<1>7. CASE AppReceive \/ AppClose
  BY <1>7, OwnersUnchanged DEF AppReceive, AppClose, reqVars, SlotStep, Keep
<1>8. CASE UNCHANGED vars
  BY <1>8, OwnersUnchanged DEF vars, reqVars, SlotStep, Keep
<1> QED
  BY <1>1, <1>2, <1>3, <1>4, <1>5, <1>6, <1>7, <1>8, PrepareSlotStep, UploadSlotStep
  DEF Next

\* None of the five kinds gives the claim a second owner or leaves it ownerless.
LEMMA OneOwnerInductive == PendingHasOneOwner /\ SlotStep => PendingHasOneOwner'
<1> SUFFICES ASSUME PendingHasOneOwner, SlotStep
             PROVE  PendingHasOneOwner'
  OBVIOUS
<1>1. ASSUME NEW r \in Requests, Claim(r)
      PROVE  PendingHasOneOwner'
  <2>1. Owners = {} /\ Owners' = {r}
    BY <1>1, UploadServerAssumption DEF Claim, PendingHasOneOwner
  <2> QED
    BY <1>1, <2>1 DEF Claim, PendingHasOneOwner
<1>2. ASSUME NEW r \in Requests, Release(r) \/ Occupy(r)
      PROVE  PendingHasOneOwner'
  <2>1. slot = Pending /\ Owners = {r}
    BY <1>2 DEF Release, Occupy, PendingHasOneOwner
  <2>2. Owners' = {} /\ slot' # Pending
    BY <1>2, <2>1, UploadServerAssumption DEF Release, Occupy
  <2> QED
    BY <2>2 DEF PendingHasOneOwner
<1>3. CASE Vacate
  BY <1>3, UploadServerAssumption DEF Vacate, PendingHasOneOwner
<1>4. CASE Keep
  BY <1>4 DEF Keep, PendingHasOneOwner
<1> QED
  BY <1>1, <1>2, <1>3, <1>4 DEF SlotStep

\* The claim of the slot, which carries no id, always belongs to exactly one
\* request (or to the task its guard spawned), so no guard clears a claim of
\* another request and no session overwrites one (v2.rs:226, 298, 502).
THEOREM OneOwner == Spec => []PendingHasOneOwner
<1>1. Init => PendingHasOneOwner
  BY UploadServerAssumption DEF Init, PendingHasOneOwner, Owners
<1>2. TypeOK /\ PendingHasOneOwner /\ [Next]_vars => PendingHasOneOwner'
  BY NextSlotStep, OneOwnerInductive
<1> QED
  BY <1>1, <1>2, TypeCorrect, PTL DEF Spec

\* An active session is never replaced: it stays until it ends, and the slot
\* takes a session only from the request that owns the claim.
THEOREM NeverReplaced == Spec => SessionNeverReplaced
<1>1. ASSUME TypeOK, PendingHasOneOwner, [Next]_vars
      PROVE  /\ slot \in Requests => slot' \in {slot, None}
             /\ slot' \in Requests /\ slot' # slot => slot = Pending /\ slot' \in Owners
  <2>1. SlotStep
    BY <1>1, NextSlotStep
  <2> QED
    BY <1>1, <2>1, UploadServerAssumption
    DEF SlotStep, Claim, Release, Occupy, Vacate, Keep, PendingHasOneOwner
<1> QED
  BY <1>1, TypeCorrect, OneOwner, PTL DEF Spec, SessionNeverReplaced

-----------------------------------------------------------------------------
(* Tokens                                                                  *)

\* Why a token admits one upload: sessions stay with the request that made
\* them, which made them once, and a file nobody uploaded yet has no upload.
SessionsCreated == /\ slot \in Requests => reqPc[slot] = "created"
                   /\ \A u \in Uploads : Validated(u) => reqPc[upFile[u][1]] = "created"

UntouchedHaveNoUpload ==
  slot \in Requests => \A f \in Files :
    files[f] \in {"Absent", "Pending"} => UploadsOf(slot, f) = {}

TokenInv == SessionsCreated /\ UntouchedHaveNoUpload /\ TokenUsedOnce

\* All that a step may do to sessions, tokens and uploads.
Admit(u, s, f) ==
  /\ ~Validated(u) /\ slot = s /\ files[f] = "Pending"
  /\ upPc' = [upPc EXCEPT ![u] = "announce"]
  /\ upFile' = [upFile EXCEPT ![u] = <<s, f>>]
  /\ files' = [files EXCEPT ![f] = "InProgress"]
  /\ UNCHANGED <<slot, reqPc>>

NoAdmission == /\ UNCHANGED upFile
               /\ \A u \in Uploads : Validated(u)' <=> Validated(u)

CreatedStays == \A r \in Requests : reqPc[r] = "created" => reqPc'[r] = "created"

Begin(r) == /\ reqPc[r] = "activate" /\ reqPc'[r] = "created" /\ slot' = r
            /\ CreatedStays /\ NoAdmission

Progress ==
  /\ CreatedStays /\ NoAdmission
  /\ slot' \in Requests =>
       /\ slot' = slot
       /\ \A f \in Files : files'[f] \in {"Absent", "Pending"} => files[f] \in {"Absent", "Pending"}

TokenStep == \/ \E u \in Uploads, s \in Requests, f \in Files : Admit(u, s, f)
             \/ \E r \in Requests : Begin(r)
             \/ Progress

\* A request that has created its session stays there.
LEMMA CreatedIsFinal ==
  ASSUME TypeOK, NEW r \in Requests, NEW a, NEW b, ReqGoto(r, a, b), a # "created"
  PROVE  CreatedStays
BY DEF ReqGoto, CreatedStays, TypeOK

\* Only a step that moves an upload can admit one.
LEMMA NothingAdmitted == UNCHANGED <<upPc, upFile>> => NoAdmission
BY DEF NoAdmission, Validated

\* A prepare-upload request begins a session or leaves tokens and uploads alone.
LEMMA PrepareTokenStep ==
  ASSUME TypeOK, NEW r \in Requests, PrepareStep(r) \/ DropPrepare(r)
  PROVE  TokenStep
<1>1. NoAdmission
  BY NothingAdmitted
  DEF PrepareStep, DropPrepare, ClaimSlot, AnnouncePrepare, TakeDecision,
      CreateSession, RefuseRequest, CleanupPending, NotifyAborted, upVars
<1>2. CreatedStays
  BY CreatedIsFinal
  DEF PrepareStep, DropPrepare, ClaimSlot, AnnouncePrepare, TakeDecision,
      CreateSession, RefuseRequest, CleanupPending, NotifyAborted
<1>3. CASE CreateSession(r)
  <2>1. reqPc[r] = "activate" /\ reqPc'[r] = "created" /\ slot' = r
    BY <1>3 DEF CreateSession, ReqGoto, TypeOK
  <2> QED
    BY <1>1, <1>2, <2>1 DEF Begin, TokenStep
<1>4. CASE ~CreateSession(r)
  <2>1. files' = files /\ (slot' \in {slot, None, Pending})
    BY <1>4
    DEF PrepareStep, DropPrepare, ClaimSlot, AnnouncePrepare, TakeDecision,
        RefuseRequest, CleanupPending, NotifyAborted, ClearPendingSession
  <2> QED
    BY <1>1, <1>2, <2>1, UploadServerAssumption DEF Progress, TokenStep
<1> QED
  BY <1>3, <1>4

\* An upload under way never makes a file of the session pending again.
LEMMA UploadTokenStep ==
  ASSUME TypeOK, NEW u \in Uploads, UploadStep(u) \/ DropUpload(u)
  PROVE  TokenStep
<1>1. NoAdmission
  <2>1. UNCHANGED upFile
    BY DEF UploadStep, DropUpload, AnnounceUpload, TakeTarget, SaveBody,
           FinalizeFile, ReportFinished
  <2>2. \E old, new \in UpPcs \ {"idle"} : UpGoto(u, old, new)
    BY DEF UploadStep, DropUpload, AnnounceUpload, TakeTarget, SaveBody,
           FinalizeFile, ReportFinished, UpPcs, UpGoto
  <2> QED
    BY <2>1, <2>2 DEF UpGoto, NoAdmission, Validated, TypeOK
<1>2. CreatedStays
  BY DEF UploadStep, DropUpload, AnnounceUpload, TakeTarget, SaveBody,
         FinalizeFile, ReportFinished, reqVars, CreatedStays
<1>3. CASE FinalizeFile(u)
  <2> DEFINE s  == upFile[u][1]
             f  == upFile[u][2]
             fs == IF files[f] = "InProgress"
                     THEN [files EXCEPT ![f] = IF saved[u] THEN "Finished" ELSE "Failed"]
                     ELSE files
  <2>1. Finalize(u, s, f)
    BY <1>3 DEF FinalizeFile
  <2>2. \/ UNCHANGED <<slot, files>>
        \/ slot' = None
        \/ files' = fs /\ slot' = slot
    BY <2>1 DEF Finalize
  <2>3. \A g \in Files : fs[g] \in {"Absent", "Pending"} => files[g] \in {"Absent", "Pending"}
    BY DEF TypeOK
  <2> HIDE DEF fs
  <2> QED
    BY <1>1, <1>2, <2>2, <2>3, UploadServerAssumption DEF Progress, TokenStep
<1>4. CASE ~FinalizeFile(u)
  <2>1. UNCHANGED <<slot, files>>
    BY <1>4 DEF UploadStep, DropUpload, AnnounceUpload, TakeTarget, SaveBody, ReportFinished
  <2> QED
    BY <1>1, <1>2, <2>1 DEF Progress, TokenStep
<1> QED
  BY <1>3, <1>4

\* Every step of the server is one of the three kinds.
LEMMA NextTokenStep == TypeOK /\ [Next]_vars => TokenStep
<1> SUFFICES ASSUME TypeOK, [Next]_vars
             PROVE  TokenStep
  OBVIOUS
<1>1. ASSUME NEW r \in Requests, NEW ip \in Ips, NEW pin \in Pins \cup {NoPin},
             NEW offer \in SUBSET Files, PrepareArrive(r, ip, pin, offer)
      PROVE  TokenStep
  <2>1. NoAdmission
    BY <1>1, NothingAdmitted DEF PrepareArrive, upVars
  <2>2. CreatedStays
    BY <1>1, CreatedIsFinal DEF PrepareArrive
  <2> QED
    BY <1>1, <2>1, <2>2 DEF PrepareArrive, Progress, TokenStep
<1>2. ASSUME NEW r \in Requests, AppAnswersDecision(r) \/ AppCancelSession(r)
      PROVE  TokenStep
  <2>1. NoAdmission
    BY <1>2, NothingAdmitted DEF AppAnswersDecision, AppDecide, AppCancelSession, upVars
  <2>2. CreatedStays
    BY <1>2 DEF AppAnswersDecision, AppDecide, AppCancelSession, reqVars, CreatedStays
  <2>3. slot' = None \/ UNCHANGED <<slot, files>>
    BY <1>2 DEF AppAnswersDecision, AppDecide, AppCancelSession
  <2> QED
    BY <2>1, <2>2, <2>3, UploadServerAssumption DEF Progress, TokenStep
<1>3. ASSUME NEW u \in Uploads, NEW s \in Requests, NEW f \in Files,
             NEW token \in Requests \X Files, NEW ip \in Ips,
             ValidateUpload(u, s, f, token, ip)
      PROVE  TokenStep
  <2>1. CASE UploadAllowed(s, f, token, ip)
    BY <1>3, <2>1
    DEF ValidateUpload, UploadAllowed, UpGoto, Validated, reqVars, Admit, TokenStep
  <2>2. CASE ~UploadAllowed(s, f, token, ip)
    <3>1. UNCHANGED <<upPc, upFile, slot, files, reqPc>>
      BY <1>3, <2>2 DEF ValidateUpload, reqVars
    <3> QED
      BY <3>1, NothingAdmitted DEF CreatedStays, Progress, TokenStep
  <2> QED
    BY <2>1, <2>2
<1>4. ASSUME NEW u \in Uploads, AppAnswersTarget(u)
      PROVE  TokenStep
  BY <1>4, NothingAdmitted
  DEF AppAnswersTarget, AppAnswerTarget, reqVars, CreatedStays, Progress, TokenStep
<1>5. ASSUME NEW c \in Cancels, NEW s \in Requests, NEW ip \in Ips,
             CancelSession(c, s, ip)
      PROVE  TokenStep
  <2>1. NoAdmission
    BY <1>5, NothingAdmitted DEF CancelSession, upVars
  <2>2. CreatedStays
    BY <1>5 DEF CancelSession, reqVars, CreatedStays
  <2>3. slot' = None \/ UNCHANGED <<slot, files>>
    BY <1>5 DEF CancelSession
  <2> QED
    BY <2>1, <2>2, <2>3, UploadServerAssumption DEF Progress, TokenStep
<1>6. ASSUME NEW c \in Cancels, ReportCancel(c) \/ DropCancel(c)
      PROVE  TokenStep
  BY <1>6, NothingAdmitted
  DEF ReportCancel, DropCancel, reqVars, upVars, CreatedStays, Progress, TokenStep
<1>7. CASE AppReceive \/ AppClose
  BY <1>7, NothingAdmitted
  DEF AppReceive, AppClose, reqVars, upVars, CreatedStays, Progress, TokenStep
<1>8. CASE UNCHANGED vars
  BY <1>8, NothingAdmitted DEF vars, reqVars, upVars, CreatedStays, Progress, TokenStep
<1> QED
  BY <1>1, <1>2, <1>3, <1>4, <1>5, <1>6, <1>7, <1>8, PrepareTokenStep, UploadTokenStep
  DEF Next

\* A step that admits no upload keeps the sets of uploads of every file.
LEMMA UploadsOfKept ==
  ASSUME NoAdmission, NEW s, NEW f
  PROVE  UploadsOf(s, f)' = UploadsOf(s, f)
BY DEF NoAdmission, UploadsOf

\* The strengthened invariant is inductive.
LEMMA TokenInductive ==
  ASSUME TypeOK, TokenInv, TokenStep
  PROVE  TokenInv'
<1>1. ASSUME NEW u \in Uploads, NEW s \in Requests, NEW f \in Files, Admit(u, s, f)
      PROVE  TokenInv'
  <2>1. /\ upPc'[u] = "announce" /\ upFile'[u] = <<s, f>>
        /\ \A v \in Uploads \ {u} : upPc'[v] = upPc[v] /\ upFile'[v] = upFile[v]
    BY <1>1 DEF Admit, TypeOK
  <2>2. \A v \in Uploads \ {u} : Validated(v)' <=> Validated(v)
    BY <2>1 DEF Validated
  <2>3. /\ slot = s /\ slot' = s /\ reqPc' = reqPc
        /\ files[f] = "Pending" /\ files'[f] = "InProgress"
        /\ \A g \in Files \ {f} : files'[g] = files[g]
    BY <1>1 DEF Admit, TypeOK
  <2>4. \A v \in Uploads : Validated(v) => upFile[v] # <<s, f>>
    BY <2>3 DEF TokenInv, UntouchedHaveNoUpload, UploadsOf
  <2>5. SessionsCreated'
    BY <2>1, <2>2, <2>3 DEF TokenInv, SessionsCreated
  <2>6. UntouchedHaveNoUpload'
    <3>1. ASSUME NEW g \in Files, files'[g] \in {"Absent", "Pending"}
          PROVE  UploadsOf(s, g)' = {}
      <4>1. g # f /\ UploadsOf(s, g) = {}
        BY <2>3, <3>1 DEF TokenInv, UntouchedHaveNoUpload
      <4> QED
        BY <2>1, <2>2, <4>1 DEF UploadsOf
    <3> QED
      BY <2>3, <3>1 DEF UntouchedHaveNoUpload, UploadsOf
  <2>7. TokenUsedOnce'
    BY <2>1, <2>2, <2>4 DEF TokenInv, TokenUsedOnce
  <2> QED
    BY <2>5, <2>6, <2>7 DEF TokenInv
<1>2. ASSUME NEW r \in Requests, Begin(r)
      PROVE  TokenInv'
  <2>1. SessionsCreated'
    BY <1>2 DEF Begin, CreatedStays, NoAdmission, TokenInv, SessionsCreated, TypeOK,
                RequestsNamed
  <2>2. \A f \in Files : UploadsOf(r, f) = {}
    BY <1>2 DEF Begin, TokenInv, SessionsCreated, UploadsOf
  <2>3. UntouchedHaveNoUpload'
    BY <1>2, <2>2 DEF Begin, NoAdmission, UntouchedHaveNoUpload, UploadsOf
  <2>4. TokenUsedOnce'
    BY <1>2 DEF Begin, NoAdmission, TokenInv, TokenUsedOnce
  <2> QED
    BY <2>1, <2>3, <2>4 DEF TokenInv
<1>3. CASE Progress
  <2>1. SessionsCreated'
    BY <1>3 DEF Progress, CreatedStays, NoAdmission, TokenInv, SessionsCreated, TypeOK,
                RequestsNamed
  <2>2. UntouchedHaveNoUpload'
    BY <1>3 DEF Progress, NoAdmission, TokenInv, UntouchedHaveNoUpload, UploadsOf
  <2>3. TokenUsedOnce'
    BY <1>3 DEF Progress, NoAdmission, TokenInv, TokenUsedOnce
  <2> QED
    BY <2>1, <2>2, <2>3 DEF TokenInv
<1> QED
  BY <1>1, <1>2, <1>3 DEF TokenStep

\* A token admits one upload, whatever uploads, cancels, drops and sessions do
\* in between: the InProgress mark set under the lock (v2.rs:354) is enough, as
\* a session is created once and its files never become pending again.
THEOREM TokenOnce == Spec => []TokenUsedOnce
<1>1. Init => TokenInv
  BY UploadServerAssumption
  DEF Init, TokenInv, SessionsCreated, UntouchedHaveNoUpload, TokenUsedOnce, Validated
<1>2. TypeOK /\ TokenInv /\ [Next]_vars => TokenInv'
  BY NextTokenStep, TokenInductive
<1>3. TokenInv => TokenUsedOnce
  BY DEF TokenInv
<1> QED
  BY <1>1, <1>2, <1>3, TypeCorrect, PTL DEF Spec

-----------------------------------------------------------------------------
(* The states of the files                                                 *)

\* FileStatusMatchesUploads for file f of session s.
StatusTold(s, f) ==
  LET us == UploadsOf(s, f)
  IN  CASE files[f] \in {"Absent", "Pending"} -> us = {}
        [] files[f] = "InProgress" -> \E u \in us : upPc[u] \in Unfinished
        [] files[f] = "Finished" -> \E u \in us : upPc[u] = "done" /\ saved[u]
        [] files[f] = "Failed" -> \E u \in us : upPc[u] = "done" /\ ~saved[u]

\* The invariant, file by file.
LEMMA StatusOfFiles ==
  FileStatusMatchesUploads <=> (slot \in Requests => \A f \in Files : StatusTold(slot, f))
BY DEF FileStatusMatchesUploads, StatusTold

\* What a step has to show of it.
LEMMA StatusOfFilesAfter ==
  (\A s \in Requests : slot' = s => \A f \in Files : StatusTold(s, f)')
    => FileStatusMatchesUploads'
BY DEF FileStatusMatchesUploads, StatusTold

\* An upload keeps what it has done; it is not yet final, or stays so.
OutcomeStays(u) == /\ upPc[u] \in Unfinished => upPc'[u] \in Unfinished
                   /\ upPc[u] = "done" => upPc'[u] = "done" /\ saved'[u] = saved[u]

\* The state of a file still tells what its uploads did when neither changed.
LEMMA ToldKept ==
  ASSUME NEW s, NEW f, StatusTold(s, f), files[f] \in FileStatus, files'[f] = files[f],
         UploadsOf(s, f)' = UploadsOf(s, f), \A u \in UploadsOf(s, f) : OutcomeStays(u)
  PROVE  StatusTold(s, f)'
<1> DEFINE us == UploadsOf(s, f)
<1>1. /\ us' = us
      /\ files[f] \in {"Absent", "Pending"} => us = {}
      /\ files[f] = "InProgress" => \E u \in us : upPc[u] \in Unfinished
      /\ files[f] = "Finished" => \E u \in us : upPc[u] = "done" /\ saved[u]
      /\ files[f] = "Failed" => \E u \in us : upPc[u] = "done" /\ ~saved[u]
  BY DEF StatusTold
<1> HIDE DEF us
<1>2. \A u \in us : OutcomeStays(u)
  BY DEF us
<1>3. /\ files'[f] \in {"Absent", "Pending"} => us' = {}
      /\ files'[f] = "InProgress" => \E u \in us' : upPc'[u] \in Unfinished
      /\ files'[f] = "Finished" => \E u \in us' : upPc'[u] = "done" /\ saved'[u]
      /\ files'[f] = "Failed" => \E u \in us' : upPc'[u] = "done" /\ ~saved'[u]
  BY <1>1, <1>2 DEF OutcomeStays
<1>4. files'[f] \in FileStatus
  OBVIOUS
<1> QED
  BY <1>3, <1>4 DEF StatusTold, us, FileStatus

\* A step that leaves the files of the session and the outcome of uploads alone.
OutcomeKept ==
  /\ NoAdmission
  /\ slot' \in Requests => slot' = slot /\ files' = files
  /\ \A u \in Uploads : OutcomeStays(u)

\* Such a step keeps the invariant.
LEMMA OutcomeKeptKeepsFiles ==
  ASSUME TypeOK, FileStatusMatchesUploads, OutcomeKept
  PROVE  FileStatusMatchesUploads'
<1> SUFFICES ASSUME NEW s \in Requests, slot' = s, NEW f \in Files
             PROVE  StatusTold(s, f)'
  BY StatusOfFilesAfter
<1>1. slot = s /\ files' = files /\ StatusTold(s, f)
  BY StatusOfFiles DEF OutcomeKept
<1>2. UploadsOf(s, f)' = UploadsOf(s, f)
  BY DEF OutcomeKept, NoAdmission, UploadsOf
<1>3. \A u \in UploadsOf(s, f) : OutcomeStays(u)
  BY DEF UploadsOf, OutcomeKept
<1>4. files[f] \in FileStatus
  BY DEF TypeOK
<1> QED
  BY <1>1, <1>2, <1>3, <1>4, ToldKept

\* An upload of the session that has not finished finds its file in progress.
LEMMA UnfinishedInProgress ==
  ASSUME TypeOK, TokenInv, FileStatusMatchesUploads,
         NEW u \in Uploads, upPc[u] \in Unfinished, slot = upFile[u][1]
  PROVE  /\ slot \in Requests /\ upFile[u][2] \in Files
         /\ upFile[u] = <<slot, upFile[u][2]>> /\ UploadsOf(slot, upFile[u][2]) = {u}
         /\ files[upFile[u][2]] = "InProgress"
<1> DEFINE f == upFile[u][2]
<1>1. Validated(u)
  BY DEF Validated, Unfinished
<1>2. slot \in Requests /\ f \in Files /\ upFile[u] = <<slot, f>>
  BY <1>1 DEF TypeOK, RequestsNamed
<1> HIDE DEF f
<1>3. u \in UploadsOf(slot, f) /\ \A v \in UploadsOf(slot, f) : v = u
  BY <1>1, <1>2 DEF UploadsOf, TokenInv, TokenUsedOnce
<1>4. files[f] \in FileStatus
  BY <1>2 DEF TypeOK
<1>5. upPc[u] # "done"
  BY DEF Unfinished
<1>6. files[f] = "InProgress"
  BY <1>2, <1>3, <1>4, <1>5 DEF FileStatusMatchesUploads, FileStatus
<1> QED
  BY <1>2, <1>3, <1>6 DEF f

\* finalize_file changes at most the file of its own upload, which is the only
\* one of that file.
LEMMA FinalizeKeepsFiles ==
  ASSUME TypeOK, TokenInv, FileStatusMatchesUploads, NEW u \in Uploads, FinalizeFile(u)
  PROVE  FileStatusMatchesUploads'
<1> DEFINE new == IF saved[u] THEN "Finished" ELSE "Failed"
<1>1. /\ upPc[u] \in Unfinished /\ \A v \in Uploads \ {u} : upPc'[v] = upPc[v]
      /\ UNCHANGED <<upFile, saved>>
      /\ Finalize(u, upFile[u][1], upFile[u][2])
  BY DEF FinalizeFile, UpGoto, Unfinished, TypeOK
<1>2. NoAdmission
  <2>1. upPc[u] # "idle" /\ upPc'[u] # "idle"
    BY DEF FinalizeFile, UpGoto, TypeOK
  <2> QED
    BY <1>1, <2>1 DEF NoAdmission, Validated
<1> SUFFICES ASSUME NEW s \in Requests, slot' = s
             PROVE  \A g \in Files : StatusTold(s, g)'
  BY StatusOfFilesAfter
<1>3. slot = s
  BY <1>1, UploadServerAssumption DEF Finalize
<1>4. ASSUME NEW g \in Files, files'[g] = files[g], upFile[u] # <<s, g>>
      PROVE  StatusTold(s, g)'
  <2>1. StatusTold(s, g) /\ files[g] \in FileStatus
    BY <1>3, StatusOfFiles DEF TypeOK
  <2>2. UploadsOf(s, g)' = UploadsOf(s, g)
    BY <1>2 DEF NoAdmission, UploadsOf
  <2>3. \A v \in UploadsOf(s, g) : v \in Uploads \ {u}
    BY <1>4 DEF UploadsOf
  <2>4. \A v \in UploadsOf(s, g) : OutcomeStays(v)
    BY <1>1, <2>3 DEF OutcomeStays
  <2> QED
    BY <1>4, <2>1, <2>2, <2>4, ToldKept
<1>5. CASE upFile[u][1] # s
  <2>1. UNCHANGED files
    BY <1>1, <1>3, <1>5 DEF Finalize
  <2>2. \A g : upFile[u] # <<s, g>>
    BY <1>5
  <2> QED
    BY <1>4, <2>1, <2>2
<1>6. CASE upFile[u][1] = s
  <2>1. PICK f \in Files : /\ f = upFile[u][2] /\ upFile[u] = <<s, f>>
                           /\ UploadsOf(s, f) = {u} /\ files[f] = "InProgress"
    BY <1>1, <1>3, <1>6, UnfinishedInProgress
  <2>2. files' = [files EXCEPT ![f] = new]
    BY <1>1, <1>3, <1>6, <2>1, UploadServerAssumption DEF Finalize
  <2>3. upPc'[u] = "done"
    BY <1>3, UploadServerAssumption DEF FinalizeFile, SessionEnds, UpGoto, TypeOK
  <2>4. UploadsOf(s, f)' = {u}
    BY <1>2, <2>1 DEF NoAdmission, UploadsOf
  <2>5. StatusTold(s, f)'
    <3>1. files'[f] = new /\ saved'[u] = saved[u]
      BY <1>1, <2>1, <2>2 DEF TypeOK
    <3> QED
      BY <2>3, <2>4, <3>1 DEF StatusTold
  <2>6. \A g \in Files \ {f} : files'[g] = files[g] /\ upFile[u] # <<s, g>>
    BY <2>1, <2>2 DEF TypeOK
  <2>7. \A g \in Files \ {f} : StatusTold(s, g)'
    BY <1>4, <2>6
  <2> QED
    BY <2>5, <2>7
<1> QED
  BY <1>5, <1>6

\* An upload that is let in marks its own file, which had none.
LEMMA AdmitKeepsFiles ==
  ASSUME TypeOK, TokenInv, FileStatusMatchesUploads, UNCHANGED saved,
         NEW u \in Uploads, NEW s \in Requests, NEW f \in Files, Admit(u, s, f)
  PROVE  FileStatusMatchesUploads'
<1>1. /\ upPc'[u] = "announce" /\ upFile'[u] = <<s, f>> /\ ~Validated(u)
      /\ \A v \in Uploads \ {u} : upPc'[v] = upPc[v] /\ upFile'[v] = upFile[v]
      /\ slot = s /\ slot' = s
      /\ files'[f] = "InProgress" /\ \A g \in Files \ {f} : files'[g] = files[g]
  BY DEF Admit, TypeOK
<1>2. u \in UploadsOf(s, f)' /\ upPc'[u] \in Unfinished
  BY <1>1 DEF UploadsOf, Validated, Unfinished
<1>3. ASSUME NEW g \in Files \ {f}
      PROVE  StatusTold(s, g)'
  <2>1. UploadsOf(s, g)' = UploadsOf(s, g) /\ u \notin UploadsOf(s, g)
    BY <1>1 DEF UploadsOf, Validated
  <2>2. \A v \in UploadsOf(s, g) : v \in Uploads \ {u}
    BY <2>1 DEF UploadsOf
  <2>3. \A v \in UploadsOf(s, g) : OutcomeStays(v)
    BY <1>1, <2>2 DEF OutcomeStays
  <2>4. StatusTold(s, g) /\ files[g] \in FileStatus
    BY <1>1, StatusOfFiles DEF TypeOK
  <2> QED
    BY <1>1, <2>1, <2>3, <2>4, ToldKept
<1>4. StatusTold(s, f)'
  BY <1>1, <1>2 DEF StatusTold
<1> QED
  BY <1>1, <1>3, <1>4, StatusOfFilesAfter

\* A session that begins has no uploads.
LEMMA BeginTellsFiles ==
  ASSUME TokenInv', NEW r \in Requests, CreateSession(r)
  PROVE  FileStatusMatchesUploads'
<1>1. slot' = r /\ \A f \in Files : files'[f] \in {"Absent", "Pending"}
  BY DEF CreateSession
<1>2. \A f \in Files : UploadsOf(r, f)' = {}
  BY <1>1 DEF TokenInv, UntouchedHaveNoUpload, UploadsOf
<1> QED
  BY <1>1, <1>2, StatusOfFilesAfter DEF StatusTold

\* A step that touches no upload.
LEMMA UploadsUntouched ==
  ASSUME UNCHANGED upVars, slot' \notin Requests \/ UNCHANGED <<slot, files>>
  PROVE  OutcomeKept
BY NothingAdmitted DEF upVars, OutcomeKept, OutcomeStays

\* A step of an upload before finalize_file, or after it.
LEMMA UploadOutcomeStep ==
  ASSUME TypeOK, NEW u \in Uploads, UploadStep(u) \/ DropUpload(u), ~FinalizeFile(u)
  PROVE  OutcomeKept
<1>1. UNCHANGED <<slot, files, upFile>>
  BY DEF UploadStep, DropUpload, AnnounceUpload, TakeTarget, SaveBody, ReportFinished
<1>2. \A v \in Uploads \ {u} : upPc'[v] = upPc[v] /\ saved'[v] = saved[v]
  BY DEF UploadStep, DropUpload, AnnounceUpload, TakeTarget, SaveBody, ReportFinished,
         UpGoto, TypeOK
<1>3. /\ upPc[u] \notin {"idle", "done"} /\ upPc'[u] # "idle"
      /\ upPc[u] \in Unfinished => upPc'[u] \in Unfinished
  BY DEF UploadStep, DropUpload, AnnounceUpload, TakeTarget, SaveBody, ReportFinished,
         UpGoto, TypeOK, Unfinished
<1>4. NoAdmission
  BY <1>1, <1>2, <1>3 DEF NoAdmission, Validated
<1> QED
  BY <1>1, <1>2, <1>3, <1>4 DEF OutcomeKept, OutcomeStays

\* Every step of the server keeps the invariant.
LEMMA FilesInductive ==
  TypeOK /\ TokenInv /\ TokenInv' /\ FileStatusMatchesUploads /\ [Next]_vars
    => FileStatusMatchesUploads'
<1> SUFFICES ASSUME TypeOK, TokenInv, TokenInv', FileStatusMatchesUploads, [Next]_vars
             PROVE  FileStatusMatchesUploads'
  OBVIOUS
<1>1. CASE \E r \in Requests : CreateSession(r)
  BY <1>1, BeginTellsFiles
<1>2. ASSUME NEW u \in Uploads, UploadStep(u) \/ DropUpload(u)
      PROVE  FileStatusMatchesUploads'
  BY <1>2, FinalizeKeepsFiles, UploadOutcomeStep, OutcomeKeptKeepsFiles
<1>3. ASSUME NEW u \in Uploads, NEW s \in Requests, NEW f \in Files,
             NEW token \in Requests \X Files, NEW ip \in Ips,
             ValidateUpload(u, s, f, token, ip)
      PROVE  FileStatusMatchesUploads'
  <2>1. CASE UploadAllowed(s, f, token, ip)
    <3>1. Admit(u, s, f) /\ UNCHANGED saved
      BY <1>3, <2>1 DEF ValidateUpload, UploadAllowed, UpGoto, Validated, reqVars, Admit
    <3> QED
      BY <3>1, AdmitKeepsFiles
  <2>2. CASE ~UploadAllowed(s, f, token, ip)
    BY <1>3, <2>2, UploadsUntouched, OutcomeKeptKeepsFiles DEF ValidateUpload, upVars
  <2> QED
    BY <2>1, <2>2
<1>4. ASSUME NEW r \in Requests,
             \/ \E ip \in Ips, pin \in Pins \cup {NoPin}, offer \in SUBSET Files :
                  PrepareArrive(r, ip, pin, offer)
             \/ PrepareStep(r) /\ ~CreateSession(r)
             \/ DropPrepare(r) \/ AppAnswersDecision(r) \/ AppCancelSession(r)
      PROVE  OutcomeKept
  <2>1. UNCHANGED upVars /\ (UNCHANGED files \/ slot' = None)
    BY <1>4 DEF PrepareArrive, PrepareStep, ClaimSlot, AnnouncePrepare, TakeDecision,
                RefuseRequest, CleanupPending, NotifyAborted, DropPrepare,
                AppAnswersDecision, AppDecide, AppCancelSession
  <2>2. slot' \in {slot, None, Pending}
    BY <1>4 DEF PrepareArrive, PrepareStep, ClaimSlot, AnnouncePrepare, TakeDecision,
                RefuseRequest, CleanupPending, NotifyAborted, DropPrepare,
                AppAnswersDecision, AppDecide, AppCancelSession, ClearPendingSession
  <2> QED
    BY <2>1, <2>2, UploadsUntouched, UploadServerAssumption
<1>5. ASSUME NEW u \in Uploads, AppAnswersTarget(u)
      PROVE  OutcomeKept
  BY <1>5, NothingAdmitted
  DEF AppAnswersTarget, AppAnswerTarget, OutcomeKept, OutcomeStays
<1>6. ASSUME NEW c \in Cancels,
             \/ \E s \in Requests, ip \in Ips : CancelSession(c, s, ip)
             \/ ReportCancel(c) \/ DropCancel(c)
      PROVE  OutcomeKept
  BY <1>6, UploadsUntouched, UploadServerAssumption DEF CancelSession, ReportCancel, DropCancel
<1>7. CASE AppReceive \/ AppClose \/ UNCHANGED vars
  BY <1>7, NothingAdmitted, OutcomeKeptKeepsFiles
  DEF AppReceive, AppClose, vars, upVars, OutcomeKept, OutcomeStays
<1> QED
  BY <1>1, <1>2, <1>3, <1>4, <1>5, <1>6, <1>7, OutcomeKeptKeepsFiles DEF Next

\* What TokenOnce rests on holds always.
LEMMA TokenAlways == Spec => []TokenInv
<1>1. Init => TokenInv
  BY UploadServerAssumption
  DEF Init, TokenInv, SessionsCreated, UntouchedHaveNoUpload, TokenUsedOnce, Validated
<1>2. TypeOK /\ TokenInv /\ [Next]_vars => TokenInv'
  BY NextTokenStep, TokenInductive
<1> QED
  BY <1>1, <1>2, TypeCorrect, PTL DEF Spec

\* The state of a file is what its own upload did, though uploads of earlier
\* sessions may finalize files of the same ids late (v2.rs:551).
THEOREM FilesTellUploads == Spec => []FileStatusMatchesUploads
<1>1. Init => FileStatusMatchesUploads
  BY UploadServerAssumption DEF Init, FileStatusMatchesUploads
<1> QED
  BY <1>1, FilesInductive, TypeCorrect, TokenAlways, PTL DEF Spec

-----------------------------------------------------------------------------
(* The end of a session                                                    *)

\* The two halves of Reporters.
UpReporters(s) ==
  {u \in Uploads : upPc[u] \in {"end", "taskEnd", "lost"} /\ upFile[u][1] = s}

CanReporters(s) == {c \in Cancels : canPc[c] \in {"end", "lost"} /\ canSession[c] = s}

\* The end of session s has one reporter, or was reported; SessionEndReportedOnce
\* without the cardinality.
ToReport(s) ==
  \/ reported[s] = 1 /\ UpReporters(s) = {} /\ CanReporters(s) = {}
  \/ reported[s] = 0 /\ CanReporters(s) = {} /\ \E u \in Uploads : UpReporters(s) = {u}
  \/ reported[s] = 0 /\ UpReporters(s) = {} /\ \E c \in Cancels : CanReporters(s) = {c}

NothingToReport(s) == reported[s] = 0 /\ UpReporters(s) = {} /\ CanReporters(s) = {}

OneReport(s) ==
  /\ ended[s] \in {"finished", "cancelled"} => ToReport(s)
  /\ ended[s] \notin {"finished", "cancelled"} => NothingToReport(s)

\* A session has not ended before it is created, nor while it has the slot.
EndInv == /\ slot \in Requests => ended[slot] = "no"
          /\ \A r \in Requests : reqPc[r] # "created" => ended[r] = "no"
          /\ \A s \in Requests : OneReport(s)

\* All that a step may do to the ends of sessions and to those who report them.
SameReporters(s) == UpReporters(s)' = UpReporters(s) /\ CanReporters(s)' = CanReporters(s)

Ends(s, how) ==
  /\ slot = s /\ slot' = None
  /\ ended' = [ended EXCEPT ![s] = how]
  /\ UNCHANGED <<reqPc, reported>>
  /\ \A t \in Requests \ {s} : SameReporters(t)

EndsByUpload(s, u) == /\ Ends(s, "finished")
                      /\ UpReporters(s)' = UpReporters(s) \cup {u}
                      /\ CanReporters(s)' = CanReporters(s)

EndsByCancel(s, c) == /\ Ends(s, "cancelled")
                      /\ CanReporters(s)' = CanReporters(s) \cup {c}
                      /\ UpReporters(s)' = UpReporters(s)

EndsByApp(s) == Ends(s, "byApp") /\ SameReporters(s)

Reports(s) ==
  /\ UNCHANGED <<slot, reqPc, ended>>
  /\ reported' = [reported EXCEPT ![s] = @ + 1]
  /\ \A t \in Requests \ {s} : SameReporters(t)
  /\ \/ \E u \in UpReporters(s) : /\ UpReporters(s)' = UpReporters(s) \ {u}
                                  /\ CanReporters(s)' = CanReporters(s)
     \/ \E c \in CanReporters(s) : /\ CanReporters(s)' = CanReporters(s) \ {c}
                                   /\ UpReporters(s)' = UpReporters(s)

NoEnd ==
  /\ UNCHANGED <<ended, reported>>
  /\ CreatedStays
  /\ slot' \in Requests => slot' = slot \/ reqPc[slot'] = "activate"
  /\ \A t \in Requests : SameReporters(t)

EndStep == \/ \E s \in Requests : \/ \E u \in Uploads : EndsByUpload(s, u)
                                  \/ \E c \in Cancels : EndsByCancel(s, c)
                                  \/ EndsByApp(s) \/ Reports(s)
           \/ NoEnd

\* A session whose reporters and whose end stay as they are.
LEMMA OneReportKept ==
  ASSUME NEW s, OneReport(s), SameReporters(s), ended'[s] = ended[s], reported'[s] = reported[s]
  PROVE  OneReport(s)'
BY DEF OneReport, ToReport, NothingToReport, SameReporters

\* None of these steps gives an end a second reporter or loses the one it has.
LEMMA EndInductive ==
  ASSUME TypeOK, TokenInv, EndInv, EndStep
  PROVE  EndInv'
<1>1. ASSUME NEW s \in Requests, NEW how \in {"finished", "cancelled", "byApp"}, Ends(s, how),
             OneReport(s)'
      PROVE  EndInv'
  <2>1. /\ slot' \notin Requests
        /\ \A r \in Requests : reqPc'[r] # "created" => ended'[r] = "no"
    BY <1>1, UploadServerAssumption DEF Ends, EndInv, TokenInv, SessionsCreated, TypeOK
  <2>2. ASSUME NEW t \in Requests \ {s}
        PROVE  OneReport(t)'
    <3>1. ended'[t] = ended[t] /\ reported'[t] = reported[t] /\ SameReporters(t) /\ OneReport(t)
      BY <1>1 DEF Ends, EndInv, TypeOK
    <3> QED
      BY <3>1, OneReportKept
  <2> QED
    BY <1>1, <2>1, <2>2 DEF EndInv
<1>2. ASSUME NEW s \in Requests, NEW how \in {"finished", "cancelled", "byApp"}, Ends(s, how)
      PROVE  NothingToReport(s) /\ ended'[s] = how /\ reported'[s] = 0
  BY <1>2 DEF Ends, EndInv, OneReport, NothingToReport, TypeOK
<1>3. ASSUME NEW s \in Requests, NEW u \in Uploads, EndsByUpload(s, u)
      PROVE  EndInv'
  <2>1. OneReport(s)'
    BY <1>2, <1>3 DEF EndsByUpload, OneReport, ToReport, NothingToReport
  <2> QED
    BY <1>1, <1>3, <2>1 DEF EndsByUpload
<1>4. ASSUME NEW s \in Requests, NEW c \in Cancels, EndsByCancel(s, c)
      PROVE  EndInv'
  <2>1. OneReport(s)'
    BY <1>2, <1>4 DEF EndsByCancel, OneReport, ToReport, NothingToReport
  <2> QED
    BY <1>1, <1>4, <2>1 DEF EndsByCancel
<1>5. ASSUME NEW s \in Requests, EndsByApp(s)
      PROVE  EndInv'
  <2>1. OneReport(s)'
    BY <1>2, <1>5 DEF EndsByApp, SameReporters, OneReport, ToReport, NothingToReport
  <2> QED
    BY <1>1, <1>5, <2>1 DEF EndsByApp
<1>6. ASSUME NEW s \in Requests, Reports(s)
      PROVE  EndInv'
  <2>1. ToReport(s) /\ reported[s] = 0 /\ ended[s] \in {"finished", "cancelled"}
    BY <1>6 DEF Reports, EndInv, OneReport, ToReport, NothingToReport
  <2>2. reported'[s] = 1 /\ UpReporters(s)' = {} /\ CanReporters(s)' = {}
    BY <1>6, <2>1 DEF Reports, ToReport, TypeOK
  <2>3. OneReport(s)'
    BY <1>6, <2>1, <2>2 DEF Reports, OneReport, ToReport
  <2>4. ASSUME NEW t \in Requests \ {s}
        PROVE  OneReport(t)'
    <3>1. ended'[t] = ended[t] /\ reported'[t] = reported[t] /\ SameReporters(t) /\ OneReport(t)
      BY <1>6 DEF Reports, EndInv, TypeOK
    <3> QED
      BY <3>1, OneReportKept
  <2> QED
    BY <1>6, <2>3, <2>4 DEF Reports, EndInv
<1>7. CASE NoEnd
  <2>1. \A t \in Requests : OneReport(t)'
    BY <1>7, OneReportKept DEF NoEnd, EndInv
  <2>2. slot' \in Requests => ended'[slot'] = "no"
    BY <1>7 DEF NoEnd, EndInv
  <2>3. \A r \in Requests : reqPc'[r] # "created" => ended'[r] = "no"
    BY <1>7 DEF NoEnd, EndInv, CreatedStays
  <2> QED
    BY <2>1, <2>2, <2>3 DEF EndInv
<1> QED
  BY <1>3, <1>4, <1>5, <1>6, <1>7 DEF EndStep

\* A step that moves no upload and no cancel moves no reporter.
LEMMA ReportersUntouched ==
  ASSUME UNCHANGED <<upPc, upFile, canPc, canSession>>
  PROVE  \A t \in Requests : SameReporters(t)
BY DEF SameReporters, UpReporters, CanReporters

\* A step of one upload that is no reporter before and after.
LEMMA NoReporterMoves ==
  ASSUME UNCHANGED <<canPc, canSession>>, NEW u \in Uploads,
         \A v \in Uploads \ {u} : upPc'[v] = upPc[v] /\ upFile'[v] = upFile[v],
         upPc[u] \notin {"end", "taskEnd", "lost"}, upPc'[u] \notin {"end", "taskEnd", "lost"}
  PROVE  \A t \in Requests : SameReporters(t)
BY DEF SameReporters, UpReporters, CanReporters

\* finalize_file ends the session of its upload and makes it the reporter, or
\* ends nothing.
LEMMA FinalizeEndStep ==
  ASSUME TypeOK, NEW u \in Uploads, FinalizeFile(u)
  PROVE  EndStep
<1>1. /\ \A v \in Uploads \ {u} : upPc'[v] = upPc[v] /\ upFile'[v] = upFile[v]
      /\ upPc[u] \in {"finish", "cleanup"} /\ upFile' = upFile
      /\ UNCHANGED <<reqPc, canPc, canSession, reported>>
      /\ upPc'[u] \in IF SessionEnds THEN {"end", "taskEnd"} ELSE {"done"}
  BY DEF FinalizeFile, UpGoto, TypeOK, reqVars, canVars
<1>2. PICK s \in Requests : s = upFile[u][1]
  BY <1>1 DEF TypeOK, RequestsNamed, Validated
<1>3. \/ UNCHANGED <<slot, ended>>
      \/ slot = s /\ slot' = None /\ ended' = [ended EXCEPT ![s] = "finished"]
  BY <1>2 DEF FinalizeFile, Finalize
<1>4. CASE UNCHANGED <<slot, ended>>
  <2>1. upPc'[u] = "done"
    BY <1>1, <1>4 DEF SessionEnds
  <2>2. \A t \in Requests : SameReporters(t)
    BY <1>1, <2>1, NoReporterMoves
  <2> QED
    BY <1>1, <1>4, <2>2 DEF NoEnd, EndStep, CreatedStays
<1>5. CASE slot = s /\ slot' = None /\ ended' = [ended EXCEPT ![s] = "finished"]
  <2>1. SessionEnds
    BY <1>2, <1>5, UploadServerAssumption DEF SessionEnds
  <2>2. upPc'[u] \in {"end", "taskEnd"}
    BY <1>1, <2>1
  <2>3. /\ UpReporters(s)' = UpReporters(s) \cup {u}
        /\ \A t \in Requests \ {s} : UpReporters(t)' = UpReporters(t)
    BY <1>1, <1>2, <2>2 DEF UpReporters
  <2>4. \A t \in Requests : CanReporters(t)' = CanReporters(t)
    BY <1>1 DEF CanReporters
  <2>5. Ends(s, "finished")
    BY <1>1, <1>5, <2>3, <2>4 DEF Ends, SameReporters
  <2>6. EndsByUpload(s, u)
    BY <1>2, <2>3, <2>4, <2>5 DEF EndsByUpload
  <2> QED
    BY <1>2, <2>6 DEF EndStep
<1> QED
  BY <1>3, <1>4, <1>5

\* The other steps of an upload end nothing; one of them reports.
LEMMA UploadEndStep ==
  ASSUME TypeOK, NEW u \in Uploads, UploadStep(u) \/ DropUpload(u)
  PROVE  EndStep
<1>1. CASE ReportFinished(u)
  <2>1. /\ \A v \in Uploads \ {u} : upPc'[v] = upPc[v] /\ upFile' = upFile
        /\ upPc[u] \in {"end", "taskEnd"} /\ upPc'[u] = "done"
        /\ UNCHANGED <<slot, ended, reqPc, canPc, canSession>>
    BY <1>1 DEF ReportFinished, UpGoto, TypeOK, reqVars, canVars
  <2>2. PICK s \in Requests : s = upFile[u][1]
    BY <2>1 DEF TypeOK, RequestsNamed, Validated
  <2>3. /\ u \in UpReporters(s) /\ UpReporters(s)' = UpReporters(s) \ {u}
        /\ \A t \in Requests \ {s} : UpReporters(t)' = UpReporters(t)
    BY <2>1, <2>2 DEF UpReporters
  <2>4. \A t \in Requests : CanReporters(t)' = CanReporters(t)
    BY <2>1 DEF CanReporters
  <2>5. reported' = [reported EXCEPT ![s] = @ + 1]
    BY <1>1, <2>2 DEF ReportFinished
  <2>6. Reports(s)
    BY <2>1, <2>2, <2>3, <2>4, <2>5 DEF Reports, SameReporters
  <2> QED
    BY <2>2, <2>6 DEF EndStep
<1>2. CASE ~ReportFinished(u) /\ ~FinalizeFile(u)
  <2>1. /\ \A v \in Uploads \ {u} : upPc'[v] = upPc[v]
        /\ UNCHANGED <<slot, ended, reported, reqPc, upFile, canPc, canSession>>
    BY <1>2 DEF UploadStep, DropUpload, AnnounceUpload, TakeTarget, SaveBody, UpGoto, TypeOK,
                reqVars, canVars
  <2>2. CASE upPc[u] = "end" /\ upPc'[u] = "lost"
    <3>1. \A t \in Requests : SameReporters(t)
      BY <2>1, <2>2 DEF SameReporters, UpReporters, CanReporters
    <3> QED
      BY <2>1, <3>1 DEF NoEnd, EndStep, CreatedStays
  <2>3. CASE ~(upPc[u] = "end" /\ upPc'[u] = "lost")
    <3>1. upPc[u] \notin {"end", "taskEnd", "lost"} /\ upPc'[u] \notin {"end", "taskEnd", "lost"}
      BY <1>2, <2>3 DEF UploadStep, DropUpload, AnnounceUpload, TakeTarget, SaveBody, UpGoto, TypeOK
    <3>2. \A t \in Requests : SameReporters(t)
      BY <2>1, <3>1, NoReporterMoves
    <3> QED
      BY <2>1, <3>2 DEF NoEnd, EndStep, CreatedStays
  <2> QED
    BY <2>2, <2>3
<1> QED
  BY <1>1, <1>2, FinalizeEndStep

\* A cancel ends its session and becomes the reporter, reports, or does neither.
LEMMA CancelEndStep ==
  ASSUME TypeOK, NEW c \in Cancels,
         \/ \E s \in Requests, ip \in Ips : CancelSession(c, s, ip)
         \/ ReportCancel(c) \/ DropCancel(c)
  PROVE  EndStep
<1>1. \A d \in Cancels \ {c} : canPc'[d] = canPc[d] /\ canSession'[d] = canSession[d]
  BY DEF CancelSession, ReportCancel, DropCancel, CanGoto, TypeOK
<1>2. UNCHANGED <<reqPc, upPc, upFile>>
  BY DEF CancelSession, ReportCancel, DropCancel, reqVars, upVars
<1>3. \A t \in Requests : UpReporters(t)' = UpReporters(t)
  BY <1>2 DEF UpReporters
<1>4. ASSUME NEW s \in Requests, NEW ip \in Ips, CancelSession(c, s, ip)
      PROVE  EndStep
  <2>1. canPc[c] = "idle" /\ canSession'[c] = s /\ UNCHANGED reported
    BY <1>4 DEF CancelSession, CanGoto, TypeOK
  <2>2. CASE slot = s /\ from[s] = ip
    <3>1. canPc'[c] = "end" /\ slot' = None /\ ended' = [ended EXCEPT ![s] = "cancelled"]
      BY <1>4, <2>2 DEF CancelSession, CanGoto, TypeOK
    <3>2. /\ CanReporters(s)' = CanReporters(s) \cup {c}
          /\ \A t \in Requests \ {s} : CanReporters(t)' = CanReporters(t)
      BY <1>1, <2>1, <3>1 DEF CanReporters
    <3> QED
      BY <1>2, <1>3, <2>1, <2>2, <3>1, <3>2 DEF Ends, EndsByCancel, SameReporters, EndStep
  <2>3. CASE ~(slot = s /\ from[s] = ip)
    <3>1. canPc'[c] = "foreign" /\ UNCHANGED <<slot, ended>>
      BY <1>4, <2>3 DEF CancelSession, CanGoto, TypeOK
    <3>2. \A t \in Requests : CanReporters(t)' = CanReporters(t)
      BY <1>1, <2>1, <3>1 DEF CanReporters
    <3> QED
      BY <1>2, <1>3, <2>1, <3>1, <3>2 DEF NoEnd, SameReporters, EndStep, CreatedStays
  <2> QED
    BY <2>2, <2>3
<1>5. CASE ReportCancel(c) \/ DropCancel(c)
  <2>1. UNCHANGED <<slot, ended, canSession>> /\ canPc[c] # "idle"
    BY <1>5 DEF ReportCancel, DropCancel, CanGoto, TypeOK
  <2>2. PICK s \in Requests : s = canSession[c]
    BY <2>1 DEF TypeOK, RequestsNamed
  <2>3. CASE canPc[c] = "end" /\ canPc'[c] = "done" /\ reported' = [reported EXCEPT ![s] = @ + 1]
    <3>1. /\ c \in CanReporters(s) /\ CanReporters(s)' = CanReporters(s) \ {c}
          /\ \A t \in Requests \ {s} : CanReporters(t)' = CanReporters(t)
      BY <1>1, <2>1, <2>2, <2>3 DEF CanReporters
    <3>2. Reports(s)
      BY <1>2, <1>3, <2>1, <2>2, <2>3, <3>1 DEF Reports, SameReporters
    <3> QED
      BY <2>2, <3>2 DEF EndStep
  <2>4. CASE /\ canPc[c] \in {"end", "lost"} <=> canPc'[c] \in {"end", "lost"}
             /\ UNCHANGED reported
    <3>1. \A t \in Requests : CanReporters(t)' = CanReporters(t)
      BY <1>1, <2>1, <2>4 DEF CanReporters
    <3> QED
      BY <1>2, <1>3, <2>1, <2>4, <3>1 DEF NoEnd, SameReporters, EndStep, CreatedStays
  <2>5. \/ canPc[c] = "end" /\ canPc'[c] = "done" /\ reported' = [reported EXCEPT ![s] = @ + 1]
        \/ /\ canPc[c] \in {"end", "lost"} <=> canPc'[c] \in {"end", "lost"}
           /\ UNCHANGED reported
    BY <1>5, <2>2 DEF ReportCancel, DropCancel, CanGoto, TypeOK
  <2> QED
    BY <2>3, <2>4, <2>5
<1> QED
  BY <1>4, <1>5

\* Every step of the server is one of these.
LEMMA NextEndStep == TypeOK /\ [Next]_vars => EndStep
<1> SUFFICES ASSUME TypeOK, [Next]_vars
             PROVE  EndStep
  OBVIOUS
<1>1. ASSUME NEW r \in Requests,
             \/ \E ip \in Ips, pin \in Pins \cup {NoPin}, offer \in SUBSET Files :
                  PrepareArrive(r, ip, pin, offer)
             \/ PrepareStep(r) \/ DropPrepare(r) \/ AppAnswersDecision(r)
      PROVE  NoEnd
  <2>1. UNCHANGED <<ended, reported, upVars, canVars>>
    BY <1>1 DEF PrepareArrive, PrepareStep, ClaimSlot, AnnouncePrepare, TakeDecision,
                CreateSession, RefuseRequest, CleanupPending, NotifyAborted, DropPrepare,
                AppAnswersDecision, AppDecide
  <2>2. slot' \in Requests => slot' = slot \/ reqPc[slot'] = "activate"
    BY <1>1, UploadServerAssumption
    DEF PrepareArrive, PrepareStep, ClaimSlot, AnnouncePrepare, TakeDecision,
        CreateSession, RefuseRequest, CleanupPending, NotifyAborted, DropPrepare,
        AppAnswersDecision, AppDecide, ClearPendingSession, ReqGoto
  <2>3. UNCHANGED reqPc \/ \E a \in ReqPcs \ {"created"}, b \in ReqPcs : ReqGoto(r, a, b)
    BY <1>1 DEF PrepareArrive, PrepareStep, ClaimSlot, AnnouncePrepare, TakeDecision,
                CreateSession, RefuseRequest, CleanupPending, NotifyAborted, DropPrepare,
                AppAnswersDecision, AppDecide, ReqPcs, ReqGoto
  <2>4. CreatedStays
    BY <2>3, CreatedIsFinal DEF CreatedStays
  <2>5. \A t \in Requests : SameReporters(t)
    BY <2>1, ReportersUntouched DEF upVars, canVars
  <2> QED
    BY <2>1, <2>2, <2>4, <2>5 DEF NoEnd
<1>2. ASSUME NEW s \in Requests, AppCancelSession(s)
      PROVE  EndsByApp(s)
  BY <1>2, ReportersUntouched
  DEF AppCancelSession, reqVars, upVars, canVars, Ends, EndsByApp
<1>3. ASSUME NEW u \in Uploads, NEW s \in Requests, NEW f \in Files,
             NEW token \in Requests \X Files, NEW ip \in Ips,
             ValidateUpload(u, s, f, token, ip)
      PROVE  NoEnd
  <2>1. /\ UNCHANGED <<slot, reqPc, ended, reported, canPc, canSession>>
        /\ \A v \in Uploads \ {u} : upPc'[v] = upPc[v] /\ upFile'[v] = upFile[v]
        /\ upPc[u] = "idle" /\ upPc'[u] \in {"idle", "announce"}
    BY <1>3 DEF ValidateUpload, UpGoto, reqVars, canVars, TypeOK
  <2>2. \A t \in Requests : SameReporters(t)
    BY <2>1, NoReporterMoves
  <2> QED
    BY <2>1, <2>2 DEF NoEnd, CreatedStays
<1>4. ASSUME \/ \E u \in Uploads : AppAnswersTarget(u)
             \/ AppReceive \/ AppClose \/ UNCHANGED vars
      PROVE  NoEnd
  <2>1. UNCHANGED <<slot, reqPc, ended, reported, upPc, upFile, canPc, canSession>>
    BY <1>4 DEF AppAnswersTarget, AppAnswerTarget, AppReceive, AppClose, vars, reqVars,
                upVars, canVars
  <2>2. \A t \in Requests : SameReporters(t)
    BY <2>1, ReportersUntouched
  <2> QED
    BY <2>1, <2>2 DEF NoEnd, CreatedStays
<1> QED
  BY <1>1, <1>2, <1>3, <1>4, UploadEndStep, CancelEndStep DEF Next, EndStep

\* What EndReportedOnce rests on holds always.
LEMMA EndAlways == Spec => []EndInv
<1>1. Init => EndInv
  BY UploadServerAssumption
  DEF Init, EndInv, OneReport, NothingToReport, UpReporters, CanReporters
<1>2. TypeOK /\ TokenInv /\ EndInv /\ [Next]_vars => EndInv'
  BY NextEndStep, EndInductive
<1> QED
  BY <1>1, <1>2, TypeCorrect, TokenAlways, PTL DEF Spec

\* One reporter or one report, counted.
LEMMA ReportedOnceFollows == EndInv => SessionEndReportedOnce
<1> SUFFICES ASSUME EndInv, NEW s \in Requests
             PROVE  reported[s] + Cardinality(Reporters(s))
                      = IF ended[s] \in {"finished", "cancelled"} THEN 1 ELSE 0
  BY DEF SessionEndReportedOnce
<1>1. Reporters(s) = UpReporters(s) \cup CanReporters(s)
  BY DEF Reporters, UpReporters, CanReporters
<1>2. ASSUME NEW x, Reporters(s) = {x}
      PROVE  Cardinality(Reporters(s)) = 1
  BY <1>2, FS_Singleton
<1>3. Reporters(s) = {} => Cardinality(Reporters(s)) = 0
  BY FS_EmptySet
<1>4. CASE ended[s] \in {"finished", "cancelled"}
  <2>1. ToReport(s)
    BY <1>4 DEF EndInv, OneReport
  <2>2. \/ reported[s] = 1 /\ Cardinality(Reporters(s)) = 0
        \/ reported[s] = 0 /\ Cardinality(Reporters(s)) = 1
    BY <1>1, <1>2, <1>3, <2>1 DEF ToReport
  <2> QED
    BY <1>4, <2>2
<1>5. CASE ended[s] \notin {"finished", "cancelled"}
  <2>1. reported[s] = 0 /\ Cardinality(Reporters(s)) = 0
    BY <1>1, <1>3, <1>5 DEF EndInv, OneReport, NothingToReport
  <2> QED
    BY <1>5, <2>1
<1> QED
  BY <1>4, <1>5

\* The end of a session reaches the application once: the slot is emptied by
\* the one request or task that then sends the event (v2.rs:551, 430), so no
\* second one finds the session, and ServerHandle::cancel_v2_session sends none.
THEOREM EndReportedOnce == Spec => []SessionEndReportedOnce
BY EndAlways, ReportedOnceFollows, PTL

-----------------------------------------------------------------------------
(* UploadServer implements TransferSlot                                   *)

Refused == {"refused", "notify", "aborted"}

\* A request goes on to create its session only for files it was granted.
Granted == \A r \in Requests : reqPc[r] = "activate" => accepted[r] # {}

\* What the refinement rests on.
SlotInv == /\ TypeOK /\ PendingHasOneOwner /\ TokenInv /\ FileStatusMatchesUploads
           /\ EndInv /\ Granted

\* The alternatives of PhaseOf exclude each other: whichever holds is the phase.
PhaseTold(r) ==
  /\ r \in Owners => PhaseOf(r) = "offered"
  /\ slot = r => PhaseOf(r) = "running"
  /\ ended[r] = "finished" => PhaseOf(r) = "finished"
  /\ ended[r] \in {"cancelled", "byApp"} => PhaseOf(r) = "cancelled"
  /\ reqPc[r] \in Refused => PhaseOf(r) = "refused"
  /\ r \notin Owners /\ slot # r /\ ended[r] = "no" /\ reqPc[r] \notin Refused
       => PhaseOf(r) = "new"

\* In every state the server reaches.
LEMMA PhaseTable == SlotInv => \A r \in Requests : PhaseTold(r)
<1> SUFFICES ASSUME SlotInv, NEW r \in Requests
             PROVE  PhaseTold(r)
  OBVIOUS
<1>1. /\ r \in Owners => slot = Pending /\ reqPc[r] # "created" /\ reqPc[r] \notin Refused
      /\ slot = r => reqPc[r] = "created" /\ ended[r] = "no"
      /\ ended[r] # "no" => reqPc[r] = "created"
      /\ slot = Pending => slot # r
  BY UploadServerAssumption
  DEF SlotInv, PendingHasOneOwner, Owners, Refused, TokenInv, SessionsCreated, EndInv
<1>2. CASE r \in Owners
  <2>1. slot # r /\ ended[r] = "no" /\ reqPc[r] \notin Refused
    BY <1>1, <1>2
  <2> QED
    BY <1>2, <2>1 DEF PhaseTold, PhaseOf, Refused
<1>3. CASE slot = r
  <2>1. r \notin Owners /\ ended[r] = "no" /\ reqPc[r] \notin Refused
    BY <1>1, <1>3 DEF Refused
  <2> QED
    BY <1>3, <2>1 DEF PhaseTold, PhaseOf, Refused
<1>4. CASE r \notin Owners /\ slot # r /\ ended[r] # "no"
  <2>1. reqPc[r] \notin Refused /\ ended[r] \in {"finished", "cancelled", "byApp"}
    BY <1>1, <1>4 DEF Refused, SlotInv, TypeOK
  <2> QED
    BY <1>4, <2>1 DEF PhaseTold, PhaseOf, Refused
<1>5. CASE r \notin Owners /\ slot # r /\ ended[r] = "no"
  BY <1>5 DEF PhaseTold, PhaseOf, Refused
<1> QED
  BY <1>2, <1>3, <1>4, <1>5

\* And in the one after.
LEMMA PhaseTableAfter == SlotInv' => \A r \in Requests : PhaseTold(r)'
<1>1. SlotInv' => (\A r \in Requests : PhaseTold(r))'
  BY PhaseTable, PTL
<1> QED
  BY <1>1

\* A step that leaves alone what the phase of session r is read from.
SamePhase(r) == /\ (r \in Owners)' <=> r \in Owners
                /\ slot' = r <=> slot = r
                /\ ended'[r] = ended[r]
                /\ reqPc'[r] \in Refused <=> reqPc[r] \in Refused

\* Such a step leaves the session in its phase.
LEMMA PhaseKept ==
  ASSUME SlotInv, SlotInv', NEW r \in Requests, SamePhase(r)
  PROVE  PhaseOf(r)' = PhaseOf(r)
<1>1. ended[r] \in {"no", "finished", "cancelled", "byApp"}
  BY DEF SlotInv, TypeOK
<1> QED
  BY <1>1, PhaseTable, PhaseTableAfter DEF PhaseTold, SamePhase

\* The step of one session in TransferSlot.
LEMMA PhaseMoves ==
  ASSUME SlotInv, SlotInv', NEW r \in Requests, NEW a, NEW b,
         PhaseOf(r) = a, PhaseOf(r)' = b, \A t \in Requests \ {r} : SamePhase(t)
  PROVE  Slot!Move(r, a, b)
<1>1. \A t \in Requests \ {r} : PhaseOf(t)' = PhaseOf(t)
  BY PhaseKept
<1> QED
  BY <1>1 DEF Slot!Move

\* A step that TransferSlot does not see.
LEMMA NothingSeen ==
  ASSUME SlotInv, SlotInv', UNCHANGED files, \A r \in Requests : SamePhase(r)
  PROVE  Slot!ANext
<1>1. \A r \in Requests : PhaseOf(r)' = PhaseOf(r)
  BY PhaseKept
<1> QED
  BY <1>1 DEF Slot!ANext

\* A prepare-upload request claims the slot, creates its session or gives up.
LEMMA PrepareImplements ==
  ASSUME SlotInv, SlotInv', NEW r \in Requests, PrepareStep(r) \/ DropPrepare(r)
  PROVE  Slot!ANext
<1>1. /\ UNCHANGED ended
      /\ \A t \in Requests \ {r} : reqPc'[t] = reqPc[t]
  BY DEF PrepareStep, DropPrepare, ClaimSlot, AnnouncePrepare, TakeDecision,
         CreateSession, RefuseRequest, CleanupPending, NotifyAborted, ReqGoto,
         SlotInv, TypeOK
<1>2. \A t \in Requests \ {r} : /\ (t \in Owners)' <=> t \in Owners
                                /\ reqPc'[t] \in Refused <=> reqPc[t] \in Refused
  BY <1>1 DEF Owners
<1>3. CASE ClaimSlot(r) /\ slot = None
  <2>1. /\ slot' = Pending /\ UNCHANGED files /\ reqPc[r] = "claim" /\ reqPc'[r] = "announce"
    BY <1>3 DEF ClaimSlot, ReqGoto, SlotInv, TypeOK
  <2>2. \A t \in Requests \ {r} : SamePhase(t)
    BY <1>1, <1>2, <1>3, <2>1, UploadServerAssumption DEF SamePhase
  <2>3. Owners = {} /\ \A t \in Requests : slot # t
    BY <1>3, UploadServerAssumption DEF SlotInv, PendingHasOneOwner
  <2>4. PhaseOf(r) = "new"
    BY <2>1, <2>3, PhaseTable DEF PhaseTold, SlotInv, EndInv, Refused
  <2>5. PhaseOf(r)' = "offered"
    BY <2>1, PhaseTableAfter DEF PhaseTold, Owners
  <2>6. ASSUME NEW t \in Requests
        PROVE  PhaseOf(t) \notin {"offered", "running"}
    <3>1. ended[t] \in {"no", "finished", "cancelled", "byApp"}
      BY DEF SlotInv, TypeOK
    <3> QED
      BY <2>3, <3>1, PhaseTable DEF PhaseTold
  <2>7. Slot!Move(r, "new", "offered")
    BY <2>2, <2>4, <2>5, PhaseMoves
  <2> QED
    BY <2>1, <2>6, <2>7 DEF Slot!Offer, Slot!ANext
<1>4. CASE CreateSession(r)
  <2>1. /\ slot' = r /\ reqPc[r] = "activate" /\ accepted[r] # {}
        /\ files' = [f \in Files |-> IF f \in accepted[r] THEN "Pending" ELSE "Absent"]
    BY <1>4 DEF CreateSession, ReqGoto, SlotInv, Granted
  <2>2. r \in Owners /\ slot = Pending
    BY <2>1 DEF Owners, SlotInv, PendingHasOneOwner
  <2>3. \A t \in Requests \ {r} : SamePhase(t)
    BY <1>1, <1>2, <2>1, <2>2, UploadServerAssumption DEF SamePhase
  <2>4. PhaseOf(r) = "offered" /\ PhaseOf(r)' = "running"
    BY <2>1, <2>2, PhaseTable, PhaseTableAfter DEF PhaseTold
  <2>5. Slot!Move(r, "offered", "running")
    BY <2>3, <2>4, PhaseMoves
  <2>6. /\ {f \in Files : files'[f] = "InProgress"} = {}
        /\ {f \in Files : files'[f] = "Pending"} = accepted[r]
        /\ accepted[r] \in SUBSET Files
    BY <2>1 DEF SlotInv, TypeOK
  <2> QED
    BY <2>1, <2>5, <2>6 DEF Slot!Begin, Slot!ANext
<1>5. CASE RefuseRequest(r) \/ CleanupPending(r)
  <2>1. /\ reqPc[r] \in {"clear", "cleanup"} /\ reqPc'[r] \in Refused
        /\ UNCHANGED files
        /\ ClearPendingSession
    BY <1>5 DEF RefuseRequest, CleanupPending, ReqGoto, Refused, SlotInv, TypeOK
  <2>2. r \in Owners /\ slot = Pending
    BY <2>1 DEF Owners, SlotInv, PendingHasOneOwner
  <2>3. \A t \in Requests \ {r} : SamePhase(t)
    BY <1>1, <1>2, <2>1, <2>2, UploadServerAssumption DEF SamePhase, ClearPendingSession
  <2>4. PhaseOf(r) = "offered" /\ PhaseOf(r)' = "refused"
    BY <2>1, <2>2, PhaseTable, PhaseTableAfter DEF PhaseTold
  <2>5. Slot!Move(r, "offered", "refused")
    BY <2>3, <2>4, PhaseMoves
  <2> QED
    BY <2>1, <2>5 DEF Slot!Refuse, Slot!ANext
<1>6. CASE \/ ClaimSlot(r) /\ slot # None
           \/ AnnouncePrepare(r) \/ TakeDecision(r) \/ NotifyAborted(r) \/ DropPrepare(r)
  <2>1. /\ UNCHANGED <<slot, files>>
        /\ (r \in Owners)' <=> r \in Owners
        /\ reqPc'[r] \in Refused <=> reqPc[r] \in Refused
    BY <1>6 DEF ClaimSlot, AnnouncePrepare, TakeDecision, NotifyAborted, DropPrepare,
                ReqGoto, Owners, Refused, SlotInv, TypeOK
  <2>2. \A t \in Requests : SamePhase(t)
    BY <1>1, <1>2, <2>1 DEF SamePhase
  <2> QED
    BY <2>1, <2>2, NothingSeen
<1> QED
  BY <1>3, <1>4, <1>5, <1>6 DEF PrepareStep

\* finalize_file settles a file of the running transfer, or nothing.
LEMMA FinalizeImplements ==
  ASSUME SlotInv, SlotInv', NEW u \in Uploads, FinalizeFile(u)
  PROVE  Slot!ANext
<1> DEFINE new == IF saved[u] THEN "Finished" ELSE "Failed"
<1>1. /\ UNCHANGED reqPc /\ upPc[u] \in Unfinished
      /\ Finalize(u, upFile[u][1], upFile[u][2])
  BY DEF FinalizeFile, UpGoto, Unfinished, reqVars
<1>2. \A t \in Requests : /\ (t \in Owners)' <=> t \in Owners
                          /\ reqPc'[t] \in Refused <=> reqPc[t] \in Refused
  BY <1>1 DEF Owners
<1>3. CASE slot # upFile[u][1]
  <2>1. UNCHANGED <<slot, files, ended>>
    BY <1>1, <1>3 DEF Finalize
  <2> QED
    BY <1>2, <2>1, NothingSeen DEF SamePhase
<1>4. CASE slot = upFile[u][1]
  <2>1. PICK f \in Files : f = upFile[u][2] /\ slot \in Requests /\ files[f] = "InProgress"
    BY <1>1, <1>4, UnfinishedInProgress DEF SlotInv
  <2>2. PICK s \in Requests : s = slot
    BY <2>1
  <2> DEFINE fs == [files EXCEPT ![f] = new]
  <2>3. \/ IsComplete(fs) /\ slot' = None /\ files' = NoFiles
                          /\ ended' = [ended EXCEPT ![s] = "finished"]
        \/ ~IsComplete(fs) /\ files' = fs /\ UNCHANGED <<slot, ended>>
    BY <1>1, <1>4, <2>1, <2>2 DEF Finalize
  <2>4. /\ fs[f] \notin {"Pending", "InProgress"}
        /\ \A g \in Files \ {f} : fs[g] = files[g]
        /\ \A g \in Files : files[g] \in FileStatus
    BY DEF SlotInv, TypeOK
  <2> HIDE DEF fs
  <2>5. CASE IsComplete(fs) /\ slot' = None /\ files' = NoFiles
                            /\ ended' = [ended EXCEPT ![s] = "finished"]
    <3>1. \A g \in Files \ {f} : files[g] \notin {"Pending", "InProgress"}
      BY <2>4, <2>5 DEF IsComplete
    <3>2. /\ {g \in Files : files[g] = "InProgress"} = {f}
          /\ {g \in Files : files[g] = "Pending"} = {}
      BY <2>1, <3>1
    <3>3. /\ {g \in Files : files'[g] = "InProgress"} = {}
          /\ {g \in Files : files'[g] = "Pending"} = {}
      BY <2>5 DEF NoFiles
    <3>4. ended'[s] = "finished" /\ \A t \in Requests \ {s} : ended'[t] = ended[t]
      BY <2>5 DEF SlotInv, TypeOK
    <3>5. \A t \in Requests \ {s} : SamePhase(t)
      BY <1>2, <2>2, <2>5, <3>4, UploadServerAssumption DEF SamePhase
    <3>6. PhaseOf(s) = "running" /\ PhaseOf(s)' = "finished"
      BY <2>2, <3>4, PhaseTable, PhaseTableAfter DEF PhaseTold
    <3>7. Slot!Move(s, "running", "finished")
      BY <3>5, <3>6, PhaseMoves
    <3> QED
      BY <3>2, <3>3, <3>7 DEF Slot!SettleLast, Slot!ANext
  <2>6. CASE ~IsComplete(fs) /\ files' = fs /\ UNCHANGED <<slot, ended>>
    <3>1. PICK g \in Files : fs[g] \notin {"Absent", "Finished", "Failed"}
      BY <2>6 DEF IsComplete
    <3>2. g # f /\ files[g] \in {"Pending", "InProgress"}
      BY <2>1, <2>4, <3>1 DEF FileStatus, fs
    <3>3. /\ {h \in Files : files'[h] = "InProgress"} = {h \in Files : files[h] = "InProgress"} \ {f}
          /\ {h \in Files : files'[h] = "Pending"} = {h \in Files : files[h] = "Pending"}
      BY <2>1, <2>4, <2>6
    <3>4. /\ f \in {h \in Files : files[h] = "InProgress"}
          /\ {h \in Files : files[h] = "InProgress"} \cup {h \in Files : files[h] = "Pending"} # {f}
      BY <2>1, <3>2
    <3>5. \A t \in Requests : PhaseOf(t)' = PhaseOf(t)
      BY <1>2, <2>6, PhaseKept DEF SamePhase
    <3> QED
      BY <3>3, <3>4, <3>5 DEF Slot!Settle, Slot!ANext
  <2> QED
    BY <2>3, <2>5, <2>6
<1> QED
  BY <1>3, <1>4

\* The upload that is let in takes its file.
LEMMA ValidateImplements ==
  ASSUME SlotInv, SlotInv', NEW u \in Uploads, NEW s \in Requests, NEW f \in Files,
         NEW token \in Requests \X Files, NEW ip \in Ips,
         ValidateUpload(u, s, f, token, ip)
  PROVE  Slot!ANext
<1>1. \A t \in Requests : SamePhase(t)
  BY DEF ValidateUpload, reqVars, SamePhase, Owners
<1>2. CASE UploadAllowed(s, f, token, ip)
  <2>1. files[f] = "Pending" /\ files' = [files EXCEPT ![f] = "InProgress"]
    BY <1>2 DEF ValidateUpload, UploadAllowed
  <2>2. files'[f] = "InProgress" /\ \A g \in Files \ {f} : files'[g] = files[g]
    BY <2>1 DEF SlotInv, TypeOK
  <2>3. /\ f \in {g \in Files : files[g] = "Pending"}
        /\ {g \in Files : files'[g] = "Pending"} = {g \in Files : files[g] = "Pending"} \ {f}
        /\ {g \in Files : files'[g] = "InProgress"}
             = {g \in Files : files[g] = "InProgress"} \cup {f}
    BY <2>1, <2>2
  <2>4. \A t \in Requests : PhaseOf(t)' = PhaseOf(t)
    BY <1>1, PhaseKept
  <2> QED
    BY <2>3, <2>4 DEF Slot!Take, Slot!ANext
<1>3. CASE ~UploadAllowed(s, f, token, ip)
  <2>1. UNCHANGED files
    BY <1>3 DEF ValidateUpload
  <2> QED
    BY <1>1, <2>1, NothingSeen
<1> QED
  BY <1>2, <1>3

\* The sender or the application cancels the session in the slot.
LEMMA CancelImplements ==
  ASSUME SlotInv, SlotInv', NEW s \in Requests, slot = s, slot' = None, files' = NoFiles,
         UNCHANGED reqPc, NEW how \in {"cancelled", "byApp"}, ended' = [ended EXCEPT ![s] = how]
  PROVE  Slot!ANext
<1>1. ended'[s] = how /\ \A t \in Requests \ {s} : ended'[t] = ended[t]
  BY DEF SlotInv, TypeOK
<1>2. \A t \in Requests \ {s} : SamePhase(t)
  BY <1>1, UploadServerAssumption DEF SamePhase, Owners
<1>3. PhaseOf(s) = "running" /\ PhaseOf(s)' = "cancelled"
  BY <1>1, PhaseTable, PhaseTableAfter DEF PhaseTold
<1>4. Slot!Move(s, "running", "cancelled")
  BY <1>2, <1>3, PhaseMoves
<1>5. /\ {g \in Files : files'[g] = "InProgress"} = {}
      /\ {g \in Files : files'[g] = "Pending"} = {}
  BY DEF NoFiles
<1> QED
  BY <1>4, <1>5 DEF Slot!CancelRunning, Slot!ANext

\* Every step of the server is a step of TransferSlot or a stutter.
LEMMA NextImplements == SlotInv /\ SlotInv' /\ [Next]_vars => Slot!ANext
<1> SUFFICES ASSUME SlotInv, SlotInv', [Next]_vars
             PROVE  Slot!ANext
  OBVIOUS
<1>1. ASSUME NEW r \in Requests, NEW ip \in Ips, NEW pin \in Pins \cup {NoPin},
             NEW offer \in SUBSET Files, PrepareArrive(r, ip, pin, offer)
      PROVE  Slot!ANext
  <2>1. UNCHANGED <<slot, files, ended>>
    BY <1>1 DEF PrepareArrive
  <2>2. \A t \in Requests : SamePhase(t)
    BY <1>1, <2>1 DEF PrepareArrive, ReqGoto, SamePhase, Owners, Refused, SlotInv, TypeOK
  <2> QED
    BY <2>1, <2>2, NothingSeen
<1>2. ASSUME NEW s \in Requests, AppCancelSession(s)
      PROVE  Slot!ANext
  BY <1>2, CancelImplements DEF AppCancelSession, reqVars
<1>3. ASSUME NEW c \in Cancels, NEW s \in Requests, NEW ip \in Ips,
             CancelSession(c, s, ip), slot = s, from[s] = ip
      PROVE  Slot!ANext
  BY <1>3, CancelImplements DEF CancelSession, reqVars
<1>4. ASSUME \/ \E r \in Requests : AppAnswersDecision(r)
             \/ \E u \in Uploads : \/ UploadStep(u) /\ ~FinalizeFile(u)
                                   \/ DropUpload(u) \/ AppAnswersTarget(u)
             \/ \E c \in Cancels :
                  \/ \E s \in Requests, ip \in Ips :
                       CancelSession(c, s, ip) /\ ~(slot = s /\ from[s] = ip)
                  \/ ReportCancel(c) \/ DropCancel(c)
             \/ AppReceive \/ AppClose \/ UNCHANGED vars
      PROVE  Slot!ANext
  <2>1. UNCHANGED <<slot, files, ended, reqPc>>
    BY <1>4 DEF AppAnswersDecision, AppDecide, UploadStep, AnnounceUpload, TakeTarget,
                SaveBody, ReportFinished, DropUpload, AppAnswersTarget, AppAnswerTarget,
                CancelSession, ReportCancel, DropCancel, AppReceive, AppClose, vars, reqVars
  <2>2. \A t \in Requests : SamePhase(t)
    BY <2>1 DEF SamePhase, Owners
  <2> QED
    BY <2>1, <2>2, NothingSeen
<1> QED
  BY <1>1, <1>2, <1>3, <1>4, PrepareImplements, FinalizeImplements, ValidateImplements
  DEF Next

\* TakeDecision is the only way to go on, and looks at what was granted.
LEMMA GrantedInductive == TypeOK /\ Granted /\ [Next]_vars => Granted'
<1> SUFFICES ASSUME TypeOK, Granted, [Next]_vars
             PROVE  Granted'
  OBVIOUS
<1>1. ASSUME NEW r \in Requests,
             \/ \E ip \in Ips, pin \in Pins \cup {NoPin}, offer \in SUBSET Files :
                  PrepareArrive(r, ip, pin, offer)
             \/ PrepareStep(r) \/ DropPrepare(r)
      PROVE  Granted'
  BY <1>1 DEF PrepareArrive, PrepareStep, ClaimSlot, AnnouncePrepare, TakeDecision,
              CreateSession, RefuseRequest, CleanupPending, NotifyAborted, DropPrepare,
              ReqGoto, Granted, TypeOK
<1>2. ASSUME NEW r \in Requests, AppAnswersDecision(r)
      PROVE  Granted'
  BY <1>2 DEF AppAnswersDecision, AppDecide, Granted, TypeOK
<1>3. ASSUME \/ \E r \in Requests : AppCancelSession(r)
             \/ \E u \in Uploads :
                  \/ \E s \in Requests, f \in Files, token \in Requests \X Files, ip \in Ips :
                       ValidateUpload(u, s, f, token, ip)
                  \/ UploadStep(u) \/ DropUpload(u) \/ AppAnswersTarget(u)
             \/ \E c \in Cancels :
                  \/ \E s \in Requests, ip \in Ips : CancelSession(c, s, ip)
                  \/ ReportCancel(c) \/ DropCancel(c)
             \/ AppReceive \/ AppClose \/ UNCHANGED vars
      PROVE  Granted'
  BY <1>3 DEF AppCancelSession, ValidateUpload, UploadStep, AnnounceUpload, TakeTarget,
              SaveBody, FinalizeFile, ReportFinished, DropUpload, AppAnswersTarget,
              AppAnswerTarget, CancelSession, ReportCancel, DropCancel, AppReceive,
              AppClose, vars, reqVars, Granted
<1> QED
  BY <1>1, <1>2, <1>3 DEF Next

\* What the refinement rests on holds always.
LEMMA SlotInvAlways == Spec => []SlotInv
<1>1. Init => Granted
  BY DEF Init, Granted
<1>2. SlotInv <=> /\ TypeOK /\ PendingHasOneOwner /\ TokenInv /\ FileStatusMatchesUploads
                  /\ EndInv /\ Granted
  BY DEF SlotInv
<1> QED
  BY <1>1, <1>2, GrantedInductive, TypeCorrect, OneOwner, TokenAlways, FilesTellUploads,
     EndAlways, PTL DEF Spec

\* No request is an abstract session at the start.
LEMMA InitImplements == Init => Slot!AInit
<1> SUFFICES ASSUME Init
             PROVE  Slot!AInit
  OBVIOUS
<1>1. \A r \in Requests : PhaseOf(r) = "new"
  BY UploadServerAssumption DEF Init, PhaseOf, Owners
<1>2. \A f \in Files : files[f] = "Absent"
  BY DEF Init, NoFiles
<1> QED
  BY <1>1, <1>2 DEF Slot!AInit

\* The server, with its requests, tasks, locks, drops and channels, only takes
\* the steps TransferSlot promises: one offer or transfer at a time, each
\* accepted file taken at most once, an end when the last file is settled or
\* one side cancels (v2.rs:165, 313, 410, 551).
THEOREM Implements == Spec => ImplementsTransferSlot
<1>1. SlotInv /\ SlotInv' /\ [Next]_vars => Slot!ANext
  BY NextImplements
<1> QED
  BY <1>1, InitImplements, SlotInvAlways, PTL DEF Spec, ImplementsTransferSlot, Slot!ASpec
=============================================================================
