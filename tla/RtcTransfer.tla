----------------------------- MODULE RtcTransfer -----------------------------
(***************************************************************************)
(* A transfer over a WebRTC data channel, from its opening to the end      *)
(* (core/src/webrtc/webrtc.rs, with the controllers of api/webrtc.rs).     *)
(*                                                                         *)
(* Two peers run a task each over a reliable, ordered channel.  They swap  *)
(* nonces and tokens, may each ask the other for a PIN, agree on files and *)
(* then one sends.  The channel knows text and binary messages; a string   *)
(* may go as binary chunks that the next text, "0", ends: one message here.*)
(* Each peer's function waits for its task or for the loss of the          *)
(* connection; in the second case the task goes on by itself.              *)
(* A receiver of this code never offers to pair, so the branch of the      *)
(* sender that answers it is left out.                                     *)
(***************************************************************************)
EXTENDS Identity, Naturals, Sequences, FiniteSets

CONSTANTS
  Files,      \* the files of the list the sender offers
  Size,       \* declared size of a file, in chunks
  MaxChunks,  \* bound: chunks the sending application gives for a file
  Pins,       \* what users type
  Configs,    \* the PIN a side may be configured with
  EmptyPin,   \* the PIN ""
  NoPin,      \* no PIN is configured
  MaxTries,   \* max_tries of the PIN configurations
  None        \* no file

ASSUME RtcAssumption ==
  /\ Size \in Nat /\ MaxChunks \in Nat /\ MaxTries \in Nat
  /\ NoPin \notin Pins \cup {EmptyPin} /\ EmptyPin \notin Pins /\ None \notin Files
  /\ Configs \subseteq Pins \cup {NoPin, EmptyPin}

Sides == {"sender", "receiver"}
Other(p) == IF p = "sender" THEN "receiver" ELSE "sender"

VARIABLES
  pin,       \* PIN each side asks the other for
  expected,  \* key each side expects the other to sign with
  open,      \* is the connection up
  inbox,     \* messages on their way to each side
  pc,        \* control point of each task
  ended,     \* how the function of each side returned
  why,       \* why a task failed
  tries,     \* pin_try of each side
  shown,     \* remote_pin of each side: the last PIN it was shown
  selection, \* files of file_tokens, the receiver's choice
  cur,       \* file the sender is in
  sent,      \* chunks sent of each file
  begun,     \* files the sending application gave to its controller
  file,      \* file_state of the receiver
  held,      \* the text that ended the receiver's last file
  got,       \* chunks handed to the application, of each file
  stream,    \* the application's stream of each file
  results,   \* what the application reported, not taken yet (capacity 1)
  judged,    \* files the application reported on
  deserted,  \* has the receiving application dropped its controller
  answers,   \* history: statuses sent, with the file the report was about
  oversized  \* history: files dropped for having too many bytes

pins == <<pin, expected, tries, shown>>
sending == <<cur, sent, begun>>
receiving == <<selection, file, held, got, stream, oversized>>
app == <<results, judged, deserted, answers>>
vars == <<open, inbox, pc, ended, why, pins, sending, receiving, app>>

Init ==
  /\ pin \in [Sides -> Configs]
  /\ expected \in [Sides -> Sides]
  /\ open = TRUE
  /\ inbox = [p \in Sides |-> <<>>]
  /\ pc = [p \in Sides |-> IF p = "sender" THEN "start" ELSE "nonce"]
  /\ ended = [p \in Sides |-> "running"]
  /\ why = [p \in Sides |-> "none"]
  /\ tries = [p \in Sides |-> 0]
  /\ shown = [p \in Sides |-> EmptyPin]
  /\ selection = {}
  /\ cur = None
  /\ sent = [f \in Files |-> 0]
  /\ begun = {}
  /\ file = None
  /\ held = <<>>
  /\ got = [f \in Files |-> <<>>]
  /\ stream = [f \in Files |-> "none"]
  /\ results = <<>>
  /\ judged = {}
  /\ deserted = FALSE
  /\ answers = {}
  /\ oversized = {}

-----------------------------------------------------------------------------
(* Messages                                                                *)

Nonce         == [type |-> "nonce"]
Token(t)      == [type |-> "token", token |-> t]
TokenReply(r, t) == [type |-> "tokenReply", result |-> r, token |-> t]
Invalid       == [type |-> "tokenReply", result |-> "invalid"]
Pin(g)        == [type |-> "pin", pin |-> g]
\* The verdict on a PIN: a text from the receiver, a string in chunks from
\* the sender, whose last one also carries the file list.
PinReply(p, r) == [type |-> IF p = "sender" THEN "pinString" ELSE "pinText", result |-> r]
FileTokens(S) == [type |-> "fileTokens", declined |-> FALSE, files |-> S]
Declined      == [type |-> "fileTokens", declined |-> TRUE, files |-> {}]
Header(f)     == [type |-> "header", file |-> f]
Chunk(f, i)   == [type |-> "chunk", file |-> f, nr |-> i]
Delimiter     == [type |-> "delimiter"]
Status(f, ok) == [type |-> "status", file |-> f, success |-> ok]

\* A message sent after the connection went down goes nowhere.
Put(box, p, msgs) == IF open THEN [box EXCEPT ![Other(p)] = @ \o msgs] ELSE box

Send(p, msgs) == inbox' = Put(inbox, p, msgs)
Reply(p, msgs) == inbox' = Put([inbox EXCEPT ![p] = Tail(@)], p, msgs)
Consume(p) == Reply(p, <<>>)

Goto(p, at) == pc' = [pc EXCEPT ![p] = at] /\ UNCHANGED <<ended, why>>

\* The task returns an error, and its function with it if it still waits for
\* the task; nothing is closed.
Fail(p, reason) ==
  /\ pc' = [pc EXCEPT ![p] = "over"]
  /\ why' = [why EXCEPT ![p] = reason]
  /\ ended' = IF ended[p] = "running" THEN [ended EXCEPT ![p] = "error"] ELSE ended

\* What the task at each control point reads next.
Expects(p) ==
  CASE pc[p] = "nonce"     -> "nonce"
    [] pc[p] = "token"     -> IF p = "sender" THEN "tokenReply" ELSE "token"
    [] pc[p] = "guess"     -> "pin"
    [] pc[p] = "pinSent"   -> IF p = "sender" THEN "pinText" ELSE "pinString"
    [] pc[p] = "list"      -> "pinString"
    [] pc[p] = "selection" -> "fileTokens"
    [] OTHER               -> "nothing"

Arrived(p) == Expects(p) # "nothing" /\ inbox[p] # <<>>
Reads(p, at) == pc[p] = at /\ Arrived(p) /\ Head(inbox[p]).type = Expects(p)

\* Any other message does not parse.
Misread(p) ==
  /\ Arrived(p)
  /\ Head(inbox[p]).type # Expects(p)
  /\ Consume(p)
  /\ Fail(p, "outOfStep")
  /\ UNCHANGED <<open, pins, sending, receiving, app>>

-----------------------------------------------------------------------------
(* Nonces and tokens                                                       *)

\* sender_nonce || receiver_nonce; a side's name is its key pair as well, and
\* stands for its nonce.
FinalNonce == <<"sender", "receiver">>
LocalToken(p) == TokenNonce(p, FinalNonce)

\* A side that expects no key is content with every token, as one is that
\* expects the right key.
TokenOk(p, token) == VerifyTokenNonce(expected[p], token, FinalNonce) = "ok"

SendNonce ==
  /\ pc["sender"] = "start"
  /\ Send("sender", <<Nonce>>)
  /\ Goto("sender", "nonce")
  /\ UNCHANGED <<open, pins, sending, receiving, app>>

ReceiveNonce(p) ==
  /\ Reads(p, "nonce")
  /\ Reply(p, <<IF p = "sender" THEN Token(LocalToken(p)) ELSE Nonce>>)
  /\ Goto(p, "token")
  /\ UNCHANGED <<open, pins, sending, receiving, app>>

\* Mutant: one try more.
CheckPinOneMore(p, guess, n, first) ==
  IF guess = pin[p]
    THEN /\ Goto(p, IF p = "sender" THEN "offer" ELSE "list")
         /\ Reply(p, first \o IF p = "sender" THEN <<>> ELSE <<PinReply(p, "ok")>>)
  ELSE IF n > MaxTries
    THEN /\ Fail(p, "tooMany")
         /\ Reply(p, first \o <<PinReply(p, "tooMany")>>)
  ELSE /\ Goto(p, "guess")
       /\ Reply(p, first \o IF n > 0 \/ p = "sender"
                              THEN <<PinReply(p, "required")>> ELSE <<>>)

\* Mutant: the receiver sends an initial notice as well.
CheckPinWithNotice(p, guess, n, first) ==
  IF guess = pin[p]
    THEN /\ Goto(p, IF p = "sender" THEN "offer" ELSE "list")
         /\ Reply(p, first \o IF p = "sender" THEN <<>> ELSE <<PinReply(p, "ok")>>)
  ELSE IF n >= MaxTries
    THEN /\ Fail(p, "tooMany")
         /\ Reply(p, first \o <<PinReply(p, "tooMany")>>)
  ELSE /\ Goto(p, "guess")
       /\ Reply(p, first \o <<PinReply(p, "required")>>)

\* One turn of the loop of verify_pin after n tries, on answering the message
\* just read with "first".  Only the sender tells that it wants a PIN: the
\* receiver has said so with its token.
CheckPin(p, guess, n, first) ==
  IF guess = pin[p]
    THEN /\ Goto(p, IF p = "sender" THEN "offer" ELSE "list")
         /\ Reply(p, first \o IF p = "sender" THEN <<>> ELSE <<PinReply(p, "ok")>>)
  ELSE IF n >= MaxTries
    THEN /\ Fail(p, "tooMany")
         /\ Reply(p, first \o <<PinReply(p, "tooMany")>>)
  ELSE /\ Goto(p, "guess")
       /\ Reply(p, first \o IF n > 0 \/ p = "sender"
                              THEN <<PinReply(p, "required")>> ELSE <<>>)

\* The side p may have a PIN of its own to ask for.
OwnPin(p, first) ==
  IF pin[p] = NoPin
    THEN Goto(p, IF p = "sender" THEN "offer" ELSE "list") /\ Reply(p, first)
    ELSE CheckPin(p, shown[p], tries[p], first)

ReceiveToken ==
  /\ Reads("receiver", "token")
  /\ IF ~TokenOk("receiver", Head(inbox["receiver"]).token)
       THEN Reply("receiver", <<Invalid>>) /\ Fail("receiver", "key")
       ELSE OwnPin("receiver",
                   <<TokenReply(IF pin["receiver"] = NoPin THEN "ok" ELSE "pinRequired",
                                LocalToken("receiver"))>>)
  /\ UNCHANGED <<open, pins, sending, receiving, app>>

ReceiveTokenReply ==
  /\ Reads("sender", "token")
  /\ LET m == Head(inbox["sender"])
     IN  IF m = Invalid \/ ~TokenOk("sender", m.token)
           THEN Consume("sender") /\ Fail("sender", "key")
         ELSE IF m.result = "pinRequired"
           THEN Consume("sender") /\ Goto("sender", "prompt")
         ELSE OwnPin("sender", <<>>)
  /\ UNCHANGED <<open, pins, sending, receiving, app>>

-----------------------------------------------------------------------------
(* PINs                                                                    *)

\* handle_pin asked the application, which calls send_pin.
SendPin(p) ==
  /\ pc[p] = "prompt"
  /\ \E g \in Pins : Send(p, <<Pin(g)>>)
  /\ Goto(p, "pinSent")
  /\ UNCHANGED <<open, pins, sending, receiving, app>>

ReceivePin(p) ==
  /\ Reads(p, "guess")
  /\ shown' = [shown EXCEPT ![p] = Head(inbox[p]).pin]
  /\ tries' = [tries EXCEPT ![p] = @ + 1]
  /\ CheckPin(p, shown'[p], tries'[p], <<>>)
  /\ UNCHANGED <<open, pin, expected, sending, receiving, app>>

\* The verdict on the PIN that was sent; "ok" has the sender go on to its own
\* PIN and the receiver to the file list.
ReceivePinReply(p) ==
  /\ Reads(p, "pinSent")
  /\ LET r == Head(inbox[p]).result
     IN  CASE r = "required" -> Consume(p) /\ Goto(p, "prompt")
           [] r = "tooMany"  -> Consume(p) /\ Fail(p, "tooMany")
           [] r = "ok"       -> IF p = "sender" THEN OwnPin(p, <<>>)
                                ELSE Consume(p) /\ Goto(p, "select")
  /\ UNCHANGED <<open, pins, sending, receiving, app>>

-----------------------------------------------------------------------------
(* The file list and the selection                                         *)

SendFileList ==
  /\ pc["sender"] = "offer"
  /\ Send("sender", <<PinReply("sender", "ok")>>)
  /\ Goto("sender", "selection")
  /\ UNCHANGED <<open, pins, sending, receiving, app>>

\* The receiver has asked for no PIN or is content with it, and waits for the
\* list or for the sender's wish for a PIN.
ReceiveFileList ==
  /\ Reads("receiver", "list")
  /\ Consume("receiver")
  /\ LET r == Head(inbox["receiver"]).result
     IN  CASE r = "required" -> Goto("receiver", "prompt")
           [] r = "tooMany"  -> Fail("receiver", "outOfStep")
           [] r = "ok"       -> Goto("receiver", "select")
  /\ UNCHANGED <<open, pins, sending, receiving, app>>

\* The receiving application calls send_selection.
SendSelection ==
  /\ pc["receiver"] = "select"
  /\ selection' \in SUBSET Files
  /\ Send("receiver", <<FileTokens(selection')>>)
  /\ Goto("receiver", "receiving")
  /\ UNCHANGED <<open, pins, sending, file, held, got, stream, oversized, app>>

\* It calls decline, or drops its controller.
Decline ==
  /\ pc["receiver"] = "select"
  /\ \E msgs \in {<<Declined>>, <<>>} : Send("receiver", msgs)
  /\ Goto("receiver", "closing")
  /\ UNCHANGED <<open, pins, sending, receiving, app>>

ReceiveSelection ==
  /\ Reads("sender", "selection")
  /\ Consume("sender")
  /\ Goto("sender", IF Head(inbox["sender"]).declined THEN "closing" ELSE "sending")
  /\ UNCHANGED <<open, pins, sending, receiving, app>>

-----------------------------------------------------------------------------
(* Sending                                                                 *)

\* The application calls send_file; a file that was not selected is answered
\* with an error.
SendFile(f) ==
  /\ pc["sender"] = "sending"
  /\ f \notin begun
  /\ begun' = begun \cup {f}
  /\ IF f \in selection
       THEN /\ Send("sender", <<Header(f)>>)
            /\ Goto("sender", "chunks")
            /\ cur' = f
       ELSE UNCHANGED <<inbox, pc, ended, why, cur>>
  /\ UNCHANGED <<open, pins, sent, receiving, app>>

SendChunk ==
  /\ pc["sender"] = "chunks"
  /\ sent[cur] < MaxChunks
  /\ sent' = [sent EXCEPT ![cur] = @ + 1]
  /\ Send("sender", <<Chunk(cur, sent'[cur])>>)
  /\ UNCHANGED <<open, pc, ended, why, pins, cur, begun, receiving, app>>

\* The application ends the stream of the file; nothing is sent for it.
EndFile ==
  /\ pc["sender"] = "chunks"
  /\ Goto("sender", "sending")
  /\ cur' = None
  /\ UNCHANGED <<open, inbox, pins, sent, begun, receiving, app>>

\* The application drops its controller.
SendDelimiter ==
  /\ pc["sender"] = "sending"
  /\ Send("sender", <<Delimiter>>)
  /\ Goto("sender", "last")
  /\ UNCHANGED <<open, pins, sending, receiving, app>>

\* Any one message will do.
ReceiveLast ==
  /\ pc["sender"] = "last"
  /\ inbox["sender"] # <<>>
  /\ Consume("sender")
  /\ Goto("sender", "closing")
  /\ UNCHANGED <<open, pins, sending, receiving, app>>

-----------------------------------------------------------------------------
(* Receiving                                                               *)

\* A text ends the file: the application's stream ends, and the task waits
\* for what the application says about it.
EndOfFile ==
  /\ pc["receiver"] = "receiving" /\ inbox["receiver"] # <<>> /\ file # None
  /\ Head(inbox["receiver"]).type \in {"header", "delimiter"}
  /\ Consume("receiver")
  /\ held' = <<Head(inbox["receiver"])>>
  /\ stream' = [stream EXCEPT ![file] = "closed"]
  /\ Goto("receiver", "result")
  /\ UNCHANGED <<open, pins, sending, selection, file, got, oversized, app>>

\* The header msg of a selected file opens a stream for the application.
OpenFile(msg) ==
  IF msg.file \in selection
    THEN file' = msg.file /\ stream' = [stream EXCEPT ![msg.file] = "open"]
    ELSE file' = None /\ UNCHANGED stream

\* What the task takes for the last file: the next report, or an error when
\* none can come any more.
Verdict == IF results # <<>> THEN Head(results) ELSE [file |-> file, success |-> FALSE]

\* Mutant: the status names the file that comes next.
SendStatusOfNext ==
  /\ pc["receiver"] = "result" /\ (results # <<>> \/ deserted)
  /\ LET msg == held[1]
         r   == Verdict
         f   == IF msg.type = "header" THEN msg.file ELSE file
     IN  /\ answers' = answers \cup {[file |-> f, success |-> r.success, about |-> r.file]}
         /\ Send("receiver", <<Status(f, r.success)>>)
         /\ IF msg.type = "delimiter"
              THEN Goto("receiver", "closing") /\ file' = None /\ UNCHANGED stream
              ELSE Goto("receiver", "receiving") /\ OpenFile(msg)
  /\ results' = <<>>
  /\ held' = <<>>
  /\ UNCHANGED <<open, pins, sending, selection, got, oversized, judged, deserted>>

\* Mutant: the delimiter ends the loop before the status is sent.
SendStatusNotLast ==
  /\ pc["receiver"] = "result" /\ (results # <<>> \/ deserted)
  /\ LET msg == held[1]
         r   == Verdict
     IN  /\ answers' = answers \cup {[file |-> file, success |-> r.success, about |-> r.file]}
         /\ IF msg.type = "delimiter"
              THEN UNCHANGED inbox /\ Goto("receiver", "over")
                   /\ file' = None /\ UNCHANGED stream
              ELSE Send("receiver", <<Status(file, r.success)>>)
                   /\ Goto("receiver", "receiving") /\ OpenFile(msg)
  /\ results' = <<>>
  /\ held' = <<>>
  /\ UNCHANGED <<open, pins, sending, selection, got, oversized, judged, deserted>>

\* The next report of the application is sent as the status of the last file;
\* whose report it is, nobody asks.  Then the text is looked at.
SendStatus ==
  /\ pc["receiver"] = "result" /\ (results # <<>> \/ deserted)
  /\ LET msg == held[1]
         r   == Verdict
     IN  /\ answers' = answers \cup {[file |-> file, success |-> r.success, about |-> r.file]}
         /\ Send("receiver", <<Status(file, r.success)>>)
         /\ IF msg.type = "delimiter"
              THEN Goto("receiver", "closing") /\ file' = None /\ UNCHANGED stream
              ELSE Goto("receiver", "receiving") /\ OpenFile(msg)
  /\ results' = <<>>
  /\ held' = <<>>
  /\ UNCHANGED <<open, pins, sending, selection, got, oversized, judged, deserted>>

\* A text while no file is open is a header, or does not parse.
ReceiveHeader ==
  /\ pc["receiver"] = "receiving" /\ inbox["receiver"] # <<>> /\ file = None
  /\ LET msg == Head(inbox["receiver"])
     IN  \/ msg.type = "header" /\ Goto("receiver", "receiving") /\ OpenFile(msg)
         \/ /\ msg.type = "delimiter" /\ Fail("receiver", "delimiter")
            /\ UNCHANGED <<file, stream>>
  /\ Consume("receiver")
  /\ UNCHANGED <<open, pins, sending, selection, held, got, oversized, app>>

\* A chunk too many drops the file: its stream ends, and what follows has no
\* header.  A chunk for a stream the application dropped ends the task.
ReceiveChunk ==
  /\ pc["receiver"] = "receiving" /\ inbox["receiver"] # <<>>
  /\ Head(inbox["receiver"]).type = "chunk"
  /\ LET msg == Head(inbox["receiver"])
     IN  \/ file = None /\ UNCHANGED <<pc, ended, why, file, got, stream, oversized>>
         \/ /\ file # None /\ Len(got[file]) < Size
            /\ \/ /\ got' = [got EXCEPT ![file] = Append(@, <<msg.file, msg.nr>>)]
                  /\ UNCHANGED <<pc, ended, why>>
               \/ Fail("receiver", "dropped") /\ UNCHANGED got
            /\ UNCHANGED <<file, stream, oversized>>
         \/ /\ file # None /\ Len(got[file]) >= Size
            /\ oversized' = oversized \cup {file}
            /\ stream' = [stream EXCEPT ![file] = "closed"]
            /\ file' = None
            /\ UNCHANGED <<pc, ended, why, got>>
  /\ Consume("receiver")
  /\ UNCHANGED <<open, pins, sending, selection, held, app>>

\* The application calls send_file_status, once for a file: with success when
\* the stream ended with all bytes, with an error at any time.
Report(f) ==
  /\ stream[f] # "none" /\ f \notin judged
  /\ results = <<>> /\ ~deserted /\ pc["receiver"] # "over"
  /\ \E ok \in BOOLEAN :
       /\ ok => stream[f] = "closed" /\ Len(got[f]) = Size /\ f \notin oversized
       /\ results' = <<[file |-> f, success |-> ok]>>
  /\ judged' = judged \cup {f}
  /\ UNCHANGED <<open, inbox, pc, ended, why, pins, sending, receiving, deserted, answers>>

\* The receiving application drops its controller and reports no more.
Desert ==
  /\ pc["receiver"] \in {"receiving", "result"} /\ ~deserted
  /\ deserted' = TRUE
  /\ UNCHANGED <<open, inbox, pc, ended, why, pins, sending, receiving, results, judged, answers>>

-----------------------------------------------------------------------------
(* The end                                                                 *)

Prefixes(s) == {SubSeq(s, 1, n) : n \in 0..Len(s)}

\* The task returned: the function reports Finished and closes the
\* connection, which may cut off what is still on its way.
Close(p) ==
  /\ pc[p] = "closing"
  /\ pc' = [pc EXCEPT ![p] = "over"]
  /\ ended' = IF ended[p] = "running" THEN [ended EXCEPT ![p] = "finished"] ELSE ended
  /\ open' = FALSE
  /\ \E rest \in Prefixes(inbox[Other(p)]) :
       inbox' = [inbox EXCEPT ![p] = <<>>, ![Other(p)] = rest]
  /\ UNCHANGED <<why, pins, sending, receiving, app>>

\* The network loses the connection.
Break ==
  /\ open
  /\ open' = FALSE
  /\ \E rest \in [Sides -> UNION {Prefixes(inbox[p]) : p \in Sides}] :
       /\ \A p \in Sides : rest[p] \in Prefixes(inbox[p])
       /\ inbox' = rest
  /\ UNCHANGED <<pc, ended, why, pins, sending, receiving, app>>

\* done_rx fires: Finished, while the task is left to itself.
Disconnected(p) ==
  /\ ~open /\ ended[p] = "running"
  /\ ended' = [ended EXCEPT ![p] = "finished"]
  /\ UNCHANGED <<open, inbox, pc, why, pins, sending, receiving, app>>

\* A send fails when the connection is gone; during a file that is reported
\* and the loop goes on (EndFile).
SendFails(p) ==
  /\ ~open
  /\ \/ pc[p] \in {"start", "prompt", "offer", "select", "sending", "result"}
     \/ pc[p] \in {"nonce", "token", "guess"} /\ inbox[p] # <<>>
  /\ Fail(p, "lost")
  /\ UNCHANGED <<open, inbox, pins, sending, receiving, app>>

Task(p) ==
  \/ p = "sender" /\ (SendNonce \/ ReceiveTokenReply \/ SendFileList \/ ReceiveSelection
                      \/ EndFile \/ ReceiveLast)
  \/ p = "receiver" /\ (ReceiveToken \/ ReceiveFileList \/ EndOfFile \/ SendStatus
                        \/ ReceiveHeader \/ ReceiveChunk)
  \/ Misread(p) \/ ReceiveNonce(p) \/ ReceivePin(p) \/ ReceivePinReply(p)
  \/ Close(p) \/ Disconnected(p) \/ SendFails(p)

\* The applications, and the people who use them.
Decide == SendSelection \/ Decline

Next == \/ \E p \in Sides : Task(p) \/ SendPin(p)
        \/ Decide
        \/ \E f \in Files : SendFile(f) \/ Report(f)
        \/ SendChunk \/ SendDelimiter \/ Desert
        \/ Break

Spec == Init /\ [][Next]_vars

FairSpec ==
  /\ Spec
  /\ \A p \in Sides : WF_vars(Task(p)) /\ WF_vars(SendPin(p))
  /\ WF_vars(Decide) /\ WF_vars(SendDelimiter)
  /\ \A f \in Files : WF_vars(Report(f))
-----------------------------------------------------------------------------
(* Properties                                                              *)

Verdicts == {"ok", "required", "tooMany"}
Messages ==
  {Nonce, Token(LocalToken("sender")), Invalid, Delimiter, Declined}
    \cup {TokenReply(r, LocalToken("receiver")) : r \in {"ok", "pinRequired"}}
    \cup {Pin(g) : g \in Pins}
    \cup {PinReply(p, r) : p \in Sides, r \in Verdicts}
    \cup {FileTokens(S) : S \in SUBSET Files}
    \cup {Header(f) : f \in Files}
    \cup {Chunk(f, i) : f \in Files, i \in 1..MaxChunks}
    \cup {Status(f, ok) : f \in Files, ok \in BOOLEAN}

\* Every variable has its type.
TypeOK ==
  /\ pin \in [Sides -> Configs]
  /\ expected \in [Sides -> Sides]
  /\ open \in BOOLEAN
  /\ inbox \in [Sides -> Seq(Messages)]
  /\ pc \in [Sides -> {"start", "nonce", "token", "guess", "prompt", "pinSent", "offer",
                       "list", "selection", "select", "sending", "chunks", "last",
                       "receiving", "result", "closing", "over"}]
  /\ ended \in [Sides -> {"running", "finished", "error"}]
  /\ why \in [Sides -> {"none", "key", "outOfStep", "tooMany", "delimiter", "lost", "dropped"}]
  /\ tries \in [Sides -> 0..MaxTries]
  /\ shown \in [Sides -> Pins \cup {EmptyPin}]
  /\ selection \in SUBSET Files
  /\ cur \in Files \cup {None}
  /\ sent \in [Files -> 0..MaxChunks]
  /\ begun \in SUBSET Files
  /\ file \in Files \cup {None}
  /\ held \in {<<>>} \cup {<<m>> : m \in Messages}
  /\ got \in [Files -> Seq(Files \X (1..MaxChunks))]
  /\ stream \in [Files -> {"none", "open", "closed"}]
  /\ results \in {<<>>} \cup {<<[file |-> f, success |-> ok]>> : f \in Files, ok \in BOOLEAN}
  /\ judged \in SUBSET Files
  /\ deserted \in BOOLEAN
  /\ answers \in SUBSET [file : Files, success : BOOLEAN, about : Files]
  /\ oversized \in SUBSET Files

\* Nobody learns anything of the other's files, and no file is sent, before
\* each side saw a token of the key it expects and every PIN that is configured
\* on either side was shown within its tries (verify_token_nonce, verify_pin and
\* the order of the steps on both sides).
FilesOnlyAfterPins ==
  \/ selection # {}
  \/ pc["receiver"] \in {"select", "receiving", "result"}
  \/ \E i \in 1..Len(inbox["receiver"]) :
       inbox["receiver"][i] = PinReply("sender", "ok")
  => \A p \in Sides : /\ expected[p] = Other(p)
                       /\ pin[p] # NoPin => shown[p] = pin[p] /\ tries[p] <= MaxTries

\* A peer meets a message it does not expect only when the receiver's PIN is
\* empty (the receiver is content at once, the sender still sends one), when
\* the sender allows no try at all, or, for the delimiter, when no file is
\* open: none was sent, or one had too many bytes.
PeersInStep ==
  /\ \A p \in Sides : why[p] = "outOfStep" => pin["receiver"] = EmptyPin \/ MaxTries = 0
  /\ why["receiver"] = "delimiter" => begun \cap selection = {} \/ oversized # {}

\* A status that the receiver sends tells what the application reported about
\* that very file, and success means that its chunks arrived, all of them, in
\* order and without a chunk of another file; unless a file with too many bytes
\* left its report behind for the next one.
StatusOfItsFile ==
  oversized = {} =>
    \A a \in answers : /\ a.about = a.file
                       /\ a.success => got[a.file] = [i \in 1..Size |-> <<a.file, i>>]

\* The function of a side returns, whatever the applications and the network do,
\* but for one case: the other side's function returned an error and the
\* connection is open ever after.  Then this one waits for it for ever, though
\* the status that the other reported says "Connection is closed."
\* (webrtc.rs:151, 163): send_offer and accept_offer return the error without
\* a close.
EndsUnlessLeftOpen ==
  \A p \in Sides : <>[](ended[p] # "running" \/ (ended[Other(p)] = "error" /\ open))
=============================================================================
