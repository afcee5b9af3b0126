-------------------------- MODULE RtcTransferProofs --------------------------
(***************************************************************************)
(* Proofs about RtcTransfer, for every set of files and PINs, every number *)
(* of tries and every size.                                                *)
(***************************************************************************)
EXTENDS RtcTransfer, SequenceTheorems, TLAPS

-----------------------------------------------------------------------------
(* What a side knows of the other by way of its control point and of the   *)
(* messages on their way to it.                                            *)

\* Side p saw a token of the key it expects, and its PIN if it has one.
Verified(p) == expected[p] = Other(p)
Shown(p) == pin[p] # NoPin => shown[p] = pin[p]

\* On their way to p.
Coming(p) == {inbox[p][i] : i \in 1..Len(inbox[p])}

SenderKnows ==
  /\ pc["sender"] \in {"guess", "prompt", "pinSent", "offer", "selection", "sending", "chunks", "last"}
       => Verified("sender")
  /\ pc["sender"] \in {"offer", "selection", "sending", "chunks", "last"} => Shown("sender")
  /\ pc["sender"] \in {"guess", "offer", "selection", "sending", "chunks", "last"}
       => Verified("receiver") /\ Shown("receiver")
  /\ \A m \in Coming("sender") :
       /\ m.type = "tokenReply" /\ m # Invalid =>
            Verified("receiver") /\ (m.result = "ok" => Shown("receiver"))
       /\ m.type = "pinText" /\ m.result = "ok" => Verified("receiver") /\ Shown("receiver")

ReceiverKnows ==
  /\ pc["receiver"] \in {"guess", "list", "prompt", "pinSent", "select", "receiving", "result"}
       => Verified("receiver")
  /\ pc["receiver"] \in {"list", "prompt", "pinSent", "select", "receiving", "result"}
       => Shown("receiver")
  /\ pc["receiver"] \in {"select", "receiving", "result"} \/ selection # {}
       => \A p \in Sides : Verified(p) /\ Shown(p)
  /\ \A m \in Coming("receiver") : m.type = "pinString" =>
       /\ Verified("sender") /\ Verified("receiver") /\ Shown("receiver")
       /\ m.result = "ok" => Shown("sender")

\* A side that waits for a guess was not shown its PIN, and will count the guess;
\* before it asks it has counted none.
GuessInv ==
  \A p \in Sides :
    /\ pc[p] = "guess" => ~Shown(p) /\ tries[p] < MaxTries
    /\ pc[p] \in {"start", "nonce", "token"} => tries[p] = 0 /\ shown[p] = EmptyPin
    /\ p = "sender" /\ pc[p] \in {"prompt", "pinSent"} => tries[p] = 0

-----------------------------------------------------------------------------
(* The two sides in step                                                   *)

\* Side p has died, or waits at one of these points and has nothing to read.
Waiting(p, at) == pc[p] = "over" \/ (pc[p] \in at /\ inbox[p] = <<>>)

\* What came to side p is the one message it expects.
FindsExpected(p) ==
  Arrived(p) => Len(inbox[p]) = 1 /\ Head(inbox[p]).type = Expects(p)

\* Who goes on next finds the other where its next message is expected.
SenderTurns ==
  /\ pc["sender"] \in {"start", "prompt", "offer"} => inbox["sender"] = <<>>
  /\ pc["sender"] = "start" => Waiting("receiver", {"nonce"})
  /\ pc["sender"] = "prompt" => Waiting("receiver", {"guess"})
  /\ pc["sender"] = "offer" => Waiting("receiver", {"list", "pinSent"})
  /\ Arrived("sender") =>
       LET m == Head(inbox["sender"])
       IN  /\ pc["sender"] = "nonce" => Waiting("receiver", {"token"})
           /\ pc["sender"] = "token" /\ m # Invalid =>
                Waiting("receiver", IF m.result = "ok" THEN {"list"} ELSE {"guess"})
           /\ pc["sender"] = "pinSent" /\ m.result # "tooMany" =>
                Waiting("receiver", IF m.result = "ok" THEN {"list"} ELSE {"guess"})
           /\ pc["sender"] = "guess" => Waiting("receiver", {"pinSent"})
           /\ pc["sender"] = "selection" => Waiting("receiver", {"receiving", "closing"})

ReceiverTurns ==
  /\ pc["receiver"] \in {"prompt", "select"} => inbox["receiver"] = <<>>
  /\ pc["receiver"] = "prompt" => Waiting("sender", {"guess"})
  /\ pc["receiver"] = "select" => Waiting("sender", {"selection"})
  /\ Arrived("receiver") =>
       LET m == Head(inbox["receiver"])
       IN  /\ pc["receiver"] = "nonce" => Waiting("sender", {"nonce"})
           /\ pc["receiver"] = "token" => Waiting("sender", {"token"})
           /\ pc["receiver"] = "guess" => Waiting("sender", {"pinSent"})
           /\ pc["receiver"] = "list" => m.result # "tooMany"
           /\ pc["receiver"] \in {"list", "pinSent"} /\ m.result # "tooMany" =>
                Waiting("sender", IF m.result = "ok" THEN {"selection"} ELSE {"guess"})

Agreed ==
  /\ \A p \in Sides : FindsExpected(p) /\ why[p] # "outOfStep"
  /\ SenderTurns
  /\ ReceiverTurns

\* Unless the receiver's PIN is empty or no try is allowed.
InStep == pin["receiver"] # EmptyPin /\ MaxTries > 0 => Agreed

-----------------------------------------------------------------------------
(* From the offer on                                                       *)

Data == {"header", "chunk", "delimiter"}

\* The offer of the files, and the control points before it and after it.
Offer == PinReply("sender", "ok")
BeforeOffer == {"start", "nonce", "token", "guess", "prompt", "pinSent", "offer"}
AfterSelection == {"receiving", "result", "closing", "over"}

\* Nothing comes behind the offer.
OfferLast ==
  \A i \in 1..Len(inbox["receiver"]) : inbox["receiver"][i] = Offer => i = Len(inbox["receiver"])

\* The files of the selection are the sender's business only once the receiver
\* has read the offer and has answered.
OfferTurns ==
  /\ Offer \in Coming("receiver") => pc["sender"] \in {"selection", "over"} /\ begun = {}
  /\ pc["receiver"] = "select" =>
       inbox["receiver"] = <<>> /\ pc["sender"] \in {"selection", "over"} /\ begun = {}
  /\ \A m \in Coming("sender") : m.type = "fileTokens" =>
       /\ pc["receiver"] \in AfterSelection /\ pc["sender"] \notin BeforeOffer
       /\ Offer \notin Coming("receiver")
  /\ pc["sender"] \in {"sending", "chunks", "last"} => pc["receiver"] \in AfterSelection
  /\ pc["receiver"] \in {"receiving", "result"} =>
       /\ pc["sender"] \in {"selection", "sending", "chunks", "last", "closing", "over"}
       /\ \A m \in Coming("receiver") : m.type \in Data
       /\ pc["sender"] = "selection" => inbox["receiver"] = <<>> /\ begun = {} /\ pc["receiver"] # "result"
  /\ pc["sender"] \in BeforeOffer \cup {"selection"} => begun = {}

OfferInv == OfferLast /\ OfferTurns

-----------------------------------------------------------------------------
(* The stream of files, as long as no file had too many bytes              *)

\* The sender's files: it begins each once.
SenderFiles ==
  /\ pc["sender"] = "chunks" => cur \in begun \cap selection
  /\ \A f \in Files \ begun : sent[f] = 0

\* A file's stream is opened once, for a file that was selected and begun, and
\* the next one only after the application's report; its chunks are those of
\* the file, in order.
Streams ==
  /\ \A f \in Files : /\ got[f] = [i \in 1..Len(got[f]) |-> <<f, i>>]
                      /\ stream[f] = "none" => got[f] = <<>> /\ f \notin judged
                      /\ stream[f] # "none" => f \in begun \cap selection
                      /\ stream[f] # "none" /\ f # file => f \in judged \/ deserted
  /\ file # None => stream[file] # "none"
  /\ pc["receiver"] = "receiving" /\ file # None => stream[file] = "open"
  /\ pc["receiver"] = "result" => file # None /\ stream[file] = "closed"
  /\ held # <<>> => pc["receiver"] \in {"result", "over"}

\* What was reported, and what was answered.
Reported ==
  /\ results # <<>> =>
       /\ file # None /\ Head(results).file = file /\ file \in judged
       /\ Head(results).success => stream[file] = "closed" /\ Len(got[file]) = Size
  /\ \A a \in answers : /\ a.about = a.file /\ stream[a.file] = "closed"
                        /\ a.success => Len(got[a.file]) = Size

\* The message before the first one in the receiver's inbox, as far as it
\* matters: the last one of the file that is open, or the text that ended it.
Before ==
  IF pc["receiver"] = "result" THEN held[1]
  ELSE IF file = None THEN Nonce
  ELSE IF got[file] = <<>> THEN Header(file)
  ELSE Chunk(file, Len(got[file]))

\* A chunk follows the one before it or the header of its file, and nothing
\* follows the delimiter.
Follows(m, previous) ==
  /\ m.type = "chunk" => previous = IF m.nr = 1 THEN Header(m.file) ELSE Chunk(m.file, m.nr - 1)
  /\ previous # Delimiter

\* The sequence s continues what ends with b, and ends with this; no header is
\* in it twice.
Ordered(s, b) == \A i \in 1..Len(s) : Follows(s[i], IF i = 1 THEN b ELSE s[i - 1])
LastOf(s, b) == IF s = <<>> THEN b ELSE s[Len(s)]
Distinct(s) == \A i, j \in 1..Len(s) : s[i].type = "header" /\ s[i] = s[j] => i = j

\* The last message the sender sent, in a file.
LastSent == IF sent[cur] = 0 THEN Header(cur) ELSE Chunk(cur, sent[cur])

StreamOrder ==
  pc["receiver"] \in {"receiving", "result"} =>
    /\ Ordered(inbox["receiver"], Before) /\ Distinct(inbox["receiver"])
    /\ \A f \in Files :
         Header(f) \in Coming("receiver") \/ held = <<Header(f)>> =>
           f \in begun \cap selection /\ stream[f] = "none"
    /\ \A m \in Coming("receiver") : m.type = "header" => held # <<m>>
    /\ open /\ pc["sender"] = "chunks" => LastOf(inbox["receiver"], Before) = LastSent
    /\ Delimiter \in Coming("receiver") \/ held = <<Delimiter>> =>
         pc["sender"] \in {"last", "closing", "over"}

\* No file is open at the start: what comes first then is the header of the
\* first file, or the delimiter when there is none.
StartOfFiles ==
  pc["receiver"] = "receiving" /\ file = None =>
    \/ begun \cap selection = {} /\ (inbox["receiver"] = <<>> \/ pc["sender"] \in {"last", "closing", "over"})
    \/ ~open /\ inbox["receiver"] = <<>>
    \/ inbox["receiver"] # <<>> /\ Head(inbox["receiver"]).type = "header"

NoDelimiterError ==
  why["receiver"] = "delimiter" =>
    begun \cap selection = {} /\ pc["receiver"] = "over" /\ pc["sender"] \in {"last", "closing", "over"}

FilesInOrder == Streams /\ Reported /\ StreamOrder /\ StartOfFiles /\ NoDelimiterError

FilesInv == oversized = {} => FilesInOrder

-----------------------------------------------------------------------------
(* Messages and inboxes                                                    *)

\* What is known of a message by its type.
LEMMA MessageKinds ==
  ASSUME NEW m \in Messages
  PROVE  /\ m.type = "token" => m.token = LocalToken("sender")
         /\ m.type = "tokenReply" /\ m # Invalid =>
              m.token = LocalToken("receiver") /\ m.result \in {"ok", "pinRequired"}
         /\ m.type = "pin" => m.pin \in Pins
         /\ m.type \in {"pinText", "pinString"} => m.result \in Verdicts
         /\ m.type = "fileTokens" => m.declined \in BOOLEAN
         /\ m.type = "header" => m.file \in Files /\ m = Header(m.file)
         /\ m.type = "chunk" => m.file \in Files /\ m.nr \in 1..MaxChunks /\ m = Chunk(m.file, m.nr)
         /\ m.type = "delimiter" => m = Delimiter
<1> USE DEF Nonce, Token, Invalid, Delimiter, Declined, TokenReply, Pin, PinReply, FileTokens,
            Header, Chunk, Status
<1>1. CASE m \in {Nonce, Token(LocalToken("sender")), Invalid, Delimiter, Declined}
  <2>1. CASE m = Nonce
    BY <2>1
  <2>2. CASE m = Token(LocalToken("sender"))
    BY <2>2
  <2>3. CASE m = Invalid
    BY <2>3
  <2>4. CASE m = Delimiter
    BY <2>4
  <2>5. CASE m = Declined
    <3>1. m.type = "fileTokens" /\ m.declined = TRUE
      BY <2>5
    <3> QED
      BY <3>1
  <2> QED
    BY <1>1, <2>1, <2>2, <2>3, <2>4, <2>5
<1>2. CASE m \in {TokenReply(r, LocalToken("receiver")) : r \in {"ok", "pinRequired"}}
  BY <1>2
<1>3. CASE m \in {Pin(g) : g \in Pins}
  <2>1. PICK g \in Pins : m = Pin(g)
    BY <1>3
  <2> QED
    BY <2>1
<1>4. CASE m \in {PinReply(p, r) : p \in Sides, r \in Verdicts}
  <2>1. PICK p \in Sides, r \in Verdicts : m = PinReply(p, r)
    BY <1>4
  <2> QED
    BY <2>1
<1>5. CASE m \in {FileTokens(S) : S \in SUBSET Files}
  <2>1. PICK S \in SUBSET Files : m = FileTokens(S)
    BY <1>5
  <2>2. m.type = "fileTokens" /\ m.declined = FALSE
    BY <2>1
  <2> QED
    BY <2>2
<1>6. CASE m \in {Header(f) : f \in Files}
  BY <1>6
<1>7. CASE m \in {Chunk(f, i) : f \in Files, i \in 1..MaxChunks}
  <2>1. PICK f \in Files, i \in 1..MaxChunks : m = Chunk(f, i)
    BY <1>7
  <2> QED
    BY <2>1
<1>8. CASE m \in {Status(f, ok) : f \in Files, ok \in BOOLEAN}
  BY <1>8
<1> QED
  BY <1>1, <1>2, <1>3, <1>4, <1>5, <1>6, <1>7, <1>8 DEF Messages

\* The messages that are sent.
LEMMA MessagesMade ==
  /\ {Nonce, Token(LocalToken("sender")), Invalid, Delimiter, Declined} \subseteq Messages
  /\ \A r \in {"ok", "pinRequired"} : TokenReply(r, LocalToken("receiver")) \in Messages
  /\ \A g \in Pins : Pin(g) \in Messages
  /\ \A p \in Sides, r \in Verdicts : PinReply(p, r) \in Messages
  /\ \A S \in SUBSET Files : FileTokens(S) \in Messages
  /\ \A f \in Files : Header(f) \in Messages
  /\ \A f \in Files, i \in 1..MaxChunks : Chunk(f, i) \in Messages
  /\ \A f \in Files, ok \in BOOLEAN : Status(f, ok) \in Messages
BY DEF Messages

\* Two messages, one after the other.
LEMMA PairOfMessages ==
  ASSUME NEW m \in Messages, NEW n \in Messages
  PROVE  <<m>> \o <<n>> = <<m, n>>
<1> DEFINE joined == <<m>> \o <<n>>
           pair == <<m, n>>
<1>1. joined \in Seq(Messages) /\ pair \in Seq(Messages) /\ Len(joined) = 2 /\ Len(pair) = 2
  OBVIOUS
<1>2. joined[1] = pair[1] /\ joined[2] = pair[2] /\ 1..2 = {1, 2}
  OBVIOUS
<1> HIDE DEF joined, pair
<1>3. joined = pair
  BY <1>1, <1>2, SeqEqual
<1> QED
  BY <1>3 DEF joined, pair

\* What sending makes of the inboxes.
LEMMA PutBox ==
  ASSUME NEW box \in [Sides -> Seq(Messages)], NEW p \in Sides, NEW msgs \in Seq(Messages)
  PROVE  /\ Put(box, p, msgs) \in [Sides -> Seq(Messages)]
         /\ Put(box, p, msgs)[p] = box[p]
         /\ Put(box, p, msgs)[Other(p)] = IF open THEN box[Other(p)] \o msgs ELSE box[Other(p)]
BY DEF Put, Other, Sides

\* The inboxes after a side has taken its first message.
LEMMA TakeBox ==
  ASSUME NEW box \in [Sides -> Seq(Messages)], NEW p \in Sides, box[p] # <<>>
  PROVE  [box EXCEPT ![p] = Tail(@)] \in [Sides -> Seq(Messages)]
BY DEF Sides

-----------------------------------------------------------------------------
(* Types                                                                   *)

BoxesOK == inbox \in [Sides -> Seq(Messages)]

\* The inboxes after a side has sent messages.
LEMMA SendBox ==
  ASSUME BoxesOK, NEW p \in Sides, NEW msgs \in Seq(Messages), Send(p, msgs)
  PROVE  /\ BoxesOK'
         /\ inbox'[p] = inbox[p]
         /\ inbox'[Other(p)] = IF open THEN inbox[Other(p)] \o msgs ELSE inbox[Other(p)]
BY PutBox DEF BoxesOK, Send

\* The inboxes after a side has answered its first message.
LEMMA ReplyBox ==
  ASSUME BoxesOK, NEW p \in Sides, NEW msgs \in Seq(Messages), inbox[p] # <<>>, Reply(p, msgs)
  PROVE  /\ BoxesOK'
         /\ inbox'[p] = Tail(inbox[p])
         /\ inbox'[Other(p)] = IF open THEN inbox[Other(p)] \o msgs ELSE inbox[Other(p)]
<1> DEFINE box == [inbox EXCEPT ![p] = Tail(@)]
<1>1. box \in [Sides -> Seq(Messages)]
  BY TakeBox DEF BoxesOK
<1>2. box[p] = Tail(inbox[p]) /\ box[Other(p)] = inbox[Other(p)]
  BY DEF BoxesOK, Other, Sides
<1>3. inbox' = Put(box, p, msgs)
  BY DEF Reply
<1> HIDE DEF box
<1>4. /\ Put(box, p, msgs) \in [Sides -> Seq(Messages)]
      /\ Put(box, p, msgs)[p] = box[p]
      /\ Put(box, p, msgs)[Other(p)] = IF open THEN box[Other(p)] \o msgs ELSE box[Other(p)]
  BY <1>1, PutBox
<1> QED
  BY <1>2, <1>3, <1>4 DEF BoxesOK

\* The inboxes after a side has read its first message and sent nothing.
LEMMA ConsumeBox ==
  ASSUME BoxesOK, NEW p \in Sides, inbox[p] # <<>>, Consume(p)
  PROVE  /\ BoxesOK'
         /\ inbox'[p] = Tail(inbox[p])
         /\ inbox'[Other(p)] = inbox[Other(p)]
<1>1. <<>> \in Seq(Messages) /\ inbox[Other(p)] \in Seq(Messages)
  BY DEF BoxesOK, Other, Sides
<1>2. inbox[Other(p)] \o <<>> = inbox[Other(p)]
  BY <1>1
<1> QED
  BY <1>1, <1>2, ReplyBox DEF Consume

-----------------------------------------------------------------------------
(* What the steps of the handshake do to control points and inboxes        *)

\* Side p answers the head of its inbox, or sends of its own accord, and goes on.
Answers(p, msgs, at) ==
  /\ inbox[p] # <<>> /\ BoxesOK'
  /\ inbox'[p] = Tail(inbox[p])
  /\ inbox'[Other(p)] = IF open THEN inbox[Other(p)] \o msgs ELSE inbox[Other(p)]
  /\ pc'[p] = at /\ pc'[Other(p)] = pc[Other(p)] /\ pc' = [pc EXCEPT ![p] = at]

Sends(p, msgs, at) ==
  /\ BoxesOK'
  /\ inbox'[p] = inbox[p]
  /\ inbox'[Other(p)] = IF open THEN inbox[Other(p)] \o msgs ELSE inbox[Other(p)]
  /\ pc'[p] = at /\ pc'[Other(p)] = pc[Other(p)] /\ pc' = [pc EXCEPT ![p] = at]

FailsWith(p, reason) ==
  why'[p] = reason /\ why'[Other(p)] = why[Other(p)] /\ why' = [why EXCEPT ![p] = reason]

\* What going on to a control point and failing change, and what they leave alone.
LEMMA Moves ==
  ASSUME TypeOK, NEW p \in Sides, NEW at
  PROVE  /\ Goto(p, at) => /\ pc'[p] = at /\ pc'[Other(p)] = pc[Other(p)]
                           /\ pc' = [pc EXCEPT ![p] = at] /\ UNCHANGED why
         /\ Fail(p, at) => /\ pc'[p] = "over" /\ pc'[Other(p)] = pc[Other(p)]
                           /\ pc' = [pc EXCEPT ![p] = "over"] /\ FailsWith(p, at)
BY DEF TypeOK, Goto, Fail, FailsWith, Other, Sides

\* A side that answers and goes on.
LEMMA AnswerGoto ==
  ASSUME TypeOK, NEW p \in Sides, NEW msgs \in Seq(Messages), NEW at,
         inbox[p] # <<>>, Reply(p, msgs), Goto(p, at)
  PROVE  Answers(p, msgs, at) /\ UNCHANGED why
<1>1. BoxesOK
  BY DEF TypeOK, BoxesOK
<1> QED
  BY <1>1, ReplyBox, Moves DEF Answers

\* A side that answers and fails.
LEMMA AnswerFail ==
  ASSUME TypeOK, NEW p \in Sides, NEW msgs \in Seq(Messages), NEW reason,
         inbox[p] # <<>>, Reply(p, msgs), Fail(p, reason)
  PROVE  Answers(p, msgs, "over") /\ FailsWith(p, reason)
<1>1. BoxesOK
  BY DEF TypeOK, BoxesOK
<1> QED
  BY <1>1, ReplyBox, Moves DEF Answers

\* A side that sends and goes on.
LEMMA SendGoto ==
  ASSUME TypeOK, NEW p \in Sides, NEW msgs \in Seq(Messages), NEW at, Send(p, msgs), Goto(p, at)
  PROVE  Sends(p, msgs, at) /\ UNCHANGED why
<1>1. BoxesOK
  BY DEF TypeOK, BoxesOK
<1> QED
  BY <1>1, SendBox, Moves DEF Sends

\* Where a side goes on once it is content.
Content(p) == IF p = "sender" THEN "offer" ELSE "list"

\* One turn of verify_pin.
LEMMA CheckPinAnswers ==
  ASSUME TypeOK, NEW p \in Sides, NEW guess, NEW n \in Nat, NEW first \in Seq(Messages),
         inbox[p] # <<>>, CheckPin(p, guess, n, first)
  PROVE  \/ /\ guess = pin[p] /\ UNCHANGED why
            /\ Answers(p, first \o IF p = "sender" THEN <<>> ELSE <<PinReply(p, "ok")>>, Content(p))
         \/ /\ guess # pin[p] /\ n >= MaxTries /\ FailsWith(p, "tooMany")
            /\ Answers(p, first \o <<PinReply(p, "tooMany")>>, "over")
         \/ /\ guess # pin[p] /\ n < MaxTries /\ UNCHANGED why
            /\ Answers(p, first \o IF n > 0 \/ p = "sender" THEN <<PinReply(p, "required")>> ELSE <<>>,
                       "guess")
<1>1. \A r \in Verdicts : <<PinReply(p, r)>> \in Seq(Messages)
  BY MessagesMade
<1>2. <<>> \in Seq(Messages) /\ \A s \in Seq(Messages) : first \o s \in Seq(Messages)
  OBVIOUS
<1>3. CASE guess = pin[p]
  <2>1. PICK msgs \in Seq(Messages) :
          msgs = first \o IF p = "sender" THEN <<>> ELSE <<PinReply(p, "ok")>>
    BY <1>1, <1>2 DEF Verdicts
  <2>2. Reply(p, msgs) /\ Goto(p, Content(p))
    BY <1>3, <2>1 DEF CheckPin, Content
  <2>3. Answers(p, msgs, Content(p)) /\ UNCHANGED why
    BY <2>2, AnswerGoto
  <2> QED
    BY <1>3, <2>1, <2>3
<1>4. CASE guess # pin[p] /\ n >= MaxTries
  <2>1. PICK msgs \in Seq(Messages) : msgs = first \o <<PinReply(p, "tooMany")>>
    BY <1>1, <1>2 DEF Verdicts
  <2>2. Reply(p, msgs) /\ Fail(p, "tooMany")
    BY <1>4, <2>1 DEF CheckPin
  <2>3. Answers(p, msgs, "over") /\ FailsWith(p, "tooMany")
    BY <2>2, AnswerFail
  <2> QED
    BY <1>4, <2>1, <2>3
<1>5. CASE guess # pin[p] /\ ~(n >= MaxTries)
  <2>1. PICK msgs \in Seq(Messages) :
          msgs = first \o IF n > 0 \/ p = "sender" THEN <<PinReply(p, "required")>> ELSE <<>>
    BY <1>1, <1>2 DEF Verdicts
  <2>2. Reply(p, msgs) /\ Goto(p, "guess")
    BY <1>5, <2>1 DEF CheckPin
  <2>3. Answers(p, msgs, "guess") /\ UNCHANGED why
    BY <2>2, AnswerGoto
  <2>4. n < MaxTries
    BY <1>5, RtcAssumption
  <2> QED
    BY <1>5, <2>1, <2>3, <2>4
<1> QED
  BY <1>3, <1>4, <1>5

\* The sender's own PIN.
LEMMA SenderOwnPin ==
  ASSUME TypeOK, inbox["sender"] # <<>>, OwnPin("sender", <<>>)
  PROVE  \/ Shown("sender") /\ Answers("sender", <<>>, "offer") /\ UNCHANGED why
         \/ /\ ~Shown("sender") /\ tries["sender"] >= MaxTries /\ FailsWith("sender", "tooMany")
            /\ Answers("sender", <<PinReply("sender", "tooMany")>>, "over")
         \/ /\ ~Shown("sender") /\ tries["sender"] < MaxTries /\ UNCHANGED why
            /\ Answers("sender", <<PinReply("sender", "required")>>, "guess")
<1>1. "sender" \in Sides /\ Content("sender") = "offer" /\ <<>> \in Seq(Messages)
  BY DEF Sides, Content
<1>2. \A r \in Verdicts : <<PinReply("sender", r)>> \in Seq(Messages)
  BY <1>1, MessagesMade
<1>3. CASE pin["sender"] = NoPin
  BY <1>1, <1>3, AnswerGoto DEF OwnPin, Shown
<1>4. CASE pin["sender"] # NoPin
  <2>1. CheckPin("sender", shown["sender"], tries["sender"], <<>>)
    BY <1>4 DEF OwnPin
  <2>2. tries["sender"] \in Nat
    BY <1>1, RtcAssumption DEF TypeOK
  <2>3. <<>> \o <<>> = <<>> /\ \A r \in Verdicts : <<>> \o <<PinReply("sender", r)>> = <<PinReply("sender", r)>>
    OBVIOUS
  <2>0. "tooMany" \in Verdicts /\ "required" \in Verdicts
    BY DEF Verdicts
  <2>4. PICK n \in Nat : n = tries["sender"]
    BY <2>2
  <2>5. PICK guess : guess = shown["sender"]
    OBVIOUS
  <2>6. CheckPin("sender", guess, n, <<>>)
    BY <2>1, <2>4, <2>5
  <2>7. \/ /\ guess = pin["sender"] /\ UNCHANGED why
           /\ Answers("sender", <<>> \o IF "sender" = "sender" THEN <<>> ELSE <<PinReply("sender", "ok")>>, Content("sender"))
        \/ /\ guess # pin["sender"] /\ n >= MaxTries /\ FailsWith("sender", "tooMany")
           /\ Answers("sender", <<>> \o <<PinReply("sender", "tooMany")>>, "over")
        \/ /\ guess # pin["sender"] /\ n < MaxTries /\ UNCHANGED why
           /\ Answers("sender", <<>> \o IF n > 0 \/ "sender" = "sender" THEN <<PinReply("sender", "required")>> ELSE <<>>,
                      "guess")
    BY <1>1, <2>6, CheckPinAnswers
  <2> QED
    BY <1>1, <1>4, <2>0, <2>3, <2>4, <2>5, <2>7 DEF Shown
<1> QED
  BY <1>3, <1>4

\* The receiver's own PIN, on answering the sender's token with its own.
LEMMA ReceiverOwnPin ==
  ASSUME TypeOK, inbox["receiver"] # <<>>, NEW t \in Messages, OwnPin("receiver", <<t>>)
  PROVE  \/ pin["receiver"] = NoPin /\ Answers("receiver", <<t>>, "list") /\ UNCHANGED why
         \/ /\ pin["receiver"] # NoPin /\ Shown("receiver") /\ UNCHANGED why
            /\ Answers("receiver", <<t, PinReply("receiver", "ok")>>, "list")
         \/ /\ ~Shown("receiver") /\ tries["receiver"] >= MaxTries /\ FailsWith("receiver", "tooMany")
            /\ Answers("receiver", <<t, PinReply("receiver", "tooMany")>>, "over")
         \/ /\ ~Shown("receiver") /\ tries["receiver"] < MaxTries /\ UNCHANGED why
            /\ \/ tries["receiver"] > 0 /\ Answers("receiver", <<t, PinReply("receiver", "required")>>, "guess")
               \/ tries["receiver"] = 0 /\ Answers("receiver", <<t>>, "guess")
<1>1. "receiver" \in Sides /\ Content("receiver") = "list" /\ <<t>> \in Seq(Messages)
  BY DEF Sides, Content
<1>2. CASE pin["receiver"] = NoPin
  <2>1. Reply("receiver", <<t>>) /\ Goto("receiver", "list")
    BY <1>2 DEF OwnPin
  <2> QED
    BY <1>1, <1>2, <2>1, AnswerGoto
<1>3. CASE pin["receiver"] # NoPin
  <2>1. CheckPin("receiver", shown["receiver"], tries["receiver"], <<t>>)
    BY <1>3 DEF OwnPin
  <2>2. tries["receiver"] \in Nat
    BY <1>1, RtcAssumption DEF TypeOK
  <2>3. <<t>> \o <<>> = <<t>> /\ \A m \in Messages : <<t>> \o <<m>> = <<t, m>>
    BY PairOfMessages
  <2>0. \A r \in {"ok", "tooMany", "required"} : PinReply("receiver", r) \in Messages
    BY <1>1, MessagesMade DEF Verdicts
  <2>4. PICK n \in Nat : n = tries["receiver"]
    BY <2>2
  <2>5. PICK guess : guess = shown["receiver"]
    OBVIOUS
  <2>6. CheckPin("receiver", guess, n, <<t>>)
    BY <2>1, <2>4, <2>5
  <2>7. \/ /\ guess = pin["receiver"] /\ UNCHANGED why
           /\ Answers("receiver", <<t>> \o IF "receiver" = "sender" THEN <<>> ELSE <<PinReply("receiver", "ok")>>, Content("receiver"))
        \/ /\ guess # pin["receiver"] /\ n >= MaxTries /\ FailsWith("receiver", "tooMany")
           /\ Answers("receiver", <<t>> \o <<PinReply("receiver", "tooMany")>>, "over")
        \/ /\ guess # pin["receiver"] /\ n < MaxTries /\ UNCHANGED why
           /\ Answers("receiver", <<t>> \o IF n > 0 \/ "receiver" = "sender" THEN <<PinReply("receiver", "required")>> ELSE <<>>,
                      "guess")
    BY <1>1, <2>6, CheckPinAnswers
  <2>8. CASE guess = pin["receiver"]
    BY <1>1, <1>3, <2>0, <2>3, <2>4, <2>5, <2>7, <2>8 DEF Shown
  <2>9. CASE guess # pin["receiver"] /\ n >= MaxTries
    <3>1. ~(n < MaxTries)
      BY <2>9, RtcAssumption
    <3> QED
      BY <1>3, <2>0, <2>3, <2>4, <2>5, <2>7, <2>9, <3>1 DEF Shown
  <2>10. CASE guess # pin["receiver"] /\ ~(n >= MaxTries)
    <3>1. Answers("receiver", <<t>> \o IF n > 0 THEN <<PinReply("receiver", "required")>> ELSE <<>>, "guess")
          /\ n < MaxTries /\ UNCHANGED why
      BY <2>7, <2>10
    <3>2. CASE n > 0
      BY <1>3, <2>0, <2>3, <2>4, <2>5, <2>10, <3>1, <3>2 DEF Shown
    <3>3. CASE n = 0
      BY <1>3, <2>0, <2>3, <2>4, <2>5, <2>10, <3>1, <3>3 DEF Shown
    <3> QED
      BY <3>2, <3>3
  <2> QED
    BY <2>8, <2>9, <2>10
<1> QED
  BY <1>2, <1>3

\* What a step makes of the two inboxes, as far as the handshake is concerned.
LEMMA InboxesAfter ==
  ASSUME BoxesOK, NEW p \in Sides, NEW msgs \in Seq(Messages), NEW at,
         Answers(p, msgs, at) \/ Sends(p, msgs, at)
  PROVE  /\ Coming(p)' \subseteq Coming(p)
         /\ Coming(Other(p))' \subseteq Coming(Other(p)) \cup {msgs[i] : i \in 1..Len(msgs)}
         /\ inbox[Other(p)] = <<>> => inbox'[Other(p)] = <<>> \/ inbox'[Other(p)] = msgs
         /\ Answers(p, msgs, at) /\ Len(inbox[p]) = 1 => inbox'[p] = <<>>
         /\ Sends(p, msgs, at) => inbox'[p] = inbox[p]
<1>1. inbox[p] \in Seq(Messages) /\ inbox[Other(p)] \in Seq(Messages)
  BY DEF BoxesOK, Other, Sides
<1>2. Coming(p)' \subseteq Coming(p)
  <2>1. CASE inbox'[p] = inbox[p]
    BY <2>1 DEF Coming
  <2>2. CASE inbox[p] # <<>> /\ inbox'[p] = Tail(inbox[p])
    <3>1. Len(inbox[p]) \in Nat /\ Len(inbox'[p]) = Len(inbox[p]) - 1
      BY <1>1, <2>2
    <3>2. ASSUME NEW i \in 1..Len(inbox'[p])
          PROVE  inbox'[p][i] \in Coming(p)
      <4>1. i + 1 \in 1..Len(inbox[p])
        BY <3>1
      <4>2. inbox'[p][i] = inbox[p][i + 1]
        BY <1>1, <2>2, <3>1
      <4> QED
        BY <4>1, <4>2 DEF Coming
    <3> QED
      BY <3>2 DEF Coming
  <2> QED
    BY <2>1, <2>2 DEF Answers, Sends
<1>6. Answers(p, msgs, at) /\ Len(inbox[p]) = 1 => inbox'[p] = <<>>
  <2>1. Len(inbox[p]) = 1 /\ inbox[p] # <<>> => Tail(inbox[p]) \in Seq(Messages) /\ Len(Tail(inbox[p])) = 0
    BY <1>1
  <2> QED
    BY <2>1, EmptySeq DEF Answers
<1>3. inbox'[Other(p)] = IF open THEN inbox[Other(p)] \o msgs ELSE inbox[Other(p)]
  BY DEF Answers, Sends
<1>4. Coming(Other(p))' \subseteq Coming(Other(p)) \cup {msgs[i] : i \in 1..Len(msgs)}
  <2>1. CASE ~open
    BY <1>3, <2>1 DEF Coming
  <2>2. CASE open
    <3>1. inbox'[Other(p)] = inbox[Other(p)] \o msgs
      BY <1>3, <2>2
    <3>2. /\ Len(msgs) \in Nat /\ Len(inbox[Other(p)]) \in Nat
          /\ Len(inbox'[Other(p)]) = Len(inbox[Other(p)]) + Len(msgs)
      BY <1>1, <3>1
    <3>3. ASSUME NEW i \in 1..Len(inbox'[Other(p)])
          PROVE  inbox'[Other(p)][i] \in Coming(Other(p)) \cup {msgs[j] : j \in 1..Len(msgs)}
      <4>1. CASE i <= Len(inbox[Other(p)])
        <5>1. i \in 1..Len(inbox[Other(p)])
          BY <3>2, <4>1
        <5>2. inbox'[Other(p)][i] = inbox[Other(p)][i]
          BY <1>1, <3>1, <3>2, <5>1
        <5> QED
          BY <5>1, <5>2 DEF Coming
      <4>2. CASE ~(i <= Len(inbox[Other(p)]))
        <5>1. inbox'[Other(p)][i] = msgs[i - Len(inbox[Other(p)])]
          BY <1>1, <3>1, <3>2, <4>2
        <5>2. i - Len(inbox[Other(p)]) \in 1..Len(msgs)
          BY <3>2, <4>2
        <5> QED
          BY <5>1, <5>2
      <4> QED
        BY <4>1, <4>2
    <3> QED
      BY <3>3 DEF Coming
  <2> QED
    BY <2>1, <2>2
<1>5. inbox[Other(p)] = <<>> => inbox'[Other(p)] = <<>> \/ inbox'[Other(p)] = msgs
  <2>1. <<>> \o msgs = msgs
    BY ConcatEmptySeq
  <2> QED
    BY <1>3, <2>1
<1> QED
  BY <1>2, <1>4, <1>5, <1>6 DEF Sends

-----------------------------------------------------------------------------
(* The steps of the handshake                                              *)

\* A token proves its owner's key.
LEMMA TokenProves ==
  ASSUME NEW p \in Sides, NEW q \in Sides, TokenOk(p, LocalToken(q))
  PROVE  expected[p] = q
BY DEF TokenOk, LocalToken, VerifyTokenNonce, VerifyToken, TokenNonce, Digest

\* What side p reads is a message of the type it expects.
LEMMA Read ==
  ASSUME TypeOK, NEW p \in Sides, NEW at, Reads(p, at)
  PROVE  /\ pc[p] = at /\ inbox[p] # <<>> /\ Arrived(p)
         /\ Head(inbox[p]) \in Messages /\ Head(inbox[p]) \in Coming(p)
         /\ Head(inbox[p]).type = Expects(p)
<1>1. inbox[p] \in Seq(Messages) /\ inbox[p] # <<>>
  BY DEF TypeOK, Reads, Arrived
<1>2. Head(inbox[p]) = inbox[p][1] /\ 1 \in 1..Len(inbox[p]) /\ Head(inbox[p]) \in Messages
  BY <1>1
<1> QED
  BY <1>1, <1>2 DEF Reads, Coming

\* The sender opens with its nonce.
LEMMA SendNonceDone ==
  ASSUME TypeOK, SendNonce
  PROVE  pc["sender"] = "start" /\ Sends("sender", <<Nonce>>, "nonce") /\ UNCHANGED why
<1>1. "sender" \in Sides /\ <<Nonce>> \in Seq(Messages)
  BY MessagesMade DEF Sides
<1>2. pc["sender"] = "start" /\ Send("sender", <<Nonce>>) /\ Goto("sender", "nonce")
  BY DEF SendNonce
<1> QED
  BY <1>1, <1>2, SendGoto

\* A nonce is answered with a nonce by the receiver, with a token by the sender.
LEMMA ReceiveNonceDone ==
  ASSUME TypeOK, NEW p \in Sides, ReceiveNonce(p)
  PROVE  /\ UNCHANGED why
         /\ p = "sender" => Answers(p, <<Token(LocalToken("sender"))>>, "token")
         /\ p = "receiver" => Answers(p, <<Nonce>>, "token")
<1>1. Reply(p, <<IF p = "sender" THEN Token(LocalToken(p)) ELSE Nonce>>) /\ Goto(p, "token")
      /\ inbox[p] # <<>>
  BY DEF ReceiveNonce, Reads, Arrived
<1>2. CASE p = "sender"
  <2>1. Reply(p, <<Token(LocalToken("sender"))>>) /\ <<Token(LocalToken("sender"))>> \in Seq(Messages)
    BY <1>1, <1>2, MessagesMade
  <2>2. Answers(p, <<Token(LocalToken("sender"))>>, "token") /\ UNCHANGED why
    BY <1>1, <2>1, AnswerGoto
  <2> QED
    BY <1>2, <2>2
<1>3. CASE p = "receiver"
  <2>1. Reply(p, <<Nonce>>) /\ <<Nonce>> \in Seq(Messages)
    BY <1>1, <1>3, MessagesMade
  <2>2. Answers(p, <<Nonce>>, "token") /\ UNCHANGED why
    BY <1>1, <2>1, AnswerGoto
  <2> QED
    BY <1>3, <2>2
<1> QED
  BY <1>2, <1>3 DEF Sides

\* How the sender goes on to its own PIN.
SenderOwns ==
  \/ Shown("sender") /\ Answers("sender", <<>>, "offer") /\ UNCHANGED why
  \/ /\ ~Shown("sender") /\ tries["sender"] >= MaxTries /\ FailsWith("sender", "tooMany")
     /\ Answers("sender", <<PinReply("sender", "tooMany")>>, "over")
  \/ /\ ~Shown("sender") /\ tries["sender"] < MaxTries /\ UNCHANGED why
     /\ Answers("sender", <<PinReply("sender", "required")>>, "guess")

\* The sender reads the verdict on its token with the receiver's own.
LEMMA ReceiveTokenReplyDone ==
  ASSUME TypeOK, ReceiveTokenReply
  PROVE  \/ Answers("sender", <<>>, "over") /\ FailsWith("sender", "key")
         \/ /\ Head(inbox["sender"]) # Invalid /\ Verified("sender")
            /\ \/ /\ Head(inbox["sender"]).result = "pinRequired"
                  /\ Answers("sender", <<>>, "prompt") /\ UNCHANGED why
               \/ Head(inbox["sender"]).result = "ok" /\ SenderOwns
<1> DEFINE m == Head(inbox["sender"])
<1>1. "sender" \in Sides /\ "receiver" \in Sides /\ <<>> \in Seq(Messages)
  BY DEF Sides
<1>2. inbox["sender"] # <<>> /\ m \in Messages /\ m.type = "tokenReply"
  BY <1>1, Read DEF ReceiveTokenReply, Reads, Expects
<1>3. CASE m = Invalid \/ ~TokenOk("sender", m.token)
  <2>1. Reply("sender", <<>>) /\ Fail("sender", "key")
    BY <1>3 DEF ReceiveTokenReply, Consume
  <2> QED
    BY <1>1, <1>2, <2>1, AnswerFail
<1>4. CASE ~(m = Invalid \/ ~TokenOk("sender", m.token))
  <2>1. Verified("sender") /\ m.result \in {"ok", "pinRequired"}
    BY <1>1, <1>2, <1>4, MessageKinds, TokenProves DEF Verified, Other
  <2>2. CASE m.result = "pinRequired"
    <3>1. Reply("sender", <<>>) /\ Goto("sender", "prompt")
      BY <1>4, <2>2 DEF ReceiveTokenReply, Consume
    <3> QED
      BY <1>1, <1>2, <1>4, <2>1, <2>2, <3>1, AnswerGoto
  <2>3. CASE m.result = "ok"
    <3>1. OwnPin("sender", <<>>)
      BY <1>4, <2>3 DEF ReceiveTokenReply
    <3> QED
      BY <1>2, <1>4, <2>1, <2>3, <3>1, SenderOwnPin DEF SenderOwns
  <2> QED
    BY <2>1, <2>2, <2>3
<1> QED
  BY <1>3, <1>4

\* How the receiver goes on to its own PIN, once it sent its token.
LEMMA ReceiveTokenDone ==
  ASSUME TypeOK, ReceiveToken
  PROVE  \/ Answers("receiver", <<Invalid>>, "over") /\ FailsWith("receiver", "key")
         \/ /\ Verified("receiver")
            /\ \E t \in Messages :
                 /\ t.type = "tokenReply" /\ t # Invalid /\ t.token = LocalToken("receiver")
                 /\ t.result = IF pin["receiver"] = NoPin THEN "ok" ELSE "pinRequired"
                 /\ \/ pin["receiver"] = NoPin /\ Answers("receiver", <<t>>, "list") /\ UNCHANGED why
                    \/ /\ pin["receiver"] # NoPin /\ Shown("receiver") /\ UNCHANGED why
                       /\ Answers("receiver", <<t, PinReply("receiver", "ok")>>, "list")
                    \/ /\ ~Shown("receiver") /\ tries["receiver"] >= MaxTries /\ FailsWith("receiver", "tooMany")
                       /\ Answers("receiver", <<t, PinReply("receiver", "tooMany")>>, "over")
                    \/ /\ ~Shown("receiver") /\ tries["receiver"] < MaxTries /\ UNCHANGED why
                       /\ \/ tries["receiver"] > 0 /\ Answers("receiver", <<t, PinReply("receiver", "required")>>, "guess")
                          \/ tries["receiver"] = 0 /\ Answers("receiver", <<t>>, "guess")
<1> DEFINE m == Head(inbox["receiver"])
<1>1. "sender" \in Sides /\ "receiver" \in Sides /\ <<Invalid>> \in Seq(Messages)
  BY MessagesMade DEF Sides
<1>2. inbox["receiver"] # <<>> /\ m \in Messages /\ m.type = "token"
  BY <1>1, Read DEF ReceiveToken, Reads, Expects
<1>3. CASE ~TokenOk("receiver", m.token)
  <2>1. Reply("receiver", <<Invalid>>) /\ Fail("receiver", "key")
    BY <1>3 DEF ReceiveToken
  <2> QED
    BY <1>1, <1>2, <2>1, AnswerFail
<1>4. CASE TokenOk("receiver", m.token)
  <2>1. Verified("receiver")
    BY <1>1, <1>2, <1>4, MessageKinds, TokenProves DEF Verified, Other
  <2>2. PICK t \in Messages :
          t = TokenReply(IF pin["receiver"] = NoPin THEN "ok" ELSE "pinRequired", LocalToken("receiver"))
    BY MessagesMade
  <2>3. OwnPin("receiver", <<t>>)
    BY <1>4, <2>2 DEF ReceiveToken
  <2>4. /\ t.type = "tokenReply" /\ t # Invalid /\ t.token = LocalToken("receiver")
        /\ t.result = IF pin["receiver"] = NoPin THEN "ok" ELSE "pinRequired"
    <3>1. t.type = "tokenReply" /\ t.token = LocalToken("receiver")
          /\ t.result = IF pin["receiver"] = NoPin THEN "ok" ELSE "pinRequired"
      BY <2>2 DEF TokenReply
    <3>2. Invalid.result = "invalid"
      BY DEF Invalid
    <3> QED
      BY <3>1, <3>2
  <2> QED
    BY <1>2, <2>1, <2>3, <2>4, ReceiverOwnPin
<1> QED
  BY <1>3, <1>4

\* A PIN that the user gave goes out.
LEMMA SendPinDone ==
  ASSUME TypeOK, NEW p \in Sides, SendPin(p)
  PROVE  pc[p] = "prompt" /\ \E g \in Pins : Sends(p, <<Pin(g)>>, "pinSent") /\ UNCHANGED why
<1>1. PICK g \in Pins : Send(p, <<Pin(g)>>)
  BY DEF SendPin
<1>2. <<Pin(g)>> \in Seq(Messages) /\ Goto(p, "pinSent") /\ pc[p] = "prompt"
  BY MessagesMade DEF SendPin
<1> QED
  BY <1>1, <1>2, SendGoto

\* The PIN that was read counts, and is the one side p was shown.
LEMMA ReceivePinDone ==
  ASSUME TypeOK, GuessInv, NEW p \in Sides, ReceivePin(p)
  PROVE  /\ shown'[p] \in Pins /\ tries'[p] = tries[p] + 1 /\ tries'[p] \in 1..MaxTries
         /\ shown' = [shown EXCEPT ![p] = shown'[p]] /\ tries' = [tries EXCEPT ![p] = tries'[p]]
         /\ pin[p] # NoPin /\ shown[p] # pin[p]
         /\ \/ /\ shown'[p] = pin[p] /\ UNCHANGED why
               /\ Answers(p, IF p = "sender" THEN <<>> ELSE <<PinReply(p, "ok")>>, Content(p))
            \/ /\ shown'[p] # pin[p] /\ FailsWith(p, "tooMany")
               /\ Answers(p, <<PinReply(p, "tooMany")>>, "over")
            \/ /\ shown'[p] # pin[p] /\ tries'[p] < MaxTries /\ UNCHANGED why
               /\ Answers(p, <<PinReply(p, "required")>>, "guess")
<1>1. inbox[p] # <<>> /\ Head(inbox[p]) \in Messages /\ Head(inbox[p]).type = "pin" /\ pc[p] = "guess"
  BY Read DEF ReceivePin, Reads, Expects
<1>2. /\ tries[p] \in 0..MaxTries /\ tries[p] < MaxTries /\ pin[p] # NoPin /\ shown[p] # pin[p]
      /\ MaxTries \in Nat
  BY <1>1, RtcAssumption DEF TypeOK, GuessInv, Shown
<1>3. shown' = [shown EXCEPT ![p] = Head(inbox[p]).pin] /\ tries' = [tries EXCEPT ![p] = @ + 1]
      /\ CheckPin(p, shown'[p], tries'[p], <<>>)
  BY DEF ReceivePin
<1>4. shown'[p] = Head(inbox[p]).pin /\ tries'[p] = tries[p] + 1
  BY <1>3 DEF TypeOK
<1>5. shown'[p] \in Pins /\ tries'[p] \in 1..MaxTries
  BY <1>1, <1>2, <1>4, MessageKinds
<1>6. PICK n \in Nat : n = tries'[p]
  BY <1>5
<1>7. PICK guess : guess = shown'[p]
  OBVIOUS
<1>8. CheckPin(p, guess, n, <<>>)
  BY <1>3, <1>6, <1>7
<1>9. <<>> \in Seq(Messages)
  OBVIOUS
<1>10. \/ /\ guess = pin[p] /\ UNCHANGED why
          /\ Answers(p, <<>> \o IF p = "sender" THEN <<>> ELSE <<PinReply(p, "ok")>>, Content(p))
       \/ /\ guess # pin[p] /\ n >= MaxTries /\ FailsWith(p, "tooMany")
          /\ Answers(p, <<>> \o <<PinReply(p, "tooMany")>>, "over")
       \/ /\ guess # pin[p] /\ n < MaxTries /\ UNCHANGED why
          /\ Answers(p, <<>> \o IF n > 0 \/ p = "sender" THEN <<PinReply(p, "required")>> ELSE <<>>,
                     "guess")
  BY <1>1, <1>8, <1>9, CheckPinAnswers
<1>11. n > 0
  BY <1>5, <1>6
<1>12. /\ \A m \in Messages : <<>> \o <<m>> = <<m>>
       /\ <<>> \o <<>> = <<>>
       /\ \A r \in {"ok", "tooMany", "required"} : PinReply(p, r) \in Messages
  BY MessagesMade DEF Verdicts
<1>13. \/ /\ guess = pin[p] /\ UNCHANGED why
          /\ Answers(p, IF p = "sender" THEN <<>> ELSE <<PinReply(p, "ok")>>, Content(p))
       \/ /\ guess # pin[p] /\ FailsWith(p, "tooMany") /\ Answers(p, <<PinReply(p, "tooMany")>>, "over")
       \/ /\ guess # pin[p] /\ n < MaxTries /\ UNCHANGED why
          /\ Answers(p, <<PinReply(p, "required")>>, "guess")
  BY <1>10, <1>11, <1>12
<1> QED
  BY <1>2, <1>3, <1>4, <1>5, <1>6, <1>7, <1>13

\* What a side does on the verdict on the PIN it sent.
LEMMA ReceivePinReplyDone ==
  ASSUME TypeOK, NEW p \in Sides, ReceivePinReply(p)
  PROVE  LET r == Head(inbox[p]).result
         IN  \/ r = "required" /\ Answers(p, <<>>, "prompt") /\ UNCHANGED why
             \/ r = "tooMany" /\ Answers(p, <<>>, "over") /\ FailsWith(p, "tooMany")
             \/ r = "ok" /\ p = "sender" /\ SenderOwns
             \/ r = "ok" /\ p = "receiver" /\ Answers(p, <<>>, "select") /\ UNCHANGED why
<1> DEFINE r == Head(inbox[p]).result
<1>1. inbox[p] # <<>> /\ Head(inbox[p]) \in Messages /\ Head(inbox[p]).type \in {"pinText", "pinString"}
  BY Read DEF ReceivePinReply, Reads, Expects
<1>2. r \in {"ok", "required", "tooMany"} /\ <<>> \in Seq(Messages)
  BY <1>1, MessageKinds DEF Verdicts
<1>3. CASE r = "required"
  <2>1. Reply(p, <<>>) /\ Goto(p, "prompt")
    BY <1>3 DEF ReceivePinReply, Consume
  <2> QED
    BY <1>1, <1>2, <1>3, <2>1, AnswerGoto
<1>4. CASE r = "tooMany"
  <2>1. Reply(p, <<>>) /\ Fail(p, "tooMany")
    BY <1>4 DEF ReceivePinReply, Consume
  <2> QED
    BY <1>1, <1>2, <1>4, <2>1, AnswerFail
<1>5. CASE r = "ok" /\ p = "sender"
  <2>1. OwnPin("sender", <<>>)
    BY <1>5 DEF ReceivePinReply
  <2> QED
    BY <1>1, <1>5, <2>1, SenderOwnPin DEF SenderOwns
<1>6. CASE r = "ok" /\ p = "receiver"
  <2>1. Reply(p, <<>>) /\ Goto(p, "select")
    BY <1>6 DEF ReceivePinReply, Consume
  <2> QED
    BY <1>1, <1>2, <1>6, <2>1, AnswerGoto
<1> QED
  BY <1>2, <1>3, <1>4, <1>5, <1>6 DEF Sides

\* The offer goes out.
LEMMA SendFileListDone ==
  ASSUME TypeOK, SendFileList
  PROVE  /\ pc["sender"] = "offer" /\ UNCHANGED why
         /\ Sends("sender", <<PinReply("sender", "ok")>>, "selection")
<1>1. "sender" \in Sides /\ <<PinReply("sender", "ok")>> \in Seq(Messages)
  BY MessagesMade DEF Sides, Verdicts
<1>2. pc["sender"] = "offer" /\ Send("sender", <<PinReply("sender", "ok")>>) /\ Goto("sender", "selection")
  BY DEF SendFileList
<1> QED
  BY <1>1, <1>2, SendGoto

\* What the receiver does with the message that may be the offer.
LEMMA ReceiveFileListDone ==
  ASSUME TypeOK, ReceiveFileList
  PROVE  LET r == Head(inbox["receiver"]).result
         IN  \/ r = "required" /\ Answers("receiver", <<>>, "prompt") /\ UNCHANGED why
             \/ r = "tooMany" /\ Answers("receiver", <<>>, "over") /\ FailsWith("receiver", "outOfStep")
             \/ r = "ok" /\ Answers("receiver", <<>>, "select") /\ UNCHANGED why
<1> DEFINE r == Head(inbox["receiver"]).result
<1>0. "receiver" \in Sides
  BY DEF Sides
<1>1. /\ inbox["receiver"] # <<>> /\ Head(inbox["receiver"]) \in Messages
      /\ Head(inbox["receiver"]).type = "pinString"
  BY <1>0, Read DEF ReceiveFileList, Reads, Expects
<1>2. r \in {"ok", "required", "tooMany"} /\ <<>> \in Seq(Messages)
  BY <1>1, MessageKinds DEF Verdicts
<1>3. Reply("receiver", <<>>)
  BY DEF ReceiveFileList, Consume
<1>4. CASE r = "required"
  <2>1. Goto("receiver", "prompt")
    BY <1>4 DEF ReceiveFileList
  <2> QED
    BY <1>0, <1>1, <1>2, <1>3, <1>4, <2>1, AnswerGoto
<1>5. CASE r = "tooMany"
  <2>1. Fail("receiver", "outOfStep")
    BY <1>5 DEF ReceiveFileList
  <2> QED
    BY <1>0, <1>1, <1>2, <1>3, <1>5, <2>1, AnswerFail
<1>6. CASE r = "ok"
  <2>1. Goto("receiver", "select")
    BY <1>6 DEF ReceiveFileList
  <2> QED
    BY <1>0, <1>1, <1>2, <1>3, <1>6, <2>1, AnswerGoto
<1> QED
  BY <1>2, <1>4, <1>5, <1>6

\* The selection goes out.
LEMMA SendSelectionDone ==
  ASSUME TypeOK, SendSelection
  PROVE  /\ pc["receiver"] = "select" /\ UNCHANGED why /\ selection' \in SUBSET Files
         /\ Sends("receiver", <<FileTokens(selection')>>, "receiving")
<1>1. PICK S \in SUBSET Files : S = selection'
  BY DEF SendSelection
<1>2. "receiver" \in Sides /\ <<FileTokens(S)>> \in Seq(Messages)
  BY MessagesMade DEF Sides
<1>3. pc["receiver"] = "select" /\ Send("receiver", <<FileTokens(S)>>) /\ Goto("receiver", "receiving")
  BY <1>1 DEF SendSelection
<1>4. Sends("receiver", <<FileTokens(S)>>, "receiving") /\ UNCHANGED why
  BY <1>2, <1>3, SendGoto
<1> QED
  BY <1>1, <1>3, <1>4

\* The receiver declines, with a message or without.
LEMMA DeclineDone ==
  ASSUME TypeOK, Decline
  PROVE  /\ pc["receiver"] = "select" /\ UNCHANGED why
         /\ \/ Sends("receiver", <<Declined>>, "closing")
            \/ Sends("receiver", <<>>, "closing")
<1>1. "receiver" \in Sides /\ <<Declined>> \in Seq(Messages) /\ <<>> \in Seq(Messages)
  BY MessagesMade DEF Sides
<1>2. /\ pc["receiver"] = "select" /\ Goto("receiver", "closing")
      /\ Send("receiver", <<Declined>>) \/ Send("receiver", <<>>)
  BY DEF Decline
<1> QED
  BY <1>1, <1>2, SendGoto

\* The sender reads the answer to its offer.
LEMMA ReceiveSelectionDone ==
  ASSUME TypeOK, ReceiveSelection
  PROVE  /\ UNCHANGED why
         /\ Answers("sender", <<>>, "closing") \/ Answers("sender", <<>>, "sending")
<1>1. "sender" \in Sides /\ <<>> \in Seq(Messages)
  BY DEF Sides
<1>2. inbox["sender"] # <<>> /\ Reply("sender", <<>>)
  BY DEF ReceiveSelection, Reads, Arrived, Consume
<1>3. Goto("sender", "closing") \/ Goto("sender", "sending")
  BY DEF ReceiveSelection
<1> QED
  BY <1>1, <1>2, <1>3, AnswerGoto

\* A message that does not parse ends the task.
LEMMA MisreadDone ==
  ASSUME TypeOK, NEW p \in Sides, Misread(p)
  PROVE  Answers(p, <<>>, "over") /\ FailsWith(p, "outOfStep") /\ ~FindsExpected(p)
<1>1. inbox[p] # <<>> /\ Reply(p, <<>>) /\ Fail(p, "outOfStep") /\ <<>> \in Seq(Messages)
  BY DEF Misread, Arrived, Consume
<1>2. ~FindsExpected(p)
  BY DEF Misread, FindsExpected
<1> QED
  BY <1>1, <1>2, AnswerFail

-----------------------------------------------------------------------------
(* What the sides know                                                     *)

Knows == SenderKnows /\ ReceiverKnows /\ GuessInv

\* What comes to each side after a step of one that sent no message, one or two.
LEMMA ComingAfter ==
  ASSUME BoxesOK, NEW p \in Sides, NEW at
  PROVE  /\ Answers(p, <<>>, at) => Coming(p)' \subseteq Coming(p) /\ Coming(Other(p))' \subseteq Coming(Other(p))
         /\ \A m \in Messages : Answers(p, <<m>>, at) \/ Sends(p, <<m>>, at) =>
              Coming(p)' \subseteq Coming(p) /\ Coming(Other(p))' \subseteq Coming(Other(p)) \cup {m}
         /\ \A m, n \in Messages : Answers(p, <<m, n>>, at) =>
              Coming(p)' \subseteq Coming(p) /\ Coming(Other(p))' \subseteq Coming(Other(p)) \cup {m, n}
<1>1. ASSUME Answers(p, <<>>, at)
      PROVE  Coming(p)' \subseteq Coming(p) /\ Coming(Other(p))' \subseteq Coming(Other(p))
  <2>1. <<>> \in Seq(Messages) /\ {<<>>[i] : i \in 1..Len(<<>>)} = {}
    OBVIOUS
  <2> QED
    BY <1>1, <2>1, InboxesAfter
<1>2. ASSUME NEW m \in Messages, Answers(p, <<m>>, at) \/ Sends(p, <<m>>, at)
      PROVE  Coming(p)' \subseteq Coming(p) /\ Coming(Other(p))' \subseteq Coming(Other(p)) \cup {m}
  <2>1. <<m>> \in Seq(Messages) /\ {<<m>>[i] : i \in 1..Len(<<m>>)} = {m}
    OBVIOUS
  <2>2. Coming(Other(p))' \subseteq Coming(Other(p)) \cup {<<m>>[i] : i \in 1..Len(<<m>>)}
        /\ Coming(p)' \subseteq Coming(p)
    BY <1>2, <2>1, InboxesAfter
  <2> QED
    BY <2>1, <2>2
<1>3. ASSUME NEW m \in Messages, NEW n \in Messages, Answers(p, <<m, n>>, at)
      PROVE  Coming(p)' \subseteq Coming(p) /\ Coming(Other(p))' \subseteq Coming(Other(p)) \cup {m, n}
  <2>1. <<m, n>> \in Seq(Messages) /\ {<<m, n>>[i] : i \in 1..Len(<<m, n>>)} = {m, n}
    OBVIOUS
  <2>2. Coming(Other(p))' \subseteq Coming(Other(p)) \cup {<<m, n>>[i] : i \in 1..Len(<<m, n>>)}
        /\ Coming(p)' \subseteq Coming(p)
    BY <1>3, <2>1, InboxesAfter
  <2> QED
    BY <2>1, <2>2
<1> QED
  BY <1>1, <1>2, <1>3

\* The messages that tell a side something, and steps that send none of them.
Telling == {"tokenReply", "pinText", "pinString"}
NothingTold == \A p \in Sides : \A m \in Coming(p)' : m \in Coming(p) \/ m.type \notin Telling

\* A step whose messages are none of these tells nobody anything.
LEMMA Silent ==
  ASSUME BoxesOK, NEW p \in Sides, NEW msgs \in Seq(Messages), NEW at,
         Answers(p, msgs, at) \/ Sends(p, msgs, at),
         \A i \in 1..Len(msgs) : msgs[i].type \notin Telling
  PROVE  NothingTold
<1>1. Coming(p)' \subseteq Coming(p)
      /\ Coming(Other(p))' \subseteq Coming(Other(p)) \cup {msgs[i] : i \in 1..Len(msgs)}
  BY InboxesAfter
<1>2. \A q \in Sides : q = p \/ q = Other(p)
  BY DEF Sides, Other
<1> QED
  BY <1>1, <1>2 DEF NothingTold

\* The beginning of a sequence.
LEMMA Beginning ==
  ASSUME NEW s \in Seq(Messages), NEW r \in Prefixes(s)
  PROVE  /\ r \in Seq(Messages) /\ Len(r) <= Len(s)
         /\ \A i \in 1..Len(r) : i \in 1..Len(s) /\ r[i] = s[i]
<1>1. PICK n \in 0..Len(s) : r = SubSeq(s, 1, n)
  BY DEF Prefixes
<1>2. Len(s) \in Nat /\ n \in Nat /\ n <= Len(s)
  BY <1>1
<1>3. r \in Seq(Messages) /\ Len(r) = n /\ \A i \in 1..n : r[i] = s[i]
  BY <1>1, <1>2
<1>4. \A i \in 1..n : i \in 1..Len(s)
  BY <1>2
<1> QED
  BY <1>2, <1>3, <1>4

-----------------------------------------------------------------------------
(* The steps of the transfer of files, and of the end                      *)

\* What some control points tell of the files in hand.
Points ==
  /\ pc["sender"] = "chunks" => cur \in Files
  /\ pc["receiver"] = "result" =>
       file \in Files /\ \E m \in Messages : held = <<m>> /\ m.type \in {"header", "delimiter"}

\* The sender begins a file, or is told that it was not selected.
LEMMA SendFileDone ==
  ASSUME TypeOK, NEW f \in Files, SendFile(f)
  PROVE  /\ pc["sender"] = "sending" /\ f \notin begun /\ begun' = begun \cup {f} /\ UNCHANGED why
         /\ \/ f \in selection /\ Sends("sender", <<Header(f)>>, "chunks") /\ cur' = f
            \/ f \notin selection /\ UNCHANGED <<inbox, pc, ended, cur>>
<1>1. "sender" \in Sides /\ <<Header(f)>> \in Seq(Messages)
  BY MessagesMade DEF Sides
<1>2. CASE f \in selection
  <2>1. Send("sender", <<Header(f)>>) /\ Goto("sender", "chunks") /\ cur' = f
    BY <1>2 DEF SendFile
  <2>2. Sends("sender", <<Header(f)>>, "chunks") /\ UNCHANGED why
    BY <1>1, <2>1, SendGoto
  <2> QED
    BY <1>2, <2>1, <2>2 DEF SendFile
<1>3. CASE f \notin selection
  BY <1>3 DEF SendFile
<1> QED
  BY <1>2, <1>3

\* A chunk of the file the sender is in goes out.
LEMMA SendChunkDone ==
  ASSUME TypeOK, Points, SendChunk
  PROVE  /\ pc["sender"] = "chunks" /\ cur \in Files /\ sent[cur] + 1 \in 1..MaxChunks
         /\ sent' = [sent EXCEPT ![cur] = @ + 1] /\ UNCHANGED <<pc, why>>
         /\ Sends("sender", <<Chunk(cur, sent[cur] + 1)>>, "chunks")
<1>1. pc["sender"] = "chunks" /\ sent[cur] < MaxChunks /\ sent' = [sent EXCEPT ![cur] = @ + 1]
      /\ Send("sender", <<Chunk(cur, sent'[cur])>>) /\ UNCHANGED <<pc, why>>
  BY DEF SendChunk
<1>2. cur \in Files /\ sent[cur] \in 0..MaxChunks /\ MaxChunks \in Nat
  BY <1>1, RtcAssumption DEF Points, TypeOK
<1>3. sent'[cur] = sent[cur] + 1 /\ sent[cur] + 1 \in 1..MaxChunks
  <2>1. sent'[cur] = sent[cur] + 1
    BY <1>1, <1>2 DEF TypeOK
  <2> QED
    BY <1>1, <1>2, <2>1
<1>4. PICK m \in Messages : m = Chunk(cur, sent[cur] + 1)
  BY <1>2, <1>3, MessagesMade
<1>5. "sender" \in Sides /\ <<m>> \in Seq(Messages) /\ Send("sender", <<m>>) /\ BoxesOK
  <2>1. m = Chunk(cur, sent'[cur])
    BY <1>3, <1>4
  <2>2. Send("sender", <<m>>)
    BY <2>1 DEF SendChunk, Send
  <2> QED
    BY <2>2 DEF Sides, TypeOK, BoxesOK
<1>6. pc' = pc /\ pc["sender"] = "chunks"
  BY <1>1
<1>7. pc' = [pc EXCEPT !["sender"] = "chunks"]
  BY <1>5, <1>6 DEF TypeOK
<1>8. Sends("sender", <<m>>, "chunks")
  BY <1>5, <1>6, <1>7, SendBox DEF Sends
<1> QED
  BY <1>1, <1>2, <1>3, <1>4, <1>8

\* The delimiter goes out.
LEMMA SendDelimiterDone ==
  ASSUME TypeOK, SendDelimiter
  PROVE  pc["sender"] = "sending" /\ Sends("sender", <<Delimiter>>, "last") /\ UNCHANGED why
<1>1. "sender" \in Sides /\ <<Delimiter>> \in Seq(Messages)
  BY MessagesMade DEF Sides
<1>2. pc["sender"] = "sending" /\ Send("sender", <<Delimiter>>) /\ Goto("sender", "last")
  BY DEF SendDelimiter
<1> QED
  BY <1>1, <1>2, SendGoto

\* The sender reads its last message.
LEMMA ReceiveLastDone ==
  ASSUME TypeOK, ReceiveLast
  PROVE  pc["sender"] = "last" /\ Answers("sender", <<>>, "closing") /\ UNCHANGED why
<1>1. "sender" \in Sides /\ <<>> \in Seq(Messages)
  BY DEF Sides
<1>2. /\ pc["sender"] = "last" /\ inbox["sender"] # <<>> /\ Reply("sender", <<>>)
      /\ Goto("sender", "closing")
  BY DEF ReceiveLast, Consume
<1> QED
  BY <1>1, <1>2, AnswerGoto

\* The receiver reads the text that ends a file.
LEMMA EndOfFileDone ==
  ASSUME TypeOK, EndOfFile
  PROVE  /\ pc["receiver"] = "receiving" /\ file \in Files /\ UNCHANGED why
         /\ Answers("receiver", <<>>, "result")
         /\ Head(inbox["receiver"]) \in Messages
         /\ Head(inbox["receiver"]).type \in {"header", "delimiter"}
         /\ held' = <<Head(inbox["receiver"])>>
         /\ stream' = [stream EXCEPT ![file] = "closed"]
<1>1. "receiver" \in Sides /\ <<>> \in Seq(Messages)
  BY DEF Sides
<1>2. /\ inbox["receiver"] # <<>> /\ Reply("receiver", <<>>)
      /\ Goto("receiver", "result")
  BY DEF EndOfFile, Consume
<1>3. Answers("receiver", <<>>, "result") /\ UNCHANGED why
  BY <1>1, <1>2, AnswerGoto
<1>4. file \in Files
  BY DEF EndOfFile, TypeOK
<1>5. Head(inbox["receiver"]) \in Messages
  BY <1>1, <1>2 DEF TypeOK
<1> QED
  BY <1>3, <1>4, <1>5 DEF EndOfFile

\* The receiver sends a status and goes on with the text it held.
LEMMA SendStatusDone ==
  ASSUME TypeOK, Points, SendStatus
  PROVE  /\ pc["receiver"] = "result" /\ file \in Files /\ UNCHANGED why
         /\ \E m \in Messages, f \in Files, ok \in BOOLEAN :
              /\ held = <<m>>
              /\ \/ results = <<[file |-> f, success |-> ok]>>
                 \/ deserted /\ f = file /\ ok = FALSE
              /\ answers' = answers \cup {[file |-> file, success |-> ok, about |-> f]}
              /\ \/ /\ m.type = "delimiter" /\ file' = None /\ UNCHANGED stream
                    /\ Sends("receiver", <<Status(file, ok)>>, "closing")
                 \/ /\ m.type = "header" /\ OpenFile(m)
                    /\ Sends("receiver", <<Status(file, ok)>>, "receiving")
         /\ results' = <<>> /\ held' = <<>>
<1>1. pc["receiver"] = "result" /\ (results # <<>> \/ deserted) /\ results' = <<>> /\ held' = <<>>
  BY DEF SendStatus
<1>2. PICK m \in Messages : held = <<m>> /\ m.type \in {"header", "delimiter"}
  BY <1>1 DEF Points
<1>5. file \in Files
  BY <1>1 DEF Points
<1>3. PICK f \in Files, ok \in BOOLEAN :
        /\ \/ results = <<[file |-> f, success |-> ok]>>
           \/ deserted /\ f = file /\ ok = FALSE
        /\ Verdict.file = f /\ Verdict.success = ok
  <2>1. CASE results # <<>>
    <3>1. PICK f \in Files, ok \in BOOLEAN : results = <<[file |-> f, success |-> ok]>>
      BY <2>1 DEF TypeOK
    <3>2. Verdict = [file |-> f, success |-> ok]
      BY <2>1, <3>1 DEF Verdict
    <3>3. Verdict.file = f /\ Verdict.success = ok
      BY <3>2
    <3> QED
      BY <3>1, <3>3
  <2>2. CASE results = <<>>
    <3>1. Verdict.file = file /\ Verdict.success = FALSE
      BY <2>2 DEF Verdict
    <3> QED
      BY <1>1, <1>5, <2>2, <3>1
  <2> QED
    BY <2>1, <2>2
<1>4. held[1] = m
  BY <1>2
<1>6. "receiver" \in Sides /\ <<Status(file, ok)>> \in Seq(Messages)
  BY <1>5, MessagesMade DEF Sides
<1>7. results' = <<>>
  BY <1>1
<1>8. /\ answers' = answers \cup {[file |-> file, success |-> ok, about |-> f]}
      /\ Send("receiver", <<Status(file, ok)>>)
      /\ IF m.type = "delimiter"
              THEN Goto("receiver", "closing") /\ file' = None /\ UNCHANGED stream
              ELSE Goto("receiver", "receiving") /\ OpenFile(m)
  BY <1>3, <1>4 DEF SendStatus
<1>9. CASE m.type = "delimiter"
  <2>1. Goto("receiver", "closing") /\ file' = None /\ UNCHANGED stream
    BY <1>8, <1>9
  <2>2. Sends("receiver", <<Status(file, ok)>>, "closing") /\ UNCHANGED why
    BY <1>6, <1>8, <2>1, SendGoto
  <2> QED
    BY <1>1, <1>2, <1>3, <1>5, <1>7, <1>8, <1>9, <2>1, <2>2
<1>10. CASE m.type = "header"
  <2>1. Goto("receiver", "receiving") /\ OpenFile(m)
    BY <1>8, <1>10
  <2>2. Sends("receiver", <<Status(file, ok)>>, "receiving") /\ UNCHANGED why
    BY <1>6, <1>8, <2>1, SendGoto
  <2> QED
    BY <1>1, <1>2, <1>3, <1>5, <1>7, <1>8, <1>10, <2>1, <2>2
<1> QED
  BY <1>2, <1>9, <1>10

\* The receiver reads a text while no file is open.
LEMMA ReceiveHeaderDone ==
  ASSUME TypeOK, ReceiveHeader
  PROVE  /\ pc["receiver"] = "receiving" /\ file = None
         /\ Head(inbox["receiver"]) \in Messages
         /\ LET msg == Head(inbox["receiver"])
            IN  \/ /\ msg.type = "header" /\ OpenFile(msg) /\ UNCHANGED why
                   /\ Answers("receiver", <<>>, "receiving")
                \/ /\ msg.type = "delimiter" /\ UNCHANGED <<file, stream>>
                   /\ Answers("receiver", <<>>, "over") /\ FailsWith("receiver", "delimiter")
<1>1. "receiver" \in Sides /\ <<>> \in Seq(Messages)
  BY DEF Sides
<1>2. inbox["receiver"] # <<>> /\ Reply("receiver", <<>>)
  BY DEF ReceiveHeader, Consume
<1>3. Head(inbox["receiver"]) \in Messages
  BY <1>1, <1>2 DEF TypeOK
<1>4. CASE Head(inbox["receiver"]).type = "header" /\ Goto("receiver", "receiving")
           /\ OpenFile(Head(inbox["receiver"]))
  BY <1>1, <1>2, <1>3, <1>4, AnswerGoto DEF ReceiveHeader
<1>5. CASE Head(inbox["receiver"]).type = "delimiter" /\ Fail("receiver", "delimiter")
           /\ UNCHANGED <<file, stream>>
  BY <1>1, <1>2, <1>3, <1>5, AnswerFail DEF ReceiveHeader
<1> QED
  BY <1>4, <1>5 DEF ReceiveHeader

\* The receiver reads a chunk that its application does not take any more.
ChunkDropped ==
  /\ Answers("receiver", <<>>, "over") /\ FailsWith("receiver", "dropped")
  /\ UNCHANGED <<file, got, stream, oversized>>

\* The receiver reads a chunk.
LEMMA ReceiveChunkDone ==
  ASSUME TypeOK, ReceiveChunk
  PROVE  /\ pc["receiver"] = "receiving"
         /\ \/ Answers("receiver", <<>>, "receiving") /\ UNCHANGED <<pc, why>>
            \/ ChunkDropped
         /\ \E f \in Files, i \in 1..MaxChunks :
              /\ Head(inbox["receiver"]) = Chunk(f, i) /\ Chunk(f, i) \in Messages
              /\ \/ ChunkDropped
                 \/ file = None /\ UNCHANGED <<file, got, stream, oversized>>
                 \/ /\ file \in Files /\ Len(got[file]) < Size
                    /\ got' = [got EXCEPT ![file] = Append(@, <<f, i>>)]
                    /\ UNCHANGED <<file, stream, oversized>>
                 \/ /\ file \in Files /\ oversized' = oversized \cup {file} /\ UNCHANGED got
                    /\ stream' = [stream EXCEPT ![file] = "closed"] /\ file' = None
<1>1. "receiver" \in Sides /\ <<>> \in Seq(Messages) /\ BoxesOK
  BY DEF Sides, TypeOK, BoxesOK
<1>2. /\ pc["receiver"] = "receiving" /\ inbox["receiver"] # <<>> /\ Reply("receiver", <<>>)
      /\ Head(inbox["receiver"]).type = "chunk"
  BY DEF ReceiveChunk, Consume
<1>3. Head(inbox["receiver"]) \in Messages
  BY <1>1, <1>2 DEF TypeOK
<1>4. PICK m \in Messages : m = Head(inbox["receiver"])
  BY <1>3
<1>5. m.type = "chunk" /\ m.file \in Files /\ m.nr \in 1..MaxChunks /\ m = Chunk(m.file, m.nr)
  BY <1>2, <1>4, MessageKinds
<1>6. \/ Fail("receiver", "dropped") /\ UNCHANGED <<file, got, stream, oversized>>
      \/ /\ UNCHANGED <<pc, why>>
         /\ \/ file = None /\ UNCHANGED <<file, got, stream, oversized>>
            \/ /\ file \in Files /\ Len(got[file]) < Size
               /\ got' = [got EXCEPT ![file] = Append(@, <<m.file, m.nr>>)]
               /\ UNCHANGED <<file, stream, oversized>>
            \/ /\ file \in Files /\ oversized' = oversized \cup {file} /\ UNCHANGED got
               /\ stream' = [stream EXCEPT ![file] = "closed"] /\ file' = None
  BY <1>4 DEF ReceiveChunk, TypeOK
<1>7. CASE Fail("receiver", "dropped") /\ UNCHANGED <<file, got, stream, oversized>>
  <2>1. ChunkDropped
    BY <1>1, <1>2, <1>7, AnswerFail DEF ChunkDropped
  <2> QED
    BY <1>2, <1>4, <1>5, <2>1
<1>8. CASE UNCHANGED <<pc, why>>
  <2>1. Consume("receiver")
    BY DEF ReceiveChunk
  <2>2. /\ BoxesOK' /\ inbox'["receiver"] = Tail(inbox["receiver"])
        /\ inbox'[Other("receiver")] = inbox[Other("receiver")]
    BY <1>1, <1>2, <2>1, ConsumeBox
  <2>3. inbox[Other("receiver")] \o <<>> = inbox[Other("receiver")]
    BY <1>1 DEF BoxesOK, Other, Sides
  <2>4. pc' = [pc EXCEPT !["receiver"] = "receiving"]
    BY <1>1, <1>2, <1>8 DEF TypeOK
  <2>5. Answers("receiver", <<>>, "receiving")
    BY <1>2, <2>2, <2>3, <2>4 DEF Answers
  <2>6. CASE Fail("receiver", "dropped") /\ UNCHANGED <<file, got, stream, oversized>>
    BY <1>7, <2>6
  <2>7. CASE ~(Fail("receiver", "dropped") /\ UNCHANGED <<file, got, stream, oversized>>)
    BY <1>2, <1>4, <1>5, <1>6, <1>8, <2>5, <2>7
  <2> QED
    BY <2>6, <2>7
<1> QED
  BY <1>6, <1>7, <1>8

\* What is left of the inboxes when the connection goes down.
Cut == BoxesOK' /\ \A p \in Sides : inbox'[p] \in Prefixes(inbox[p]) \/ inbox'[p] = <<>>

\* What a side that closes the connection leaves in the inboxes.
LEMMA CloseDone ==
  ASSUME TypeOK, NEW p \in Sides, Close(p)
  PROVE  /\ pc[p] = "closing" /\ Cut /\ UNCHANGED why /\ inbox'[p] = <<>>
         /\ pc'[p] = "over" /\ pc'[Other(p)] = pc[Other(p)] /\ pc' = [pc EXCEPT ![p] = "over"]
<1>1. PICK rest \in Prefixes(inbox[Other(p)]) :
        inbox' = [inbox EXCEPT ![p] = <<>>, ![Other(p)] = rest]
  BY DEF Close
<1>2. Other(p) \in Sides /\ p # Other(p) /\ \A q \in Sides : q = p \/ q = Other(p)
  BY DEF Other, Sides
<1>3. inbox[Other(p)] \in Seq(Messages) /\ rest \in Seq(Messages) /\ <<>> \in Seq(Messages)
  BY <1>2, Beginning DEF TypeOK
<1>4. inbox'[p] = <<>> /\ inbox'[Other(p)] = rest /\ BoxesOK'
  <2>1. inbox \in [Sides -> Seq(Messages)]
    BY DEF TypeOK
  <2>2. inbox'[p] = <<>> /\ inbox'[Other(p)] = rest
    BY <1>1, <1>2, <2>1
  <2>3. DOMAIN inbox' = Sides /\ inbox' = [q \in Sides |-> inbox'[q]]
    BY <1>1, <2>1
  <2> QED
    BY <1>2, <1>3, <2>2, <2>3 DEF BoxesOK
<1>5. Cut
  BY <1>1, <1>2, <1>4 DEF Cut
<1>6. pc[p] = "closing" /\ pc' = [pc EXCEPT ![p] = "over"] /\ UNCHANGED why
  BY DEF Close
<1> QED
  BY <1>2, <1>4, <1>5, <1>6 DEF TypeOK

\* What the loss of the connection leaves in the inboxes.
LEMMA BreakDone ==
  ASSUME TypeOK, Break
  PROVE  Cut /\ UNCHANGED <<pc, why>>
<1>1. PICK rest \in [Sides -> UNION {Prefixes(inbox[p]) : p \in Sides}] :
        /\ \A p \in Sides : rest[p] \in Prefixes(inbox[p])
        /\ inbox' = rest
  BY DEF Break
<1>2. \A p \in Sides : rest[p] \in Seq(Messages)
  BY <1>1, Beginning DEF TypeOK
<1> QED
  BY <1>1, <1>2 DEF Cut, BoxesOK, Break

\* Nothing new is on its way after a cut.
LEMMA CutSilent ==
  ASSUME TypeOK, Cut
  PROVE  NothingTold /\ \A p \in Sides : Coming(p)' \subseteq Coming(p)
<1>1. ASSUME NEW p \in Sides
      PROVE  Coming(p)' \subseteq Coming(p)
  <2>1. inbox[p] \in Seq(Messages)
    BY DEF TypeOK
  <2>2. CASE inbox'[p] = <<>>
    BY <2>2 DEF Coming
  <2>3. CASE inbox'[p] \in Prefixes(inbox[p])
    BY <2>1, <2>3, Beginning DEF Coming
  <2> QED
    BY <2>2, <2>3 DEF Cut
<1> QED
  BY <1>1 DEF NothingTold

\* A send that fails ends the task.
LEMMA SendFailsDone ==
  ASSUME TypeOK, NEW p \in Sides, SendFails(p)
  PROVE  /\ FailsWith(p, "lost") /\ UNCHANGED inbox
         /\ pc'[p] = "over" /\ pc'[Other(p)] = pc[Other(p)] /\ pc' = [pc EXCEPT ![p] = "over"]
BY Moves DEF SendFails

-----------------------------------------------------------------------------
(* What the sides know, after a step                                       *)

\* A move that needs no more knowledge than the side has.
CalmMove(p) ==
  \/ pc'[p] = pc[p]
  \/ pc'[p] \in {"closing", "over"}
  \/ pc[p] \in {"start", "nonce"} /\ pc'[p] \in {"nonce", "token"}
  \/ pc[p] = "prompt" /\ pc'[p] = "pinSent"
  \/ pc[p] \in {"selection", "sending", "chunks", "last"} /\ pc'[p] \in {"sending", "chunks", "last"}
  \/ pc[p] \in {"receiving", "result"} /\ pc'[p] \in {"receiving", "result"}

\* A calm step takes nothing away from what the sides know.
LEMMA KnowsCalm ==
  ASSUME Knows, NothingTold, UNCHANGED <<pins, selection>>, \A p \in Sides : CalmMove(p)
  PROVE  Knows'
<1>1. "sender" \in Sides /\ "receiver" \in Sides
  BY DEF Sides
<1>2. SenderKnows'
  <2>1. \A m \in Coming("sender")' : m \in Coming("sender") \/ m.type \notin {"tokenReply", "pinText"}
    BY <1>1 DEF NothingTold, Telling
  <2>2. CalmMove("sender") /\ SenderKnows
    BY <1>1 DEF Knows
  <2> QED
    BY <2>1, <2>2 DEF SenderKnows, Verified, Shown, CalmMove, pins
<1>3. ReceiverKnows'
  <2>1. \A m \in Coming("receiver")' : m \in Coming("receiver") \/ m.type # "pinString"
    BY <1>1 DEF NothingTold, Telling
  <2>2. CalmMove("receiver") /\ ReceiverKnows
    BY <1>1 DEF Knows
  <2> QED
    BY <2>1, <2>2 DEF ReceiverKnows, Verified, Shown, CalmMove, pins
<1>4. GuessInv'
  BY DEF Knows, GuessInv, CalmMove, Shown, pins
<1> QED
  BY <1>2, <1>3, <1>4 DEF Knows

\* The steps that are calm.
LEMMA CalmSteps ==
  ASSUME TypeOK, Points, NEW p \in Sides,
         \/ SendNonce \/ ReceiveNonce(p) \/ Misread(p) \/ SendPin(p) \/ ReceiveSelection
         \/ Decline \/ (\E f \in Files : SendFile(f) \/ Report(f)) \/ SendChunk \/ EndFile
         \/ SendDelimiter \/ ReceiveLast \/ EndOfFile \/ SendStatus \/ ReceiveHeader
         \/ ReceiveChunk \/ Close(p) \/ Break \/ Disconnected(p) \/ Desert \/ SendFails(p)
  PROVE  BoxesOK' /\ NothingTold /\ UNCHANGED <<selection>> /\ \A q \in Sides : CalmMove(q)
<1>1. /\ BoxesOK /\ "sender" \in Sides /\ "receiver" \in Sides
      /\ Other("sender") = "receiver" /\ Other("receiver") = "sender" /\ Other(p) \in Sides
      /\ \A q \in Sides : q = p \/ q = Other(p)
  BY DEF TypeOK, BoxesOK, Other, Sides
<1>2. \A q \in Sides : Coming(q)' = Coming(q) => \A m \in Coming(q)' : m \in Coming(q)
  OBVIOUS
<1>3. UNCHANGED inbox => NothingTold /\ BoxesOK'
  BY <1>1 DEF NothingTold, Coming, BoxesOK
<1>4. UNCHANGED pc => \A q \in Sides : CalmMove(q)
  BY DEF CalmMove
<1>5. /\ <<>> \in Seq(Messages) /\ \A i \in 1..Len(<<>>) : <<>>[i].type \notin Telling
      /\ \A m \in Messages : /\ <<m>> \in Seq(Messages)
                             /\ m.type \notin Telling => \A i \in 1..Len(<<m>>) : <<m>>[i].type \notin Telling
  OBVIOUS
<1>6. ASSUME NEW q \in Sides, NEW at, Answers(q, <<>>, at) \/ Sends(q, <<>>, at)
      PROVE  NothingTold /\ BoxesOK'
  BY <1>1, <1>5, <1>6, Silent DEF Answers, Sends
<1>7. ASSUME NEW q \in Sides, NEW at, NEW m \in Messages, m.type \notin Telling,
             Answers(q, <<m>>, at) \/ Sends(q, <<m>>, at)
      PROVE  NothingTold /\ BoxesOK'
  BY <1>1, <1>5, <1>7, Silent DEF Answers, Sends
<1>8. /\ Nonce.type \notin Telling /\ Token(LocalToken("sender")).type \notin Telling
      /\ Delimiter.type \notin Telling /\ Declined.type \notin Telling
      /\ \A g \in Pins : Pin(g).type \notin Telling
      /\ \A f \in Files : Header(f).type \notin Telling
      /\ \A f \in Files, i \in 1..MaxChunks : Chunk(f, i).type \notin Telling
      /\ \A f \in Files, ok \in BOOLEAN : Status(f, ok).type \notin Telling
  BY DEF Nonce, Token, Delimiter, Declined, Pin, Header, Chunk, Status, Telling
<1>9. ASSUME NEW q \in Sides, NEW at, pc' = [pc EXCEPT ![q] = at]
      PROVE  pc'[q] = at /\ \A r \in Sides : r # q => pc'[r] = pc[r]
  BY <1>9 DEF TypeOK
<1>10. ASSUME NEW q \in Sides, CalmMove(q), \A r \in Sides : r # q => pc'[r] = pc[r]
       PROVE  \A r \in Sides : CalmMove(r)
  BY <1>10 DEF CalmMove
<1>11. ASSUME NEW q \in Sides, NEW at, NEW msgs, Answers(q, msgs, at) \/ Sends(q, msgs, at)
       PROVE  pc'[q] = at /\ \A r \in Sides : r # q => pc'[r] = pc[r]
  BY <1>9, <1>11 DEF Answers, Sends
<1>12. CASE SendNonce
  <2>1. pc["sender"] = "start" /\ Sends("sender", <<Nonce>>, "nonce")
    BY <1>12, SendNonceDone
  <2>2. CalmMove("sender")
    BY <2>1 DEF Sends, CalmMove
  <2> QED
    BY <1>1, <1>7, <1>8, <1>10, <1>11, <1>12, <2>1, <2>2, MessagesMade DEF SendNonce, receiving
<1>13. CASE ReceiveNonce(p)
  <2>1. PICK m \in {Nonce, Token(LocalToken("sender"))} : Answers(p, <<m>>, "token")
    BY <1>1, <1>13, ReceiveNonceDone DEF Sides
  <2>2. pc[p] = "nonce"
    BY <1>13 DEF ReceiveNonce, Reads
  <2>3. CalmMove(p) /\ m \in Messages /\ m.type \notin Telling
    BY <1>8, <2>1, <2>2, MessagesMade DEF Answers, CalmMove
  <2> QED
    BY <1>1, <1>7, <1>10, <1>11, <1>13, <2>1, <2>3 DEF ReceiveNonce, receiving
<1>14. CASE Misread(p)
  <2>1. Answers(p, <<>>, "over")
    BY <1>14, MisreadDone
  <2>2. CalmMove(p)
    BY <2>1 DEF Answers, CalmMove
  <2> QED
    BY <1>6, <1>10, <1>11, <1>14, <2>1, <2>2 DEF Misread, receiving
<1>15. CASE SendPin(p)
  <2>1. pc[p] = "prompt" /\ \E g \in Pins : Sends(p, <<Pin(g)>>, "pinSent")
    BY <1>15, SendPinDone
  <2>2. CalmMove(p)
    BY <2>1 DEF Sends, CalmMove
  <2> QED
    BY <1>7, <1>8, <1>10, <1>11, <1>15, <2>1, <2>2, MessagesMade DEF SendPin, receiving
<1>16. CASE ReceiveSelection
  <2>1. PICK at \in {"closing", "sending"} : Answers("sender", <<>>, at)
    BY <1>16, ReceiveSelectionDone
  <2>2. pc["sender"] = "selection"
    BY <1>16 DEF ReceiveSelection, Reads
  <2>3. CalmMove("sender")
    BY <2>1, <2>2 DEF Answers, CalmMove
  <2> QED
    BY <1>1, <1>6, <1>10, <1>11, <1>16, <2>1, <2>3 DEF ReceiveSelection, receiving
<1>17. CASE Decline
  <2>1. Sends("receiver", <<Declined>>, "closing") \/ Sends("receiver", <<>>, "closing")
    BY <1>17, DeclineDone
  <2>2. CalmMove("receiver")
    BY <2>1 DEF Sends, CalmMove
  <2> QED
    BY <1>1, <1>6, <1>7, <1>8, <1>10, <1>11, <1>17, <2>1, <2>2, MessagesMade DEF Decline, receiving
<1>18. CASE \E f \in Files : SendFile(f) \/ Report(f)
  <2>1. PICK f \in Files : SendFile(f) \/ Report(f)
    BY <1>18
  <2>2. CASE SendFile(f)
    <3>1. /\ pc["sender"] = "sending"
          /\ Sends("sender", <<Header(f)>>, "chunks") \/ UNCHANGED <<inbox, pc>>
      BY <2>2, SendFileDone
    <3>2. CASE Sends("sender", <<Header(f)>>, "chunks")
      <4>1. CalmMove("sender")
        BY <3>1, <3>2 DEF Sends, CalmMove
      <4> QED
        BY <1>1, <1>7, <1>8, <1>10, <1>11, <2>2, <3>2, <4>1, MessagesMade DEF SendFile, receiving
    <3>3. CASE UNCHANGED <<inbox, pc>>
      BY <1>3, <1>4, <2>2, <3>3 DEF SendFile, receiving
    <3> QED
      BY <3>1, <3>2, <3>3
  <2>3. CASE Report(f)
    BY <1>3, <1>4, <2>3 DEF Report, receiving
  <2> QED
    BY <2>1, <2>2, <2>3
<1>19. CASE SendChunk
  <2>1. PICK i \in 1..MaxChunks : cur \in Files /\ Sends("sender", <<Chunk(cur, i)>>, "chunks") /\ UNCHANGED pc
    BY <1>19, SendChunkDone
  <2> QED
    BY <1>1, <1>4, <1>7, <1>8, <1>19, <2>1, MessagesMade DEF SendChunk, receiving
<1>20. CASE EndFile
  <2>1. pc["sender"] = "chunks" /\ pc' = [pc EXCEPT !["sender"] = "sending"]
    BY <1>20 DEF EndFile, Goto
  <2>2. CalmMove("sender")
    BY <1>1, <1>9, <2>1 DEF CalmMove
  <2> QED
    BY <1>1, <1>3, <1>9, <1>10, <1>20, <2>1, <2>2 DEF EndFile, receiving
<1>21. CASE SendDelimiter
  <2>1. pc["sender"] = "sending" /\ Sends("sender", <<Delimiter>>, "last")
    BY <1>21, SendDelimiterDone
  <2>2. CalmMove("sender")
    BY <2>1 DEF Sends, CalmMove
  <2> QED
    BY <1>1, <1>7, <1>8, <1>10, <1>11, <1>21, <2>1, <2>2, MessagesMade DEF SendDelimiter, receiving
<1>22. CASE ReceiveLast
  <2>1. Answers("sender", <<>>, "closing")
    BY <1>22, ReceiveLastDone
  <2>2. CalmMove("sender")
    BY <2>1 DEF Answers, CalmMove
  <2> QED
    BY <1>1, <1>6, <1>10, <1>11, <1>22, <2>1, <2>2 DEF ReceiveLast, receiving
<1>23. CASE EndOfFile
  <2>1. pc["receiver"] = "receiving" /\ Answers("receiver", <<>>, "result")
    BY <1>23, EndOfFileDone
  <2>2. CalmMove("receiver")
    BY <2>1 DEF Answers, CalmMove
  <2> QED
    BY <1>1, <1>6, <1>10, <1>11, <1>23, <2>1, <2>2 DEF EndOfFile
<1>24. CASE SendStatus
  <2>1. PICK ok \in BOOLEAN, at \in {"closing", "receiving"} :
          pc["receiver"] = "result" /\ file \in Files /\ Sends("receiver", <<Status(file, ok)>>, at)
    BY <1>24, SendStatusDone
  <2>2. CalmMove("receiver")
    BY <2>1 DEF Sends, CalmMove
  <2> QED
    BY <1>1, <1>7, <1>8, <1>10, <1>11, <1>24, <2>1, <2>2, MessagesMade DEF SendStatus
<1>25. CASE ReceiveHeader
  <2>1. PICK at \in {"over", "receiving"} : pc["receiver"] = "receiving" /\ Answers("receiver", <<>>, at)
    BY <1>25, ReceiveHeaderDone
  <2>2. CalmMove("receiver")
    BY <2>1 DEF Answers, CalmMove
  <2> QED
    BY <1>1, <1>6, <1>10, <1>11, <1>25, <2>1, <2>2 DEF ReceiveHeader
<1>26. CASE ReceiveChunk
  <2>1. PICK at \in {"over", "receiving"} : pc["receiver"] = "receiving" /\ Answers("receiver", <<>>, at)
    BY <1>26, ReceiveChunkDone DEF ChunkDropped
  <2>2. CalmMove("receiver")
    BY <2>1 DEF Answers, CalmMove
  <2> QED
    BY <1>1, <1>6, <1>10, <1>11, <1>26, <2>1, <2>2 DEF ReceiveChunk
<1>27. CASE Close(p)
  <2>1. Cut /\ pc'[p] = "over" /\ pc' = [pc EXCEPT ![p] = "over"]
    BY <1>27, CloseDone
  <2>2. CalmMove(p)
    BY <2>1 DEF CalmMove
  <2> QED
    BY <1>9, <1>10, <1>27, <2>1, <2>2, CutSilent DEF Close, receiving, Cut
<1>28. CASE Break
  BY <1>4, <1>28, BreakDone, CutSilent DEF Break, receiving, Cut
<1>29. CASE Disconnected(p) \/ Desert
  BY <1>3, <1>4, <1>29 DEF Disconnected, Desert, receiving
<1>30. CASE SendFails(p)
  <2>1. UNCHANGED inbox /\ pc'[p] = "over" /\ pc' = [pc EXCEPT ![p] = "over"]
    BY <1>30, SendFailsDone
  <2>2. CalmMove(p)
    BY <2>1 DEF CalmMove
  <2> QED
    BY <1>3, <1>9, <1>10, <1>30, <2>1, <2>2 DEF SendFails, receiving
<1> QED
  BY <1>12, <1>13, <1>14, <1>15, <1>16, <1>17, <1>18, <1>19, <1>20, <1>21, <1>22, <1>23,
     <1>24, <1>25, <1>26, <1>27, <1>28, <1>29, <1>30

\* The verdicts on PINs.
LEMMA VerdictKinds ==
  ASSUME NEW r \in Verdicts
  PROVE  /\ PinReply("sender", r) \in Messages /\ PinReply("receiver", r) \in Messages
         /\ PinReply("sender", r).type = "pinString" /\ PinReply("receiver", r).type = "pinText"
         /\ PinReply("sender", r).result = r /\ PinReply("receiver", r).result = r
BY MessagesMade DEF PinReply, Sides

\* The sender offers its files when it knows everything.
LEMMA KnowsSendFileList ==
  ASSUME TypeOK, Knows, SendFileList
  PROVE  BoxesOK' /\ Knows'
<1>1. BoxesOK /\ Other("sender") = "receiver" /\ "sender" \in Sides /\ "ok" \in Verdicts
  BY DEF TypeOK, BoxesOK, Other, Sides, Verdicts
<1>2. PICK m \in Messages : m = PinReply("sender", "ok")
  BY <1>1, VerdictKinds
<1>3. pc["sender"] = "offer" /\ Sends("sender", <<m>>, "selection") /\ m.type = "pinString"
  BY <1>1, <1>2, SendFileListDone, VerdictKinds
<1>4. Coming("sender")' \subseteq Coming("sender") /\ Coming("receiver")' \subseteq Coming("receiver") \cup {m}
  BY <1>1, <1>3, ComingAfter
<1>5. UNCHANGED <<pins, selection>> /\ pc'["sender"] = "selection" /\ pc'["receiver"] = pc["receiver"]
  BY <1>1, <1>3 DEF SendFileList, Sends, receiving
<1>6. Verified("sender") /\ Shown("sender") /\ Verified("receiver") /\ Shown("receiver")
  BY <1>3 DEF Knows, SenderKnows
<1>7. SenderKnows'
  BY <1>3, <1>4, <1>5, <1>6 DEF Knows, SenderKnows, Verified, Shown, pins
<1>8. ReceiverKnows'
  BY <1>3, <1>4, <1>5, <1>6 DEF Knows, ReceiverKnows, Verified, Shown, pins
<1>9. GuessInv'
  BY <1>5 DEF Knows, GuessInv, Sides, Shown, pins
<1> QED
  BY <1>3, <1>7, <1>8, <1>9 DEF Knows, Sends

\* The receiver learns from the list, or from the wish for a PIN, how far the sender is.
LEMMA KnowsReceiveFileList ==
  ASSUME TypeOK, Knows, ReceiveFileList
  PROVE  BoxesOK' /\ Knows'
<1>1. BoxesOK /\ Other("receiver") = "sender" /\ "receiver" \in Sides
  BY DEF TypeOK, BoxesOK, Other, Sides
<1>2. /\ pc["receiver"] = "list" /\ Head(inbox["receiver"]) \in Coming("receiver")
      /\ Head(inbox["receiver"]).type = "pinString"
  BY <1>1, Read DEF ReceiveFileList, Expects
<1>3. PICK at \in {"prompt", "over", "select"} :
        /\ Answers("receiver", <<>>, at)
        /\ at = "select" => Head(inbox["receiver"]).result = "ok"
  BY ReceiveFileListDone
<1>4. Coming("sender")' \subseteq Coming("sender") /\ Coming("receiver")' \subseteq Coming("receiver")
  BY <1>1, <1>3, ComingAfter
<1>5. UNCHANGED <<pins, selection>> /\ pc'["receiver"] = at /\ pc'["sender"] = pc["sender"]
  BY <1>1, <1>3 DEF ReceiveFileList, Answers, receiving
<1>6. Verified("sender") /\ Verified("receiver") /\ Shown("receiver") /\ (at = "select" => Shown("sender"))
  BY <1>2, <1>3 DEF Knows, ReceiverKnows
<1>7. SenderKnows'
  BY <1>4, <1>5 DEF Knows, SenderKnows, Verified, Shown, pins
<1>8. ReceiverKnows'
  BY <1>4, <1>5, <1>6 DEF Knows, ReceiverKnows, Verified, Shown, pins, Sides
<1>9. GuessInv'
  BY <1>5 DEF Knows, GuessInv, Sides, Shown, pins
<1> QED
  BY <1>3, <1>7, <1>8, <1>9 DEF Knows, Answers

\* The receiver chooses files when it knows everything.
LEMMA KnowsSendSelection ==
  ASSUME TypeOK, Knows, SendSelection
  PROVE  BoxesOK' /\ Knows'
<1>1. BoxesOK /\ Other("receiver") = "sender" /\ "receiver" \in Sides
  BY DEF TypeOK, BoxesOK, Other, Sides
<1>2. PICK m \in Messages : m = FileTokens(selection') /\ m.type = "fileTokens"
  BY SendSelectionDone, MessagesMade DEF FileTokens
<1>3. pc["receiver"] = "select" /\ Sends("receiver", <<m>>, "receiving")
  BY <1>2, SendSelectionDone
<1>4. Coming("receiver")' \subseteq Coming("receiver") /\ Coming("sender")' \subseteq Coming("sender") \cup {m}
  BY <1>1, <1>3, ComingAfter
<1>5. UNCHANGED pins /\ pc'["receiver"] = "receiving" /\ pc'["sender"] = pc["sender"]
  BY <1>1, <1>3 DEF SendSelection, Sends
<1>6. \A p \in Sides : Verified(p) /\ Shown(p)
  BY <1>3 DEF Knows, ReceiverKnows
<1>7. SenderKnows'
  BY <1>2, <1>4, <1>5 DEF Knows, SenderKnows, Verified, Shown, pins
<1>8. ReceiverKnows'
  BY <1>1, <1>4, <1>5, <1>6 DEF Knows, ReceiverKnows, Verified, Shown, pins
<1>9. GuessInv'
  BY <1>5 DEF Knows, GuessInv, Sides, Shown, pins
<1> QED
  BY <1>3, <1>7, <1>8, <1>9 DEF Knows, Sends

\* The sender's step to its own PIN.
LEMMA KnowsSenderOwns ==
  ASSUME TypeOK, Knows, SenderOwns, UNCHANGED <<pins, selection>>,
         Verified("sender"), Verified("receiver"), Shown("receiver")
  PROVE  BoxesOK' /\ Knows'
<1>1. BoxesOK /\ Other("sender") = "receiver" /\ "sender" \in Sides
      /\ "tooMany" \in Verdicts /\ "required" \in Verdicts
  BY DEF TypeOK, BoxesOK, Other, Sides, Verdicts
<1>2. CASE Shown("sender") /\ Answers("sender", <<>>, "offer")
  <2>1. Coming("sender")' \subseteq Coming("sender") /\ Coming("receiver")' \subseteq Coming("receiver")
    BY <1>1, <1>2, ComingAfter
  <2>2. pc'["sender"] = "offer" /\ pc'["receiver"] = pc["receiver"]
    BY <1>1, <1>2 DEF Answers
  <2>3. SenderKnows'
    BY <1>2, <2>1, <2>2 DEF Knows, SenderKnows, Verified, Shown, pins
  <2>4. ReceiverKnows'
    BY <2>1, <2>2 DEF Knows, ReceiverKnows, Verified, Shown, pins
  <2>5. GuessInv'
    BY <2>2 DEF Knows, GuessInv, Sides, Shown, pins
  <2> QED
    BY <1>2, <2>3, <2>4, <2>5 DEF Knows, Answers
<1>3. ASSUME NEW at \in {"guess", "over"}, NEW r \in {"required", "tooMany"},
             Answers("sender", <<PinReply("sender", r)>>, at),
             at = "guess" => ~Shown("sender") /\ tries["sender"] < MaxTries
      PROVE  BoxesOK' /\ Knows'
  <2>1. PICK m \in Messages : m = PinReply("sender", r) /\ m.type = "pinString" /\ m.result # "ok"
    BY <1>1, VerdictKinds
  <2>2. Answers("sender", <<m>>, at)
    BY <1>3, <2>1
  <2>3. Coming("sender")' \subseteq Coming("sender") /\ Coming("receiver")' \subseteq Coming("receiver") \cup {m}
    BY <1>1, <2>2, ComingAfter
  <2>4. pc'["sender"] = at /\ pc'["receiver"] = pc["receiver"]
    BY <1>1, <2>2 DEF Answers
  <2>5. SenderKnows'
    BY <2>3, <2>4 DEF Knows, SenderKnows, Verified, Shown, pins
  <2>6. ReceiverKnows'
    BY <2>1, <2>3, <2>4 DEF Knows, ReceiverKnows, Verified, Shown, pins
  <2>7. GuessInv'
    BY <1>3, <2>4 DEF Knows, GuessInv, Sides, Shown, pins
  <2> QED
    BY <2>2, <2>5, <2>6, <2>7 DEF Knows, Answers
<1> QED
  BY <1>2, <1>3 DEF SenderOwns

\* The sender learns from the receiver's token whether a PIN is asked for.
LEMMA KnowsReceiveTokenReply ==
  ASSUME TypeOK, Knows, ReceiveTokenReply
  PROVE  BoxesOK' /\ Knows'
<1>1. BoxesOK /\ Other("sender") = "receiver" /\ "sender" \in Sides
  BY DEF TypeOK, BoxesOK, Other, Sides
<1>2. /\ pc["sender"] = "token" /\ Head(inbox["sender"]) \in Coming("sender")
      /\ Head(inbox["sender"]).type = "tokenReply" /\ UNCHANGED <<pins, selection>>
  BY <1>1, Read DEF ReceiveTokenReply, Expects, receiving
<1>3. CASE Answers("sender", <<>>, "over")
  <2>0. <<>> \in Seq(Messages) /\ \A i \in 1..Len(<<>>) : <<>>[i].type \notin Telling
    OBVIOUS
  <2>1. NothingTold
    BY <1>1, <1>3, <2>0, Silent
  <2>2. \A p \in Sides : CalmMove(p)
    BY <1>1, <1>3 DEF Answers, CalmMove, Sides
  <2> QED
    BY <1>2, <1>3, <2>1, <2>2, KnowsCalm DEF Answers
<1>4. CASE Head(inbox["sender"]) # Invalid /\ Verified("sender")
  <2>1. Verified("receiver") /\ (Head(inbox["sender"]).result = "ok" => Shown("receiver"))
    BY <1>2, <1>4 DEF Knows, SenderKnows
  <2>2. CASE Head(inbox["sender"]).result = "ok" /\ SenderOwns
    BY <1>2, <1>4, <2>1, <2>2, KnowsSenderOwns
  <2>3. CASE Answers("sender", <<>>, "prompt")
    <3>1. Coming("sender")' \subseteq Coming("sender") /\ Coming("receiver")' \subseteq Coming("receiver")
      BY <1>1, <2>3, ComingAfter
    <3>2. pc'["sender"] = "prompt" /\ pc'["receiver"] = pc["receiver"]
      BY <1>1, <2>3 DEF Answers
    <3>3. SenderKnows'
      BY <1>2, <1>4, <3>1, <3>2 DEF Knows, SenderKnows, Verified, Shown, pins
    <3>4. ReceiverKnows'
      BY <1>2, <3>1, <3>2 DEF Knows, ReceiverKnows, Verified, Shown, pins
    <3>5. GuessInv'
      BY <1>2, <3>2 DEF Knows, GuessInv, Sides, Shown, pins
    <3> QED
      BY <2>3, <3>3, <3>4, <3>5 DEF Knows, Answers
  <2> QED
    BY <1>3, <2>2, <2>3, ReceiveTokenReplyDone
<1> QED
  BY <1>3, <1>4, ReceiveTokenReplyDone

\* The receiver sends its token to a sender it is content with.
LEMMA KnowsReceiveToken ==
  ASSUME TypeOK, Knows, ReceiveToken
  PROVE  BoxesOK' /\ Knows'
<1>1. BoxesOK /\ Other("receiver") = "sender" /\ "receiver" \in Sides
  BY DEF TypeOK, BoxesOK, Other, Sides
<1>2. pc["receiver"] = "token" /\ UNCHANGED <<pins, selection>>
  BY <1>1, Read DEF ReceiveToken, receiving
<1>3. tries["receiver"] = 0
  BY <1>1, <1>2 DEF Knows, GuessInv
<1>4. CASE Answers("receiver", <<Invalid>>, "over")
  <2>1. Invalid \in Messages
    BY MessagesMade
  <2>2. Coming("receiver")' \subseteq Coming("receiver") /\ Coming("sender")' \subseteq Coming("sender") \cup {Invalid}
    BY <1>1, <1>4, <2>1, ComingAfter
  <2>3. pc'["receiver"] = "over" /\ pc'["sender"] = pc["sender"]
    BY <1>1, <1>4 DEF Answers
  <2>4. Invalid.type = "tokenReply"
    BY DEF Invalid
  <2>5. SenderKnows'
    BY <1>2, <2>2, <2>3, <2>4 DEF Knows, SenderKnows, Verified, Shown, pins
  <2>6. ReceiverKnows'
    BY <1>2, <2>2, <2>3 DEF Knows, ReceiverKnows, Verified, Shown, pins
  <2>7. GuessInv'
    BY <1>2, <2>3 DEF Knows, GuessInv, Sides, Shown, pins
  <2> QED
    BY <1>4, <2>5, <2>6, <2>7 DEF Knows, Answers
<1>5. ASSUME NEW t \in Messages, NEW m \in Messages, NEW at \in {"list", "over", "guess"},
             Verified("receiver"), t.type = "tokenReply",
             t.result = "ok" => Shown("receiver"),
             at = "list" => Shown("receiver"),
             at = "guess" => ~Shown("receiver") /\ tries["receiver"] < MaxTries,
             BoxesOK', pc'["receiver"] = at, pc'["sender"] = pc["sender"],
             Coming("receiver")' \subseteq Coming("receiver"),
             Coming("sender")' \subseteq Coming("sender") \cup {t, m},
             m = t \/ (m.type = "pinText" /\ (m.result = "ok" => Shown("receiver")))
      PROVE  BoxesOK' /\ Knows'
  <2>1. SenderKnows'
    BY <1>2, <1>5 DEF Knows, SenderKnows, Verified, Shown, pins
  <2>2. ReceiverKnows'
    BY <1>2, <1>5 DEF Knows, ReceiverKnows, Verified, Shown, pins
  <2>3. GuessInv'
    BY <1>2, <1>5 DEF Knows, GuessInv, Sides, Shown, pins
  <2> QED
    BY <1>5, <2>1, <2>2, <2>3 DEF Knows
<1>6. CASE Verified("receiver") /\
           \E t \in Messages :
             /\ t.type = "tokenReply" /\ t # Invalid /\ t.token = LocalToken("receiver")
             /\ t.result = IF pin["receiver"] = NoPin THEN "ok" ELSE "pinRequired"
             /\ \/ pin["receiver"] = NoPin /\ Answers("receiver", <<t>>, "list")
                \/ /\ pin["receiver"] # NoPin /\ Shown("receiver")
                   /\ Answers("receiver", <<t, PinReply("receiver", "ok")>>, "list")
                \/ /\ ~Shown("receiver") /\ tries["receiver"] >= MaxTries
                   /\ Answers("receiver", <<t, PinReply("receiver", "tooMany")>>, "over")
                \/ /\ ~Shown("receiver") /\ tries["receiver"] < MaxTries
                   /\ \/ tries["receiver"] > 0 /\ Answers("receiver", <<t, PinReply("receiver", "required")>>, "guess")
                      \/ tries["receiver"] = 0 /\ Answers("receiver", <<t>>, "guess")
  <2>1. PICK t \in Messages :
             /\ t.type = "tokenReply" /\ t # Invalid
             /\ t.result = IF pin["receiver"] = NoPin THEN "ok" ELSE "pinRequired"
             /\ \/ pin["receiver"] = NoPin /\ Answers("receiver", <<t>>, "list")
                \/ /\ pin["receiver"] # NoPin /\ Shown("receiver")
                   /\ Answers("receiver", <<t, PinReply("receiver", "ok")>>, "list")
                \/ /\ ~Shown("receiver") /\ tries["receiver"] >= MaxTries
                   /\ Answers("receiver", <<t, PinReply("receiver", "tooMany")>>, "over")
                \/ /\ ~Shown("receiver") /\ tries["receiver"] < MaxTries
                   /\ \/ tries["receiver"] > 0 /\ Answers("receiver", <<t, PinReply("receiver", "required")>>, "guess")
                      \/ tries["receiver"] = 0 /\ Answers("receiver", <<t>>, "guess")
    BY <1>6
  <2>2. t.result = "ok" => Shown("receiver")
    BY <2>1 DEF Shown
  <2>3. \A r \in {"ok", "tooMany"} : PinReply("receiver", r) \in Messages
          /\ PinReply("receiver", r).type = "pinText" /\ PinReply("receiver", r).result = r
    BY VerdictKinds DEF Verdicts
  <2>4. CASE \E at \in {"list", "guess"} :
               /\ Answers("receiver", <<t>>, at)
               /\ at = "list" => Shown("receiver")
               /\ at = "guess" => ~Shown("receiver") /\ tries["receiver"] < MaxTries
    <3>1. PICK at \in {"list", "guess"} :
               /\ Answers("receiver", <<t>>, at)
               /\ at = "list" => Shown("receiver")
               /\ at = "guess" => ~Shown("receiver") /\ tries["receiver"] < MaxTries
      BY <2>4
    <3>2. Coming("receiver")' \subseteq Coming("receiver")
          /\ Coming("sender")' \subseteq Coming("sender") \cup {t, t}
      BY <1>1, <3>1, ComingAfter
    <3>3. BoxesOK' /\ pc'["receiver"] = at /\ pc'["sender"] = pc["sender"]
      BY <1>1, <3>1 DEF Answers
    <3> QED
      BY <1>5, <1>6, <2>1, <2>2, <3>1, <3>2, <3>3
  <2>5. CASE \E at \in {"list", "over"}, r \in {"ok", "tooMany"} :
               /\ Answers("receiver", <<t, PinReply("receiver", r)>>, at)
               /\ at = "list" \/ r = "ok" => Shown("receiver")
    <3>1. PICK at \in {"list", "over"}, r \in {"ok", "tooMany"} :
               /\ Answers("receiver", <<t, PinReply("receiver", r)>>, at)
               /\ at = "list" \/ r = "ok" => Shown("receiver")
      BY <2>5
    <3>2. PICK m \in Messages : m = PinReply("receiver", r) /\ m.type = "pinText" /\ m.result = r
      BY <2>3
    <3>3. Answers("receiver", <<t, m>>, at)
      BY <3>1, <3>2
    <3>4. Coming("receiver")' \subseteq Coming("receiver")
          /\ Coming("sender")' \subseteq Coming("sender") \cup {t, m}
      BY <1>1, <3>3, ComingAfter
    <3>5. BoxesOK' /\ pc'["receiver"] = at /\ pc'["sender"] = pc["sender"]
      BY <1>1, <3>3 DEF Answers
    <3>6. m.type = "pinText" /\ (m.result = "ok" => Shown("receiver"))
      BY <3>1, <3>2
    <3> QED
      BY <1>5, <1>6, <2>1, <2>2, <3>1, <3>4, <3>5, <3>6
  <2> QED
    BY <1>3, <2>1, <2>4, <2>5 DEF Shown
<1> QED
  BY <1>4, <1>6, ReceiveTokenDone

\* A side that was shown its PIN goes on; the other learns of it.
LEMMA KnowsReceivePin ==
  ASSUME TypeOK, Knows, NEW p \in Sides, ReceivePin(p)
  PROVE  BoxesOK' /\ Knows' /\ tries' \in [Sides -> 0..MaxTries] /\ shown' \in [Sides -> Pins \cup {EmptyPin}]
<1>1. BoxesOK /\ Other("sender") = "receiver" /\ Other("receiver") = "sender"
      /\ "sender" \in Sides /\ "receiver" \in Sides
  BY DEF TypeOK, BoxesOK, Other, Sides
<1>2. /\ shown'[p] \in Pins /\ tries'[p] \in 0..MaxTries
      /\ shown' = [shown EXCEPT ![p] = shown'[p]] /\ tries' = [tries EXCEPT ![p] = tries'[p]]
      /\ pin[p] # NoPin /\ ~Shown(p) /\ pc[p] = "guess"
      /\ UNCHANGED <<pin, expected, selection>>
  <2>1. GuessInv /\ pc[p] = "guess" /\ UNCHANGED <<pin, expected, selection>>
    BY DEF Knows, ReceivePin, Reads, receiving
  <2>2. MaxTries \in Nat /\ \A i \in 1..MaxTries : i \in 0..MaxTries
    BY RtcAssumption
  <2> QED
    BY <2>1, <2>2, ReceivePinDone DEF Shown
<1>3. tries' \in [Sides -> 0..MaxTries] /\ shown' \in [Sides -> Pins \cup {EmptyPin}]
      /\ shown'[Other(p)] = shown[Other(p)] /\ tries'[Other(p)] = tries[Other(p)] /\ Other(p) \in Sides
  BY <1>2 DEF TypeOK, Other, Sides
<1>4. PICK m \in Messages, r \in Verdicts, at \in {"offer", "list", "over", "guess"} :
        /\ m = PinReply(p, r)
        /\ Coming(p)' \subseteq Coming(p) /\ Coming(Other(p))' \subseteq Coming(Other(p)) \cup {m}
        /\ BoxesOK' /\ pc'[p] = at /\ pc'[Other(p)] = pc[Other(p)]
        /\ r = "ok" \/ at \in {"offer", "list"} => shown'[p] = pin[p]
        /\ at \in {"offer", "list"} => at = Content(p)
        /\ at = "guess" => shown'[p] # pin[p] /\ tries'[p] < MaxTries
  <2>1. \A r \in {"ok", "tooMany", "required"} : r \in Verdicts /\ PinReply(p, r) \in Messages
    BY <1>1, VerdictKinds DEF Verdicts, Sides
  <2>2. GuessInv
    BY DEF Knows
  <2>3. CASE shown'[p] = pin[p] /\ Answers(p, IF p = "sender" THEN <<>> ELSE <<PinReply(p, "ok")>>, Content(p))
    <3>1. PICK m \in Messages : m = PinReply(p, "ok")
      BY <2>1
    <3>2. Answers(p, <<>>, Content(p)) \/ Answers(p, <<m>>, Content(p))
      BY <2>3, <3>1
    <3>3. Coming(p)' \subseteq Coming(p) /\ Coming(Other(p))' \subseteq Coming(Other(p)) \cup {m}
      BY <1>1, <3>2, ComingAfter
    <3>4. BoxesOK' /\ pc'[p] = Content(p) /\ pc'[Other(p)] = pc[Other(p)] /\ Content(p) \in {"offer", "list"}
      BY <3>2 DEF Answers, Content
    <3> QED
      BY <2>1, <2>3, <3>1, <3>3, <3>4
  <2>4. ASSUME NEW r \in {"tooMany", "required"}, NEW at \in {"over", "guess"},
               Answers(p, <<PinReply(p, r)>>, at),
               at = "guess" => shown'[p] # pin[p] /\ tries'[p] < MaxTries
        PROVE  \E m \in Messages :
                 /\ m = PinReply(p, r)
                 /\ Coming(p)' \subseteq Coming(p) /\ Coming(Other(p))' \subseteq Coming(Other(p)) \cup {m}
                 /\ BoxesOK' /\ pc'[p] = at /\ pc'[Other(p)] = pc[Other(p)]
    <3>1. PICK m \in Messages : m = PinReply(p, r)
      BY <2>1
    <3>2. Answers(p, <<m>>, at)
      BY <2>4, <3>1
    <3>3. Coming(p)' \subseteq Coming(p) /\ Coming(Other(p))' \subseteq Coming(Other(p)) \cup {m}
      BY <1>1, <3>2, ComingAfter
    <3> QED
      BY <3>1, <3>2, <3>3 DEF Answers
  <2>5. CASE Answers(p, <<PinReply(p, "tooMany")>>, "over")
    BY <2>1, <2>4, <2>5
  <2>6. CASE /\ shown'[p] # pin[p] /\ tries'[p] < MaxTries
             /\ Answers(p, <<PinReply(p, "required")>>, "guess")
    BY <2>1, <2>4, <2>6
  <2> QED
    BY <2>2, <2>3, <2>5, <2>6, ReceivePinDone
<1>5. CASE p = "sender"
  <2>1. m.type = "pinString" /\ m.result = r /\ Content(p) = "offer"
    BY <1>4, <1>5, VerdictKinds DEF Content
  <2>2. Verified("sender") /\ Verified("receiver") /\ Shown("receiver") /\ ~Shown("sender")
    BY <1>2, <1>5 DEF Knows, SenderKnows
  <2>3. SenderKnows'
    BY <1>1, <1>2, <1>3, <1>4, <1>5, <2>1, <2>2 DEF Knows, SenderKnows, Verified, Shown
  <2>4. ReceiverKnows'
    BY <1>1, <1>2, <1>3, <1>4, <1>5, <2>1, <2>2 DEF Knows, ReceiverKnows, Verified, Shown, Sides
  <2>5. GuessInv'
    BY <1>1, <1>2, <1>3, <1>4, <1>5, <2>1 DEF Knows, GuessInv, Shown, Sides
  <2> QED
    BY <1>3, <1>4, <2>3, <2>4, <2>5 DEF Knows
<1>6. CASE p = "receiver"
  <2>1. m.type = "pinText" /\ m.result = r /\ Content(p) = "list"
    BY <1>4, <1>6, VerdictKinds DEF Content
  <2>2. Verified("receiver") /\ ~Shown("receiver")
    BY <1>2, <1>6 DEF Knows, ReceiverKnows
  <2>3. SenderKnows'
    BY <1>1, <1>2, <1>3, <1>4, <1>6, <2>1, <2>2 DEF Knows, SenderKnows, Verified, Shown
  <2>4. ReceiverKnows'
    BY <1>1, <1>2, <1>3, <1>4, <1>6, <2>1, <2>2 DEF Knows, ReceiverKnows, Verified, Shown, Sides
  <2>5. GuessInv'
    BY <1>1, <1>2, <1>3, <1>4, <1>6, <2>1 DEF Knows, GuessInv, Shown, Sides
  <2> QED
    BY <1>3, <1>4, <2>3, <2>4, <2>5 DEF Knows
<1> QED
  BY <1>5, <1>6 DEF Sides

\* The verdict on a PIN tells that the other side was shown its own.
LEMMA KnowsReceivePinReply ==
  ASSUME TypeOK, Knows, NEW p \in Sides, ReceivePinReply(p)
  PROVE  BoxesOK' /\ Knows'
<1>1. BoxesOK /\ Other("sender") = "receiver" /\ Other("receiver") = "sender"
      /\ "sender" \in Sides /\ "receiver" \in Sides
  BY DEF TypeOK, BoxesOK, Other, Sides
<1>2. /\ pc[p] = "pinSent" /\ Head(inbox[p]) \in Coming(p) /\ UNCHANGED <<pins, selection>>
      /\ Head(inbox[p]).type = IF p = "sender" THEN "pinText" ELSE "pinString"
  BY <1>1, Read DEF ReceivePinReply, Expects, receiving
<1>3. CASE p = "sender" /\ Head(inbox[p]).result = "ok" /\ SenderOwns
  <2>1. Verified("sender") /\ Verified("receiver") /\ Shown("receiver")
    BY <1>2, <1>3 DEF Knows, SenderKnows
  <2> QED
    BY <1>2, <1>3, <2>1, KnowsSenderOwns
<1>4. ASSUME NEW at \in {"prompt", "over", "select"}, Answers(p, <<>>, at),
             at = "select" => p = "receiver" /\ Head(inbox[p]).result = "ok"
      PROVE  BoxesOK' /\ Knows'
  <2>1. Coming("sender")' \subseteq Coming("sender") /\ Coming("receiver")' \subseteq Coming("receiver")
    BY <1>1, <1>4, ComingAfter DEF Sides
  <2>2. pc'[p] = at /\ pc'[Other(p)] = pc[Other(p)]
    BY <1>4 DEF Answers
  <2>3. SenderKnows'
    BY <1>1, <1>2, <1>4, <2>1, <2>2 DEF Knows, SenderKnows, Verified, Shown, pins, Sides
  <2>4. CASE p = "sender"
    BY <1>1, <1>2, <1>4, <2>1, <2>2, <2>3, <2>4 DEF Knows, ReceiverKnows, GuessInv, Verified, Shown, pins, Sides, Answers
  <2>5. CASE p = "receiver"
    <3>1. Verified("sender") /\ Verified("receiver") /\ Shown("receiver") /\ (at = "select" => Shown("sender"))
      BY <1>2, <1>4, <2>5 DEF Knows, ReceiverKnows
    <3>2. ReceiverKnows'
      BY <1>1, <1>2, <2>1, <2>2, <2>5, <3>1 DEF Knows, ReceiverKnows, Verified, Shown, pins, Sides
    <3>3. GuessInv'
      BY <1>1, <1>2, <2>2, <2>5 DEF Knows, GuessInv, Shown, pins, Sides
    <3> QED
      BY <1>4, <2>3, <3>2, <3>3 DEF Knows, Answers
  <2> QED
    BY <2>4, <2>5 DEF Sides
<1> QED
  BY <1>3, <1>4, ReceivePinReplyDone DEF Sides

-----------------------------------------------------------------------------
(* Types                                                                   *)

\* The steps that leave the files alone, and those that do not.
FilesAlone(p) ==
  \/ SendNonce \/ ReceiveNonce(p) \/ ReceiveToken \/ ReceiveTokenReply
  \/ SendPin(p) \/ ReceivePin(p) \/ ReceivePinReply(p)
  \/ SendFileList \/ ReceiveFileList \/ Decline \/ ReceiveSelection
  \/ SendDelimiter \/ ReceiveLast \/ Misread(p) \/ Close(p) \/ Break \/ Disconnected(p) \/ Desert \/ SendFails(p)

OfFiles ==
  \/ SendSelection \/ (\E f \in Files : SendFile(f) \/ Report(f)) \/ SendChunk \/ EndFile
  \/ EndOfFile \/ SendStatus \/ ReceiveHeader \/ ReceiveChunk

\* Every step leaves the files alone, or is about them.
LEMMA TwoKinds ==
  ASSUME Next
  PROVE  (\E p \in Sides : FilesAlone(p)) \/ OfFiles
BY DEF Next, Task, Decide, FilesAlone, OfFiles, Sides

\* The parts of TypeOK, with the inboxes of BoxesOK.
PinsOK ==
  /\ pin \in [Sides -> Configs] /\ expected \in [Sides -> Sides]
  /\ tries \in [Sides -> 0..MaxTries] /\ shown \in [Sides -> Pins \cup {EmptyPin}]

Whys == {"none", "key", "outOfStep", "tooMany", "delimiter", "lost", "dropped"}
ControlPoints == {"start", "nonce", "token", "guess", "prompt", "pinSent", "offer",
             "list", "selection", "select", "sending", "chunks", "last",
             "receiving", "result", "closing", "over"}
ControlOK ==
  /\ pc \in [Sides -> ControlPoints]
  /\ ended \in [Sides -> {"running", "finished", "error"}]
  /\ why \in [Sides -> Whys]

SendingOK ==
  cur \in Files \cup {None} /\ sent \in [Files -> 0..MaxChunks] /\ begun \in SUBSET Files

ReceivingOK ==
  /\ selection \in SUBSET Files
  /\ file \in Files \cup {None}
  /\ held \in {<<>>} \cup {<<m>> : m \in Messages}
  /\ got \in [Files -> Seq(Files \X (1..MaxChunks))]
  /\ stream \in [Files -> {"none", "open", "closed"}]
  /\ oversized \in SUBSET Files

ReportsOK ==
  /\ results \in {<<>>} \cup {<<[file |-> f, success |-> ok]>> : f \in Files, ok \in BOOLEAN}
  /\ judged \in SUBSET Files
  /\ answers \in SUBSET [file : Files, success : BOOLEAN, about : Files]

\* TypeOK is the conjunction of its parts.
LEMMA TypeParts ==
  TypeOK <=> /\ open \in BOOLEAN /\ BoxesOK /\ PinsOK /\ ControlOK
             /\ SendingOK /\ ReceivingOK /\ ReportsOK /\ deserted \in BOOLEAN
<1>1. TypeOK => BoxesOK /\ PinsOK /\ ControlOK
  BY DEF TypeOK, BoxesOK, PinsOK, ControlOK, Whys, ControlPoints
<1>2. TypeOK => SendingOK /\ ReceivingOK /\ ReportsOK
  BY DEF TypeOK, SendingOK, ReceivingOK, ReportsOK
<1>3. TypeOK => open \in BOOLEAN /\ deserted \in BOOLEAN
  BY DEF TypeOK
<1>4. ASSUME open \in BOOLEAN, BoxesOK, PinsOK, ControlOK,
             SendingOK, ReceivingOK, ReportsOK, deserted \in BOOLEAN
      PROVE  TypeOK
  BY <1>4 DEF TypeOK, BoxesOK, PinsOK, ControlOK, SendingOK, ReceivingOK, ReportsOK, Whys, ControlPoints
<1> QED
  BY <1>1, <1>2, <1>3, <1>4

\* Control points.
LEMMA ControlMoves ==
  ASSUME ControlOK, NEW p \in Sides
  PROVE  /\ \A at \in ControlPoints : Goto(p, at) => ControlOK'
         /\ \A reason \in Whys : Fail(p, reason) => ControlOK'
BY DEF ControlOK, Goto, Fail, ControlPoints

\* Every step keeps the types of the control points.
LEMMA ControlStep ==
  ASSUME TypeOK, Next
  PROVE  ControlOK'
<1>1. ControlOK /\ "sender" \in Sides /\ "receiver" \in Sides
  BY TypeParts DEF Sides
<1>2. UNCHANGED <<pc, ended, why>> => ControlOK'
  BY <1>1 DEF ControlOK
<1>3. ASSUME NEW p \in Sides, FilesAlone(p)
      PROVE  ControlOK'
  <2>1. CASE SendNonce \/ ReceiveNonce(p) \/ SendPin(p) \/ SendFileList \/ Decline
             \/ ReceiveSelection \/ SendDelimiter \/ ReceiveLast \/ Misread(p) \/ SendFails(p)
    BY <1>1, <2>1, ControlMoves
       DEF SendNonce, ReceiveNonce, SendPin, SendFileList, Decline, ReceiveSelection, SendDelimiter,
           ReceiveLast, Misread, SendFails, ControlPoints, Whys
  <2>2. CASE ReceiveToken \/ ReceiveTokenReply \/ ReceivePin(p)
    BY <1>1, <2>2, ControlMoves
       DEF ReceiveToken, ReceiveTokenReply, ReceivePin, OwnPin, CheckPin, ControlPoints, Whys
  <2>3. CASE ReceivePinReply(p)
    <3>1. \E r \in {"required", "tooMany", "ok"} : r = Head(inbox[p]).result
      <4>1. Head(inbox[p]) \in Messages /\ Head(inbox[p]).type \in {"pinText", "pinString"}
        BY <2>3, Read DEF ReceivePinReply, Expects
      <4> QED
        BY <4>1, MessageKinds DEF Verdicts
    <3> QED
      BY <1>1, <2>3, <3>1, ControlMoves DEF ReceivePinReply, OwnPin, CheckPin, ControlPoints, Whys
  <2>6. CASE ReceiveFileList
    <3>1. \E r \in {"required", "tooMany", "ok"} : r = Head(inbox["receiver"]).result
      <4>1. Head(inbox["receiver"]) \in Messages /\ Head(inbox["receiver"]).type = "pinString"
        BY <1>1, <2>6, Read DEF ReceiveFileList, Expects
      <4> QED
        BY <4>1, MessageKinds DEF Verdicts
    <3> QED
      BY <1>1, <2>6, <3>1, ControlMoves DEF ReceiveFileList, ControlPoints, Whys
  <2>4. CASE Break
    BY <1>2, <2>4 DEF Break
  <2>5. CASE Close(p) \/ Disconnected(p) \/ Desert
    BY <1>1, <2>5 DEF Close, Disconnected, Desert, ControlOK, ControlPoints
  <2> QED
    BY <1>3, <2>1, <2>2, <2>3, <2>4, <2>5, <2>6 DEF FilesAlone
<1>4. CASE OfFiles
  <2>1. CASE SendSelection \/ (\E f \in Files : SendFile(f)) \/ EndFile \/ EndOfFile \/ SendStatus
             \/ ReceiveHeader \/ ReceiveChunk
    BY <1>1, <1>2, <2>1, ControlMoves
       DEF SendSelection, SendFile, EndFile, EndOfFile, SendStatus, ReceiveHeader, ReceiveChunk,
           ControlPoints, Whys
  <2>2. CASE SendChunk \/ \E f \in Files : Report(f)
    BY <1>2, <2>2 DEF SendChunk, Report
  <2> QED
    BY <1>4, <2>1, <2>2 DEF OfFiles
<1> QED
  BY <1>3, <1>4, TwoKinds

\* The sender's files.
LEMMA SendingStep ==
  ASSUME TypeOK, Points, Next
  PROVE  SendingOK'
<1>1. SendingOK
  BY TypeParts
<1>2. UNCHANGED sending => SendingOK'
  BY <1>1 DEF SendingOK, sending
<1>3. ASSUME NEW p \in Sides, FilesAlone(p)
      PROVE  SendingOK'
  BY <1>2, <1>3
     DEF FilesAlone, SendNonce, ReceiveNonce, ReceiveToken, ReceiveTokenReply, SendPin, ReceivePin,
         ReceivePinReply, SendFileList, ReceiveFileList, Decline, ReceiveSelection, SendDelimiter,
         ReceiveLast, Misread, Close, Break, Disconnected, Desert, SendFails
<1>4. CASE SendSelection \/ EndOfFile \/ SendStatus \/ ReceiveHeader \/ ReceiveChunk
           \/ \E f \in Files : Report(f)
  BY <1>2, <1>4 DEF SendSelection, EndOfFile, SendStatus, ReceiveHeader, ReceiveChunk, Report
<1>5. CASE EndFile \/ \E f \in Files : SendFile(f)
  BY <1>1, <1>5 DEF EndFile, SendFile, SendingOK
<1>6. CASE SendChunk
  <2>1. cur \in Files /\ sent[cur] + 1 \in 1..MaxChunks /\ sent' = [sent EXCEPT ![cur] = @ + 1]
    BY <1>6, SendChunkDone
  <2>2. sent[cur] + 1 \in 0..MaxChunks
    BY <2>1
  <2> QED
    BY <1>1, <1>6, <2>1, <2>2 DEF SendingOK, SendChunk
<1> QED
  BY <1>3, <1>4, <1>5, <1>6, TwoKinds DEF OfFiles

\* The receiver's files.
LEMMA ReceivingStep ==
  ASSUME TypeOK, Points, Next
  PROVE  ReceivingOK'
<1>1. ReceivingOK
  BY TypeParts
<1>2. UNCHANGED receiving => ReceivingOK'
  BY <1>1 DEF ReceivingOK, receiving
<1>3. ASSUME NEW p \in Sides, FilesAlone(p)
      PROVE  ReceivingOK'
  BY <1>2, <1>3
     DEF FilesAlone, SendNonce, ReceiveNonce, ReceiveToken, ReceiveTokenReply, SendPin, ReceivePin,
         ReceivePinReply, SendFileList, ReceiveFileList, Decline, ReceiveSelection, SendDelimiter,
         ReceiveLast, Misread, Close, Break, Disconnected, Desert, SendFails
<1>4. CASE EndFile \/ SendChunk \/ \E f \in Files : SendFile(f) \/ Report(f)
  BY <1>2, <1>4 DEF EndFile, SendChunk, SendFile, Report
<1>5. CASE SendSelection
  BY <1>1, <1>5 DEF SendSelection, ReceivingOK
<1>6. ASSUME NEW m \in Messages, m.type = "header", OpenFile(m)
      PROVE  file' \in Files \cup {None} /\ stream' \in [Files -> {"none", "open", "closed"}]
  BY <1>1, <1>6, MessageKinds DEF OpenFile, ReceivingOK
<1>7. CASE EndOfFile
  <2>1. file \in Files /\ Head(inbox["receiver"]) \in Messages
        /\ held' = <<Head(inbox["receiver"])>> /\ stream' = [stream EXCEPT ![file] = "closed"]
    BY <1>7, EndOfFileDone
  <2> QED
    BY <1>1, <1>7, <2>1 DEF EndOfFile, ReceivingOK
<1>8. CASE SendStatus
  <2>1. PICK m \in Messages : \/ file' = None /\ UNCHANGED stream
                              \/ m.type = "header" /\ OpenFile(m)
    BY <1>8, SendStatusDone
  <2>2. held' = <<>> /\ UNCHANGED <<selection, got, oversized>>
    BY <1>8 DEF SendStatus
  <2> QED
    BY <1>1, <1>6, <2>1, <2>2 DEF ReceivingOK
<1>9. CASE ReceiveHeader
  <2>1. PICK m \in Messages : \/ UNCHANGED <<file, stream>>
                              \/ m.type = "header" /\ OpenFile(m)
    BY <1>9, ReceiveHeaderDone
  <2>2. UNCHANGED <<held, selection, got, oversized>>
    BY <1>9 DEF ReceiveHeader
  <2> QED
    BY <1>1, <1>6, <2>1, <2>2 DEF ReceivingOK
<1>10. CASE ReceiveChunk
  <2>1. PICK f \in Files, i \in 1..MaxChunks :
              \/ UNCHANGED <<file, got, stream, oversized>>
              \/ /\ file \in Files
                 /\ got' = [got EXCEPT ![file] = Append(@, <<f, i>>)]
                 /\ UNCHANGED <<file, stream, oversized>>
              \/ /\ file \in Files /\ oversized' = oversized \cup {file} /\ UNCHANGED got
                 /\ stream' = [stream EXCEPT ![file] = "closed"] /\ file' = None
    BY <1>10, ReceiveChunkDone DEF ChunkDropped
  <2>2. UNCHANGED <<held, selection>>
    BY <1>10 DEF ReceiveChunk
  <2>3. \A g \in Files : Append(got[g], <<f, i>>) \in Seq(Files \X (1..MaxChunks))
    BY <1>1 DEF ReceivingOK
  <2> QED
    BY <1>1, <2>1, <2>2, <2>3 DEF ReceivingOK
<1> QED
  BY <1>3, <1>4, <1>5, <1>7, <1>8, <1>9, <1>10, TwoKinds DEF OfFiles

\* What the application reports.
LEMMA ReportsStep ==
  ASSUME TypeOK, Points, Next
  PROVE  ReportsOK'
<1>1. ReportsOK
  BY TypeParts
<1>2. UNCHANGED app => ReportsOK'
  BY <1>1 DEF ReportsOK, app
<1>3. ASSUME NEW p \in Sides, FilesAlone(p)
      PROVE  ReportsOK'
  <2>1. CASE Desert
    BY <1>1, <2>1 DEF ReportsOK, Desert
  <2>2. CASE ~Desert
    BY <1>2, <1>3, <2>2
       DEF FilesAlone, SendNonce, ReceiveNonce, ReceiveToken, ReceiveTokenReply, SendPin, ReceivePin,
           ReceivePinReply, SendFileList, ReceiveFileList, Decline, ReceiveSelection, SendDelimiter,
           ReceiveLast, Misread, Close, Break, Disconnected, SendFails
  <2> QED
    BY <2>1, <2>2
<1>4. CASE SendSelection \/ EndFile \/ SendChunk \/ EndOfFile \/ ReceiveHeader \/ ReceiveChunk
           \/ \E f \in Files : SendFile(f)
  BY <1>2, <1>4 DEF SendSelection, EndFile, SendChunk, EndOfFile, ReceiveHeader, ReceiveChunk, SendFile
<1>5. CASE \E f \in Files : Report(f)
  <2>1. PICK f \in Files : Report(f)
    BY <1>5
  <2>2. judged' = judged \cup {f} /\ UNCHANGED answers
        /\ \E ok \in BOOLEAN : results' = <<[file |-> f, success |-> ok]>>
    BY <2>1 DEF Report
  <2> QED
    BY <1>1, <2>2 DEF ReportsOK
<1>6. CASE SendStatus
  <2>1. PICK f \in Files, ok \in BOOLEAN :
          /\ file \in Files /\ results' = <<>>
          /\ answers' = answers \cup {[file |-> file, success |-> ok, about |-> f]}
    BY <1>6, SendStatusDone
  <2>2. [file |-> file, success |-> ok, about |-> f] \in [file : Files, success : BOOLEAN, about : Files]
    BY <2>1
  <2>3. UNCHANGED judged
    BY <1>6 DEF SendStatus
  <2> QED
    BY <1>1, <2>1, <2>2, <2>3 DEF ReportsOK
<1> QED
  BY <1>3, <1>4, <1>5, <1>6, TwoKinds DEF OfFiles

\* No side enters a file.
Kept == \A q \in Sides : pc'[q] \in {"chunks", "result"} => pc'[q] = pc[q]

\* Going on to any other control point, or failing, begins no file and ends none.
LEMMA KeptMoves ==
  ASSUME TypeOK, NEW p \in Sides
  PROVE  /\ \A at \in ControlPoints \ {"chunks", "result"} : Goto(p, at) => Kept
         /\ \A reason \in Whys : Fail(p, reason) => Kept
BY DEF TypeOK, Goto, Fail, Kept

\* A step that leaves the files alone begins no file and ends none.
LEMMA KeptStep ==
  ASSUME TypeOK, NEW p \in Sides, FilesAlone(p)
  PROVE  Kept /\ UNCHANGED <<cur, file, held>>
<1>1. "sender" \in Sides /\ "receiver" \in Sides
  BY DEF Sides
<1>2. UNCHANGED pc => Kept
  BY DEF Kept
<1>3. UNCHANGED <<cur, file, held>>
  BY DEF FilesAlone, SendNonce, ReceiveNonce, ReceiveToken, ReceiveTokenReply, SendPin, ReceivePin,
         ReceivePinReply, SendFileList, ReceiveFileList, Decline, ReceiveSelection, SendDelimiter,
         ReceiveLast, Misread, Close, Break, Disconnected, Desert, SendFails, sending, receiving
<1>4. CASE SendNonce \/ ReceiveNonce(p) \/ SendPin(p) \/ SendFileList \/ Decline
           \/ ReceiveSelection \/ SendDelimiter \/ ReceiveLast \/ Misread(p) \/ SendFails(p)
  BY <1>1, <1>3, <1>4, KeptMoves
     DEF SendNonce, ReceiveNonce, SendPin, SendFileList, Decline, ReceiveSelection, SendDelimiter,
         ReceiveLast, Misread, SendFails, ControlPoints, Whys
<1>5. CASE ReceiveToken \/ ReceiveTokenReply \/ ReceivePin(p)
  BY <1>1, <1>3, <1>5, KeptMoves
     DEF ReceiveToken, ReceiveTokenReply, ReceivePin, OwnPin, CheckPin, ControlPoints, Whys
<1>6. CASE ReceivePinReply(p)
  <2>1. \E r \in {"required", "tooMany", "ok"} : r = Head(inbox[p]).result
    <3>1. Head(inbox[p]) \in Messages /\ Head(inbox[p]).type \in {"pinText", "pinString"}
      BY <1>6, Read DEF ReceivePinReply, Expects
    <3> QED
      BY <3>1, MessageKinds DEF Verdicts
  <2> QED
    BY <1>1, <1>3, <1>6, <2>1, KeptMoves DEF ReceivePinReply, OwnPin, CheckPin, ControlPoints, Whys
<1>7. CASE ReceiveFileList
  <2>1. \E r \in {"required", "tooMany", "ok"} : r = Head(inbox["receiver"]).result
    <3>1. Head(inbox["receiver"]) \in Messages /\ Head(inbox["receiver"]).type = "pinString"
      BY <1>1, <1>7, Read DEF ReceiveFileList, Expects
    <3> QED
      BY <3>1, MessageKinds DEF Verdicts
  <2> QED
    BY <1>1, <1>3, <1>7, <2>1, KeptMoves DEF ReceiveFileList, ControlPoints, Whys
<1>8. CASE Break \/ Disconnected(p) \/ Desert
  BY <1>2, <1>3, <1>8 DEF Break, Disconnected, Desert
<1>9. CASE Close(p)
  BY <1>3, <1>9 DEF Close, TypeOK, Kept
<1> QED
  BY <1>4, <1>5, <1>6, <1>7, <1>8, <1>9 DEF FilesAlone

\* Every step keeps the control points and the open files together.
LEMMA PointsStep ==
  ASSUME TypeOK, Points, Next
  PROVE  Points'
<1>1. "sender" \in Sides /\ "receiver" \in Sides /\ Other("sender") = "receiver" /\ Other("receiver") = "sender"
  BY DEF Sides, Other
<1>2. Kept /\ UNCHANGED <<cur, file, held>> => Points'
  BY <1>1 DEF Kept, Points
<1>3. CASE SendSelection \/ \E f \in Files : Report(f)
  BY <1>1, <1>2, <1>3, KeptMoves DEF SendSelection, Report, Kept, ControlPoints, sending, receiving
<1>4. CASE SendChunk
  BY <1>1, <1>2, <1>4 DEF SendChunk, Kept, receiving
<1>5. CASE EndFile
  BY <1>1, <1>5 DEF EndFile, Goto, Points, TypeOK, receiving
<1>6. CASE \E f \in Files : SendFile(f)
  <2>1. PICK f \in Files : SendFile(f)
    BY <1>6
  <2>2. CASE f \in selection
    <3>1. Goto("sender", "chunks") /\ cur' = f /\ UNCHANGED <<file, held>>
      BY <2>1, <2>2 DEF SendFile, receiving
    <3>2. pc'["receiver"] = pc["receiver"]
      BY <1>1, <3>1, Moves
    <3> QED
      BY <3>1, <3>2 DEF Points
  <2>3. CASE f \notin selection
    BY <1>1, <1>2, <2>1, <2>3 DEF SendFile, receiving, Kept
  <2> QED
    BY <2>2, <2>3
<1>7. CASE EndOfFile
  <2>1. file \in Files /\ UNCHANGED <<file, cur>> /\ held' = <<Head(inbox["receiver"])>>
        /\ Head(inbox["receiver"]) \in Messages /\ Head(inbox["receiver"]).type \in {"header", "delimiter"}
        /\ Goto("receiver", "result")
    BY <1>7, EndOfFileDone DEF EndOfFile, sending
  <2>2. pc'["sender"] = pc["sender"]
    BY <1>1, <2>1, Moves
  <2> QED
    BY <2>1, <2>2 DEF Points
<1>8. CASE SendStatus \/ ReceiveHeader \/ ReceiveChunk
  <2>1. pc'["sender"] = pc["sender"] /\ pc'["receiver"] \in {"closing", "receiving", "over"}
    BY <1>1, <1>8, SendStatusDone, ReceiveHeaderDone, ReceiveChunkDone DEF Sends, Answers, ChunkDropped
  <2>2. UNCHANGED cur
    BY <1>8 DEF SendStatus, ReceiveHeader, ReceiveChunk, sending
  <2> QED
    BY <2>1, <2>2 DEF Points
<1> QED
  BY <1>2, <1>3, <1>4, <1>5, <1>6, <1>7, <1>8, TwoKinds, KeptStep DEF OfFiles

-----------------------------------------------------------------------------
(* No file before every PIN                                                *)

AgreementInv == TypeOK /\ Points /\ Knows

\* The invariant of the PINs holds at the start.
LEMMA AgreementInit ==
  ASSUME Init
  PROVE  AgreementInv
<1> USE RtcAssumption
<1>1. TypeOK
  <2>1. open \in BOOLEAN /\ BoxesOK /\ ControlOK
    BY DEF Init, BoxesOK, ControlOK, ControlPoints, Whys, Sides
  <2>2. PinsOK /\ SendingOK /\ ReportsOK
    BY DEF Init, PinsOK, SendingOK, ReportsOK
  <2>3. ReceivingOK
    BY DEF Init, ReceivingOK
  <2>4. deserted \in BOOLEAN
    BY DEF Init
  <2> QED
    BY <2>1, <2>2, <2>3, <2>4, TypeParts
<1>2. pc["sender"] = "start" /\ pc["receiver"] = "nonce" /\ Coming("sender") = {} /\ Coming("receiver") = {}
      /\ selection = {}
      /\ \A p \in Sides : tries[p] = 0 /\ shown[p] = EmptyPin /\ pc[p] \in {"start", "nonce"}
  BY DEF Init, Sides, Coming
<1>3. Points
  BY <1>2 DEF Points
<1>4. SenderKnows /\ ReceiverKnows
  BY <1>2 DEF SenderKnows, ReceiverKnows
<1>5. GuessInv
  BY <1>2 DEF GuessInv
<1> QED
  BY <1>1, <1>3, <1>4, <1>5 DEF AgreementInv, Knows

\* Every step keeps the invariant of the PINs.
LEMMA AgreementStep ==
  ASSUME AgreementInv, [Next]_vars
  PROVE  AgreementInv'
<1>1. TypeOK /\ Points /\ Knows
  BY DEF AgreementInv
<1>2. CASE UNCHANGED vars
  <2>1. TypeOK' /\ Points'
    BY <1>1, <1>2 DEF TypeOK, Points, vars, pins, sending, receiving, app
  <2>2. Knows'
    BY <1>1, <1>2 DEF Knows, SenderKnows, ReceiverKnows, GuessInv, Coming, Verified, Shown,
                      vars, pins, sending, receiving, app
  <2> QED
    BY <2>1, <2>2 DEF AgreementInv
<1>3. CASE Next
  <2>1. ControlOK' /\ SendingOK' /\ ReceivingOK' /\ ReportsOK' /\ Points'
    BY <1>1, <1>3, ControlStep, SendingStep, ReceivingStep, ReportsStep, PointsStep
  <2>2. BoxesOK' /\ Knows' /\ PinsOK'
    <3>1. PinsOK
      BY <1>1, TypeParts
    <3>2. UNCHANGED pins => PinsOK'
      BY <3>1 DEF PinsOK, pins
    <3>3. ASSUME NEW p \in Sides, FilesAlone(p)
          PROVE  BoxesOK' /\ Knows' /\ PinsOK'
      <4>1. CASE ReceivePin(p)
        <5>1. UNCHANGED <<pin, expected>>
          BY <4>1 DEF ReceivePin
        <5> QED
          BY <1>1, <3>1, <4>1, <5>1, KnowsReceivePin DEF PinsOK
      <4>2. CASE ~ReceivePin(p)
        <5>1. UNCHANGED pins
          BY <3>3, <4>2
             DEF FilesAlone, SendNonce, ReceiveNonce, ReceiveToken, ReceiveTokenReply, SendPin,
                 ReceivePinReply, SendFileList, ReceiveFileList, Decline, ReceiveSelection, SendDelimiter,
                 ReceiveLast, Misread, Close, Break, Disconnected, Desert, SendFails
        <5>2. CASE SendFileList \/ ReceiveFileList \/ ReceiveToken \/ ReceiveTokenReply \/ ReceivePinReply(p)
          BY <1>1, <3>2, <5>1, <5>2, KnowsSendFileList, KnowsReceiveFileList, KnowsReceiveToken,
             KnowsReceiveTokenReply, KnowsReceivePinReply
        <5>3. CASE ~(SendFileList \/ ReceiveFileList \/ ReceiveToken \/ ReceiveTokenReply \/ ReceivePinReply(p))
          <6>1. BoxesOK' /\ NothingTold /\ UNCHANGED <<selection>> /\ \A q \in Sides : CalmMove(q)
            BY <1>1, <3>3, <4>2, <5>3, CalmSteps DEF FilesAlone
          <6> QED
            BY <1>1, <3>2, <5>1, <6>1, KnowsCalm
        <5> QED
          BY <5>2, <5>3
      <4> QED
        BY <4>1, <4>2
    <3>4. CASE SendSelection
      <4>1. UNCHANGED pins
        BY <3>4 DEF SendSelection
      <4> QED
        BY <1>1, <3>2, <3>4, <4>1, KnowsSendSelection
    <3>5. CASE OfFiles /\ ~SendSelection
      <4>1. UNCHANGED pins
        BY <3>5 DEF OfFiles, SendFile, Report, SendChunk, EndFile, EndOfFile, SendStatus, ReceiveHeader, ReceiveChunk
      <4>2. BoxesOK' /\ NothingTold /\ UNCHANGED <<selection>> /\ \A q \in Sides : CalmMove(q)
        BY <1>1, <3>5, CalmSteps DEF OfFiles, Sides
      <4> QED
        BY <1>1, <3>2, <4>1, <4>2, KnowsCalm
    <3> QED
      BY <1>3, <3>3, <3>4, <3>5, TwoKinds
  <2>3. (open \in BOOLEAN)'
    <3>1. CASE \E p \in Sides : Close(p) \/ Break
      BY <3>1 DEF Close, Break
    <3>2. CASE \E p \in Sides : FilesAlone(p) /\ ~Close(p) /\ ~Break
      <4>1. UNCHANGED open
        BY <3>2
           DEF FilesAlone, SendNonce, ReceiveNonce, ReceiveToken, ReceiveTokenReply, SendPin, ReceivePin,
               ReceivePinReply, SendFileList, ReceiveFileList, Decline, ReceiveSelection, SendDelimiter,
               ReceiveLast, Misread, Disconnected, Desert, SendFails
      <4> QED
        BY <1>1, <4>1 DEF TypeOK
    <3>3. CASE OfFiles
      <4>1. UNCHANGED open
        BY <3>3 DEF OfFiles, SendSelection, SendFile, Report, SendChunk, EndFile, EndOfFile, SendStatus,
                    ReceiveHeader, ReceiveChunk
      <4> QED
        BY <1>1, <4>1 DEF TypeOK
    <3> QED
      BY <1>3, <3>1, <3>2, <3>3, TwoKinds
  <2>4. (deserted \in BOOLEAN)'
    <3>1. CASE Desert
      BY <3>1 DEF Desert
    <3>2. CASE \E p \in Sides : FilesAlone(p) /\ ~Desert
      <4>1. UNCHANGED deserted
        BY <3>2
           DEF FilesAlone, SendNonce, ReceiveNonce, ReceiveToken, ReceiveTokenReply, SendPin, ReceivePin,
               ReceivePinReply, SendFileList, ReceiveFileList, Decline, ReceiveSelection, SendDelimiter,
               ReceiveLast, Misread, Close, Break, Disconnected, SendFails, app
      <4> QED
        BY <1>1, <4>1 DEF TypeOK
    <3>3. CASE OfFiles
      <4>1. UNCHANGED deserted
        BY <3>3 DEF OfFiles, SendSelection, SendFile, Report, SendChunk, EndFile, EndOfFile, SendStatus,
                    ReceiveHeader, ReceiveChunk, app
      <4> QED
        BY <1>1, <4>1 DEF TypeOK
    <3> QED
      BY <1>3, <3>1, <3>2, <3>3, TwoKinds
  <2>5. TypeOK'
    BY <2>1, <2>2, <2>3, <2>4, TypeParts, PTL
  <2> QED
    BY <2>1, <2>2, <2>5 DEF AgreementInv
<1> QED
  BY <1>2, <1>3

\* The invariant of the PINs always holds.
LEMMA AgreementAlways == Spec => []AgreementInv
<1>1. Init => AgreementInv
  BY AgreementInit
<1>2. AgreementInv /\ [Next]_vars => AgreementInv'
  BY AgreementStep
<1> QED
  BY <1>1, <1>2, PTL DEF Spec

\* Every variable keeps its type: no step of either task, of the applications or
\* of the network takes it out, and no side counts more tries than it allows
\* (run_sender, run_receiver and verify_pin).
THEOREM RtcTypeCorrect == Spec => []TypeOK
<1>1. AgreementInv => TypeOK
  BY DEF AgreementInv
<1> QED
  BY <1>1, AgreementAlways, PTL

\* Nobody learns anything of the other's files before each side verified the
\* other's token and was shown its PIN (verify_token_nonce and verify_pin).
THEOREM FilesAfterPins == Spec => []FilesOnlyAfterPins
<1>1. AgreementInv => FilesOnlyAfterPins
  <2> SUFFICES ASSUME AgreementInv,
                      \/ selection # {}
                      \/ pc["receiver"] \in {"select", "receiving", "result"}
                      \/ \E i \in 1..Len(inbox["receiver"]) :
                           inbox["receiver"][i] = PinReply("sender", "ok")
               PROVE  \A p \in Sides : /\ expected[p] = Other(p)
                                       /\ pin[p] # NoPin => shown[p] = pin[p] /\ tries[p] <= MaxTries
    BY DEF FilesOnlyAfterPins
  <2>1. ReceiverKnows /\ TypeOK
    BY DEF AgreementInv, Knows
  <2>2. \A p \in Sides : Verified(p) /\ Shown(p)
    <3>1. CASE selection # {} \/ pc["receiver"] \in {"select", "receiving", "result"}
      BY <2>1, <3>1 DEF ReceiverKnows
    <3>2. CASE \E i \in 1..Len(inbox["receiver"]) : inbox["receiver"][i] = PinReply("sender", "ok")
      <4>1. PICK m \in Coming("receiver") : m = PinReply("sender", "ok")
        BY <3>2 DEF Coming
      <4>2. m.type = "pinString" /\ m.result = "ok"
        BY <4>1, VerdictKinds DEF Verdicts
      <4> QED
        BY <2>1, <4>2 DEF ReceiverKnows, Sides
    <3> QED
      BY <3>1, <3>2
  <2>3. \A p \in Sides : tries[p] <= MaxTries
    BY <2>1 DEF TypeOK
  <2> QED
    BY <2>2, <2>3 DEF Verified, Shown
<1> QED
  BY <1>1, AgreementAlways, PTL

-----------------------------------------------------------------------------
(* The offer                                                               *)

\* The last place of the offer, after a step.
LEMMA OfferStaysLast ==
  ASSUME TypeOK, OfferLast,
         \/ inbox'["receiver"] = inbox["receiver"]
         \/ inbox["receiver"] # <<>> /\ inbox'["receiver"] = Tail(inbox["receiver"])
         \/ inbox'["receiver"] \in Prefixes(inbox["receiver"])
         \/ inbox'["receiver"] = <<>>
         \/ Offer \notin Coming("receiver")'
  PROVE  OfferLast'
<1>1. inbox["receiver"] \in Seq(Messages) /\ Len(inbox["receiver"]) \in Nat
  BY DEF TypeOK, Sides
<1>2. CASE inbox'["receiver"] = inbox["receiver"]
  BY <1>2 DEF OfferLast
<1>3. CASE inbox["receiver"] # <<>> /\ inbox'["receiver"] = Tail(inbox["receiver"])
  <2>1. Len(inbox'["receiver"]) = Len(inbox["receiver"]) - 1
    BY <1>1, <1>3
  <2>2. ASSUME NEW i \in 1..Len(inbox'["receiver"]), inbox'["receiver"][i] = Offer
        PROVE  i = Len(inbox'["receiver"])
    <3>1. i + 1 \in 1..Len(inbox["receiver"]) /\ inbox["receiver"][i + 1] = Offer
      BY <1>1, <1>3, <2>1, <2>2
    <3> QED
      BY <1>1, <2>1, <3>1 DEF OfferLast
  <2> QED
    BY <2>2 DEF OfferLast
<1>4. CASE inbox'["receiver"] \in Prefixes(inbox["receiver"])
  <2>1. /\ inbox'["receiver"] \in Seq(Messages) /\ Len(inbox'["receiver"]) <= Len(inbox["receiver"])
        /\ \A i \in 1..Len(inbox'["receiver"]) :
             i \in 1..Len(inbox["receiver"]) /\ inbox'["receiver"][i] = inbox["receiver"][i]
    BY <1>1, <1>4, Beginning
  <2>2. ASSUME NEW i \in 1..Len(inbox'["receiver"]), inbox'["receiver"][i] = Offer
        PROVE  i = Len(inbox'["receiver"])
    <3>1. i = Len(inbox["receiver"])
      BY <2>1, <2>2 DEF OfferLast
    <3> QED
      BY <1>1, <2>1, <3>1
  <2> QED
    BY <2>2 DEF OfferLast
<1>5. CASE inbox'["receiver"] = <<>>
  BY <1>5 DEF OfferLast
<1>6. CASE Offer \notin Coming("receiver")'
  BY <1>6 DEF OfferLast, Coming
<1> QED
  BY <1>2, <1>3, <1>4, <1>5, <1>6

\* A message of another type, or another verdict, is not the offer.
LEMMA NotTheOffer ==
  /\ \A m \in Messages : m.type # "pinString" => m # Offer
  /\ \A r \in {"required", "tooMany"} : PinReply("sender", r) # Offer
  /\ Offer \in Messages /\ Offer.type = "pinString" /\ Offer.result = "ok"
<1>1. "ok" \in Verdicts /\ "required" \in Verdicts /\ "tooMany" \in Verdicts
  BY DEF Verdicts
<1>2. Offer \in Messages /\ Offer.type = "pinString" /\ Offer.result = "ok"
  BY <1>1, VerdictKinds DEF Offer
<1>3. \A r \in {"required", "tooMany"} : PinReply("sender", r).result = r
  BY <1>1, VerdictKinds
<1> QED
  BY <1>2, <1>3

\* A verdict that is read and is "ok" is the offer.
LEMMA IsTheOffer ==
  ASSUME NEW m \in Messages, m.type = "pinString", m.result = "ok"
  PROVE  m = Offer
<1> USE DEF Nonce, Token, Invalid, Delimiter, Declined, TokenReply, Pin, FileTokens, Header, Chunk, Status
<1>1. CASE m \in {PinReply(p, r) : p \in Sides, r \in Verdicts}
  <2>1. PICK p \in Sides, r \in Verdicts : m = PinReply(p, r)
    BY <1>1
  <2>2. p = "sender" /\ r = "ok"
    <3>1. m.type = (IF p = "sender" THEN "pinString" ELSE "pinText") /\ m.result = r
      BY <2>1 DEF PinReply
    <3> QED
      BY <3>1
  <2> QED
    BY <2>1, <2>2 DEF Offer
<1>2. CASE m \in {Nonce, Token(LocalToken("sender")), Invalid, Delimiter, Declined}
                  \cup {TokenReply(r, LocalToken("receiver")) : r \in {"ok", "pinRequired"}}
  BY <1>2
<1>3. CASE m \in {Pin(g) : g \in Pins}
  BY <1>3
<1>4. CASE m \in {FileTokens(S) : S \in SUBSET Files}
  BY <1>4
<1>5. CASE m \in {Header(f) : f \in Files} \cup {Chunk(f, i) : f \in Files, i \in 1..MaxChunks}
  BY <1>5
<1>6. CASE m \in {Status(f, ok) : f \in Files, ok \in BOOLEAN}
  BY <1>6
<1> QED
  BY <1>1, <1>2, <1>3, <1>4, <1>5, <1>6 DEF Messages

\* The sender's steps before its offer.
LEMMA EarlySender ==
  ASSUME TypeOK, OfferInv, pc["sender"] \in BeforeOffer, pc'["sender"] \in BeforeOffer \cup {"over"},
         pc'["receiver"] = pc["receiver"], UNCHANGED begun, Coming("sender")' \subseteq Coming("sender"),
         \A m \in Coming("receiver")' : m \in Coming("receiver") \/ m # Offer
  PROVE  OfferInv'
<1>1. Offer \notin Coming("receiver")'
  BY DEF OfferInv, OfferTurns, BeforeOffer
<1>2. OfferLast'
  BY <1>1, OfferStaysLast DEF OfferInv
<1>3. OfferTurns'
  BY <1>1 DEF OfferInv, OfferTurns, BeforeOffer, AfterSelection
<1> QED
  BY <1>2, <1>3 DEF OfferInv

\* The receiver's steps before it reads the offer.
LEMMA EarlyReceiver ==
  ASSUME TypeOK, OfferInv,
         pc["receiver"] \notin AfterSelection, pc'["receiver"] \notin {"select", "receiving", "result"},
         pc'["sender"] = pc["sender"], UNCHANGED begun,
         \/ inbox'["receiver"] = inbox["receiver"]
         \/ inbox["receiver"] # <<>> /\ inbox'["receiver"] = Tail(inbox["receiver"]),
         Coming("receiver")' \subseteq Coming("receiver"),
         \A m \in Coming("sender")' : m \in Coming("sender") \/ m.type # "fileTokens"
  PROVE  OfferInv'
<1>1. OfferLast'
  BY OfferStaysLast DEF OfferInv
<1>2. OfferTurns'
  BY DEF OfferInv, OfferTurns, BeforeOffer, AfterSelection
<1> QED
  BY <1>1, <1>2 DEF OfferInv

\* The steps that only lose something.
LEMMA OfferLess ==
  ASSUME TypeOK, OfferInv, \A p \in Sides : pc'[p] = pc[p] \/ pc'[p] = "over",
         UNCHANGED begun, \A p \in Sides : Coming(p)' \subseteq Coming(p),
         inbox["receiver"] = <<>> => inbox'["receiver"] = <<>>,
         \/ inbox'["receiver"] = inbox["receiver"]
         \/ inbox["receiver"] # <<>> /\ inbox'["receiver"] = Tail(inbox["receiver"])
         \/ inbox'["receiver"] \in Prefixes(inbox["receiver"])
         \/ inbox'["receiver"] = <<>>
  PROVE  OfferInv'
<1>1. "sender" \in Sides /\ "receiver" \in Sides
  BY DEF Sides
<1>2. OfferLast'
  BY OfferStaysLast DEF OfferInv
<1>3. OfferTurns'
  BY <1>1 DEF OfferInv, OfferTurns, BeforeOffer, AfterSelection
<1> QED
  BY <1>2, <1>3 DEF OfferInv

\* The sender's steps after the selection.
LEMMA LateSender ==
  ASSUME TypeOK, OfferInv,
         \/ pc["sender"] \in {"sending", "chunks", "last"}
         \/ pc["sender"] = "selection" /\ UNCHANGED begun
              /\ \E m \in Coming("sender") : m.type = "fileTokens",
         pc'["sender"] \in {"sending", "chunks", "last", "closing"},
         pc'["receiver"] = pc["receiver"], Coming("sender")' \subseteq Coming("sender"),
         \A m \in Coming("receiver")' : m \in Coming("receiver") \/ m.type \in Data
  PROVE  OfferInv'
<1>1. Offer \notin Coming("receiver") /\ pc["receiver"] \in AfterSelection
  BY DEF OfferInv, OfferTurns
<1>2. Offer \notin Coming("receiver")'
  BY <1>1, NotTheOffer DEF Data
<1>3. OfferLast'
  BY <1>2, OfferStaysLast DEF OfferInv
<1>4. OfferTurns'
  BY <1>1, <1>2 DEF OfferInv, OfferTurns, BeforeOffer, AfterSelection
<1> QED
  BY <1>3, <1>4 DEF OfferInv

\* The receiver's steps after the selection.
LEMMA LateReceiver ==
  ASSUME TypeOK, OfferInv, pc["receiver"] \in {"receiving", "result"},
         pc'["receiver"] \in AfterSelection, pc'["receiver"] = "result" => inbox["receiver"] # <<>> \/ pc["receiver"] = "result",
         pc'["sender"] = pc["sender"], UNCHANGED begun,
         \/ inbox'["receiver"] = inbox["receiver"]
         \/ inbox["receiver"] # <<>> /\ inbox'["receiver"] = Tail(inbox["receiver"]),
         Coming("receiver")' \subseteq Coming("receiver"),
         \A m \in Coming("sender")' : m \in Coming("sender") \/ m.type # "fileTokens"
  PROVE  OfferInv'
<1>1. OfferLast'
  BY OfferStaysLast DEF OfferInv
<1>2. OfferTurns'
  BY DEF OfferInv, OfferTurns, BeforeOffer, AfterSelection
<1> QED
  BY <1>1, <1>2 DEF OfferInv

\* What the sender does before its offer.
SendersTurn ==
  \/ SendNonce \/ ReceiveNonce("sender") \/ ReceiveTokenReply \/ SendPin("sender")
  \/ ReceivePin("sender") \/ ReceivePinReply("sender")

\* What the sender does before its offer, and that the offer is not part of it.
LEMMA SendersTurnDone ==
  ASSUME TypeOK, Knows, SendersTurn
  PROVE  /\ pc["sender"] \in BeforeOffer
         /\ \E at \in BeforeOffer \cup {"over"} :
              \/ Answers("sender", <<>>, at)
              \/ \E m \in Messages \ {Offer} : Answers("sender", <<m>>, at) \/ Sends("sender", <<m>>, at)
<1>1. "sender" \in Sides /\ GuessInv /\ Content("sender") = "offer"
  BY DEF Sides, Knows, Content
<1>2. /\ {Nonce, Token(LocalToken("sender"))} \subseteq Messages \ {Offer}
      /\ \A g \in Pins : Pin(g) \in Messages \ {Offer}
      /\ \A r \in {"required", "tooMany"} : PinReply("sender", r) \in Messages \ {Offer}
  <2>1. \A r \in {"required", "tooMany"} : PinReply("sender", r) \in Messages
    BY VerdictKinds DEF Verdicts
  <2>2. Nonce.type # "pinString" /\ Token(LocalToken("sender")).type # "pinString"
        /\ \A g \in Pins : Pin(g).type # "pinString"
    BY DEF Nonce, Token, Pin
  <2> QED
    BY <2>1, <2>2, NotTheOffer, MessagesMade
<1>3. SenderOwns => \E at \in BeforeOffer \cup {"over"} :
        \/ Answers("sender", <<>>, at)
        \/ \E m \in Messages \ {Offer} : Answers("sender", <<m>>, at)
  BY <1>2 DEF SenderOwns, BeforeOffer
<1>4. CASE SendNonce
  BY <1>2, <1>4, SendNonceDone DEF BeforeOffer
<1>5. CASE ReceiveNonce("sender")
  BY <1>1, <1>2, <1>5, ReceiveNonceDone DEF BeforeOffer, ReceiveNonce, Reads
<1>6. CASE ReceiveTokenReply
  BY <1>3, <1>6, ReceiveTokenReplyDone DEF BeforeOffer, ReceiveTokenReply, Reads
<1>7. CASE SendPin("sender")
  <2>1. pc["sender"] = "prompt" /\ \E g \in Pins : Sends("sender", <<Pin(g)>>, "pinSent")
    BY <1>1, <1>7, SendPinDone
  <2> QED
    BY <1>2, <2>1 DEF BeforeOffer
<1>8. CASE ReceivePin("sender")
  <2>1. pc["sender"] = "guess"
    BY <1>8 DEF ReceivePin, Reads
  <2>2. \/ Answers("sender", <<>>, "offer")
        \/ Answers("sender", <<PinReply("sender", "tooMany")>>, "over")
        \/ Answers("sender", <<PinReply("sender", "required")>>, "guess")
    BY <1>1, <1>8, ReceivePinDone
  <2> QED
    BY <1>2, <2>1, <2>2 DEF BeforeOffer
<1>9. CASE ReceivePinReply("sender")
  <2>1. pc["sender"] = "pinSent"
    BY <1>9 DEF ReceivePinReply, Reads
  <2>2. Answers("sender", <<>>, "prompt") \/ Answers("sender", <<>>, "over") \/ SenderOwns
    BY <1>1, <1>9, ReceivePinReplyDone
  <2> QED
    BY <1>3, <2>1, <2>2 DEF BeforeOffer
<1> QED
  BY <1>4, <1>5, <1>6, <1>7, <1>8, <1>9 DEF SendersTurn

\* What the receiver does before the selection.
ReceiversTurn ==
  \/ ReceiveNonce("receiver") \/ ReceiveToken \/ ReceiveFileList \/ SendPin("receiver")
  \/ ReceivePin("receiver") \/ ReceivePinReply("receiver")

BeforeSelection == {"nonce", "token", "guess", "list", "prompt", "pinSent"}

\* It has sent nothing, or one message or two, none of them a selection.
ReceiverTurned(at) ==
  \/ Answers("receiver", <<>>, at)
  \/ \E m \in Messages : m.type # "fileTokens" /\ (Answers("receiver", <<m>>, at) \/ Sends("receiver", <<m>>, at))
  \/ \E m, n \in Messages :
       m.type # "fileTokens" /\ n.type # "fileTokens" /\ Answers("receiver", <<m, n>>, at)

\* What the receiver does before the selection, and that it selects only on the offer.
LEMMA ReceiversTurnDone ==
  ASSUME TypeOK, Knows, ReceiversTurn
  PROVE  /\ pc["receiver"] \in BeforeSelection
         /\ \/ \E at \in BeforeSelection \cup {"over"} : ReceiverTurned(at)
            \/ inbox["receiver"] # <<>> /\ Head(inbox["receiver"]) = Offer /\ Answers("receiver", <<>>, "select")
<1>1. "receiver" \in Sides /\ GuessInv /\ Content("receiver") = "list"
  BY DEF Sides, Knows, Content
<1>0. ASSUME NEW at
      PROVE  /\ Answers("receiver", <<>>, at) => ReceiverTurned(at)
             /\ \A m \in Messages : m.type # "fileTokens" /\ (Answers("receiver", <<m>>, at) \/ Sends("receiver", <<m>>, at))
                                      => ReceiverTurned(at)
             /\ \A m, n \in Messages : m.type # "fileTokens" /\ n.type # "fileTokens" /\ Answers("receiver", <<m, n>>, at)
                                      => ReceiverTurned(at)
  BY DEF ReceiverTurned
<1>2. /\ Nonce \in Messages /\ Invalid \in Messages /\ Nonce.type # "fileTokens" /\ Invalid.type # "fileTokens"
      /\ \A g \in Pins : Pin(g) \in Messages /\ Pin(g).type # "fileTokens"
      /\ \A r \in {"ok", "required", "tooMany"} :
           PinReply("receiver", r) \in Messages /\ PinReply("receiver", r).type # "fileTokens"
  <2>1. \A r \in {"ok", "required", "tooMany"} :
           PinReply("receiver", r) \in Messages /\ PinReply("receiver", r).type # "fileTokens"
    BY VerdictKinds DEF Verdicts
  <2>2. Nonce.type # "fileTokens" /\ Invalid.type # "fileTokens" /\ \A g \in Pins : Pin(g).type # "fileTokens"
    BY DEF Nonce, Invalid, Pin
  <2> QED
    BY <2>1, <2>2, MessagesMade
<1>3. CASE ReceiveNonce("receiver")
  BY <1>0, <1>1, <1>2, <1>3, ReceiveNonceDone DEF BeforeSelection, ReceiveNonce, Reads
<1>4. CASE ReceiveToken
  <2>1. pc["receiver"] = "token"
    BY <1>4 DEF ReceiveToken, Reads
  <2>2. \/ Answers("receiver", <<Invalid>>, "over")
        \/ \E t \in Messages :
             /\ t.type = "tokenReply"
             /\ \/ \E at \in {"list", "guess"} : Answers("receiver", <<t>>, at)
                \/ \E r \in {"ok", "required", "tooMany"}, at \in {"list", "guess", "over"} :
                     Answers("receiver", <<t, PinReply("receiver", r)>>, at)
    BY <1>4, ReceiveTokenDone
  <2>3. CASE Answers("receiver", <<Invalid>>, "over")
    BY <1>0, <1>2, <2>1, <2>3 DEF BeforeSelection
  <2>4. CASE \E t \in Messages : t.type = "tokenReply" /\ \E at \in {"list", "guess"} : Answers("receiver", <<t>>, at)
    <3>1. PICK t \in Messages, at \in {"list", "guess"} : t.type # "fileTokens" /\ Answers("receiver", <<t>>, at)
      BY <2>4
    <3> QED
      BY <1>0, <2>1, <3>1 DEF BeforeSelection
  <2>5. CASE \E t \in Messages : t.type = "tokenReply" /\
               \E r \in {"ok", "required", "tooMany"}, at \in {"list", "guess", "over"} :
                     Answers("receiver", <<t, PinReply("receiver", r)>>, at)
    <3>1. PICK t \in Messages, n \in Messages, at \in {"list", "guess", "over"} :
            t.type # "fileTokens" /\ n.type # "fileTokens" /\ Answers("receiver", <<t, n>>, at)
      BY <1>2, <2>5
    <3> QED
      BY <1>0, <2>1, <3>1 DEF BeforeSelection
  <2> QED
    BY <2>2, <2>3, <2>4, <2>5
<1>5. CASE ReceiveFileList \/ ReceivePinReply("receiver")
  <2>1. /\ pc["receiver"] \in {"list", "pinSent"} /\ Head(inbox["receiver"]) \in Messages
        /\ Head(inbox["receiver"]).type = "pinString"
    <3>1. CASE ReceiveFileList
      BY <1>1, <3>1, Read DEF ReceiveFileList, Expects
    <3>2. CASE ReceivePinReply("receiver")
      BY <1>1, <3>2, Read DEF ReceivePinReply, Expects
    <3> QED
      BY <1>5, <3>1, <3>2
  <2>2. \/ Answers("receiver", <<>>, "prompt") \/ Answers("receiver", <<>>, "over")
        \/ Head(inbox["receiver"]).result = "ok" /\ Answers("receiver", <<>>, "select")
    BY <1>1, <1>5, ReceiveFileListDone, ReceivePinReplyDone
  <2>3. inbox["receiver"] # <<>>
    BY <2>2 DEF Answers
  <2>4. pc["receiver"] \in BeforeSelection /\ {"prompt", "over"} \subseteq BeforeSelection \cup {"over"}
    BY <2>1 DEF BeforeSelection
  <2>5. Head(inbox["receiver"]).result = "ok" => Head(inbox["receiver"]) = Offer
    BY <2>1, IsTheOffer
  <2> QED
    BY <1>0, <2>2, <2>3, <2>4, <2>5
<1>6. CASE SendPin("receiver")
  <2>1. pc["receiver"] = "prompt" /\ \E g \in Pins : Sends("receiver", <<Pin(g)>>, "pinSent")
    BY <1>1, <1>6, SendPinDone
  <2> QED
    BY <1>0, <1>2, <2>1 DEF BeforeSelection
<1>7. CASE ReceivePin("receiver")
  <2>1. pc["receiver"] = "guess"
    BY <1>7 DEF ReceivePin, Reads
  <2>2. \E r \in {"ok", "required", "tooMany"}, at \in {"list", "over", "guess"} :
          Answers("receiver", <<PinReply("receiver", r)>>, at)
    BY <1>1, <1>7, ReceivePinDone
  <2> QED
    BY <1>0, <1>2, <2>1, <2>2 DEF BeforeSelection
<1> QED
  BY <1>3, <1>4, <1>5, <1>6, <1>7 DEF ReceiversTurn

\* What comes to the other side, and what is left, after each kind of turn.
LEMMA ReceiverTurnedMeans ==
  ASSUME TypeOK, NEW at, ReceiverTurned(at)
  PROVE  /\ pc'["receiver"] = at /\ pc'["sender"] = pc["sender"]
         /\ \/ inbox'["receiver"] = inbox["receiver"]
            \/ inbox["receiver"] # <<>> /\ inbox'["receiver"] = Tail(inbox["receiver"])
         /\ Coming("receiver")' \subseteq Coming("receiver")
         /\ \A m \in Coming("sender")' : m \in Coming("sender") \/ m.type # "fileTokens"
<1>1. BoxesOK /\ "receiver" \in Sides /\ Other("receiver") = "sender"
  BY DEF TypeOK, BoxesOK, Other, Sides
<1>2. CASE Answers("receiver", <<>>, at)
  <2>1. Coming("receiver")' \subseteq Coming("receiver") /\ Coming("sender")' \subseteq Coming("sender")
    BY <1>1, <1>2, ComingAfter
  <2> QED
    BY <1>1, <1>2, <2>1 DEF Answers
<1>3. CASE \E m \in Messages : m.type # "fileTokens" /\ (Answers("receiver", <<m>>, at) \/ Sends("receiver", <<m>>, at))
  <2>1. PICK m \in Messages : m.type # "fileTokens" /\ (Answers("receiver", <<m>>, at) \/ Sends("receiver", <<m>>, at))
    BY <1>3
  <2>2. Coming("receiver")' \subseteq Coming("receiver") /\ Coming("sender")' \subseteq Coming("sender") \cup {m}
    BY <1>1, <2>1, ComingAfter
  <2> QED
    BY <1>1, <2>1, <2>2 DEF Answers, Sends
<1>4. CASE \E m, n \in Messages :
             m.type # "fileTokens" /\ n.type # "fileTokens" /\ Answers("receiver", <<m, n>>, at)
  <2>1. PICK m \in Messages, n \in Messages :
             m.type # "fileTokens" /\ n.type # "fileTokens" /\ Answers("receiver", <<m, n>>, at)
    BY <1>4
  <2>2. Coming("receiver")' \subseteq Coming("receiver") /\ Coming("sender")' \subseteq Coming("sender") \cup {m, n}
    BY <1>1, <2>1, ComingAfter
  <2> QED
    BY <1>1, <2>1, <2>2 DEF Answers
<1> QED
  BY <1>2, <1>3, <1>4 DEF ReceiverTurned

\* The handshake keeps the offer last.
LEMMA OfferHandshake ==
  ASSUME AgreementInv, OfferInv, SendersTurn \/ ReceiversTurn, UNCHANGED begun
  PROVE  OfferInv'
<1>1. /\ TypeOK /\ Knows /\ BoxesOK /\ "sender" \in Sides /\ "receiver" \in Sides
      /\ Other("sender") = "receiver" /\ Other("receiver") = "sender"
  BY DEF AgreementInv, TypeOK, BoxesOK, Sides, Other
<1>2. CASE SendersTurn
  <2>1. PICK at \in BeforeOffer \cup {"over"} :
          \/ Answers("sender", <<>>, at)
          \/ \E m \in Messages \ {Offer} : Answers("sender", <<m>>, at) \/ Sends("sender", <<m>>, at)
    BY <1>1, <1>2, SendersTurnDone
  <2>2. pc["sender"] \in BeforeOffer
    BY <1>1, <1>2, SendersTurnDone
  <2>3. CASE Answers("sender", <<>>, at)
    <3>1. Coming("sender")' \subseteq Coming("sender") /\ Coming("receiver")' \subseteq Coming("receiver")
      BY <1>1, <2>3, ComingAfter
    <3>2. pc'["sender"] = at /\ pc'["receiver"] = pc["receiver"]
      BY <1>1, <2>3 DEF Answers
    <3> QED
      BY <1>1, <2>2, <3>1, <3>2, EarlySender
  <2>4. CASE \E m \in Messages \ {Offer} : Answers("sender", <<m>>, at) \/ Sends("sender", <<m>>, at)
    <3>1. PICK m \in Messages \ {Offer} : Answers("sender", <<m>>, at) \/ Sends("sender", <<m>>, at)
      BY <2>4
    <3>2. Coming("sender")' \subseteq Coming("sender") /\ Coming("receiver")' \subseteq Coming("receiver") \cup {m}
      BY <1>1, <3>1, ComingAfter
    <3>3. pc'["sender"] = at /\ pc'["receiver"] = pc["receiver"]
      BY <1>1, <3>1 DEF Answers, Sends
    <3> QED
      BY <1>1, <2>2, <3>1, <3>2, <3>3, EarlySender
  <2> QED
    BY <2>1, <2>3, <2>4
<1>3. CASE ReceiversTurn
  <2>1. pc["receiver"] \in BeforeSelection
    BY <1>1, <1>3, ReceiversTurnDone
  <2>2. CASE \E at \in BeforeSelection \cup {"over"} : ReceiverTurned(at)
    <3>1. PICK at \in BeforeSelection \cup {"over"} : ReceiverTurned(at)
      BY <2>2
    <3>2. at \notin {"select", "receiving", "result"} /\ pc["receiver"] \notin AfterSelection
      BY <2>1, <3>1 DEF BeforeSelection, AfterSelection
    <3> QED
      BY <1>1, <3>1, <3>2, ReceiverTurnedMeans, EarlyReceiver
  <2>3. CASE inbox["receiver"] # <<>> /\ Head(inbox["receiver"]) = Offer /\ Answers("receiver", <<>>, "select")
    <3>1. inbox["receiver"] \in Seq(Messages) /\ inbox["receiver"] # <<>>
      BY <1>1, <2>3 DEF BoxesOK
    <3>2. 1 \in 1..Len(inbox["receiver"]) /\ inbox["receiver"][1] = Offer
      BY <2>3, <3>1
    <3>3. Len(inbox["receiver"]) = 1 /\ Offer \in Coming("receiver")
      BY <3>2 DEF OfferInv, OfferLast, Coming
    <3>4. inbox'["receiver"] = <<>>
      <4>1. Tail(inbox["receiver"]) \in Seq(Messages) /\ Len(Tail(inbox["receiver"])) = 0
        BY <3>1, <3>3
      <4> QED
        BY <2>3, <4>1, EmptySeq DEF Answers
    <3>5. pc["sender"] \in {"selection", "over"} /\ begun = {}
      BY <3>3 DEF OfferInv, OfferTurns
    <3>6. pc'["receiver"] = "select" /\ pc'["sender"] = pc["sender"]
      BY <1>1, <2>3 DEF Answers
    <3>7. Coming("sender")' \subseteq Coming("sender") /\ Coming("receiver")' = {}
      <4>1. Coming("receiver")' = {}
        BY <3>4 DEF Coming
      <4> QED
        BY <1>1, <2>3, <4>1, ComingAfter
    <3>8. OfferLast'
      BY <3>4 DEF OfferLast
    <3>9. OfferTurns'
      BY <2>1, <3>4, <3>5, <3>6, <3>7 DEF OfferInv, OfferTurns, BeforeOffer, BeforeSelection, AfterSelection
    <3> QED
      BY <3>8, <3>9 DEF OfferInv
  <2> QED
    BY <1>1, <1>3, <2>2, <2>3, ReceiversTurnDone
<1> QED
  BY <1>2, <1>3

\* The offer itself, the answer to it, and the answer's arrival.
LEMMA OfferAnswered ==
  ASSUME AgreementInv, OfferInv,
         SendFileList \/ SendSelection \/ Decline \/ ReceiveSelection, UNCHANGED begun
  PROVE  OfferInv'
<1>1. /\ TypeOK /\ BoxesOK /\ "sender" \in Sides /\ "receiver" \in Sides
      /\ Other("sender") = "receiver" /\ Other("receiver") = "sender"
  BY DEF AgreementInv, TypeOK, BoxesOK, Sides, Other
<1>2. CASE SendFileList
  <2>1. pc["sender"] = "offer" /\ Sends("sender", <<Offer>>, "selection")
    BY <1>1, <1>2, SendFileListDone DEF Offer
  <2>2. Coming("sender")' \subseteq Coming("sender") /\ Coming("receiver")' \subseteq Coming("receiver") \cup {Offer}
    BY <1>1, <2>1, ComingAfter, NotTheOffer
  <2>3. pc'["sender"] = "selection" /\ pc'["receiver"] = pc["receiver"]
    BY <1>1, <2>1 DEF Sends
  <2>4. Offer \notin Coming("receiver") /\ begun = {} /\ pc["receiver"] \notin {"select", "receiving", "result"}
    BY <2>1 DEF OfferInv, OfferTurns, BeforeOffer
  <2>5. OfferLast'
    <3>1. CASE ~open
      <4>1. inbox'["receiver"] = inbox["receiver"]
        BY <1>1, <2>1, <3>1 DEF Sends
      <4> QED
        BY <1>1, <4>1, OfferStaysLast DEF OfferInv
    <3>2. CASE open
      <4>1. inbox'["receiver"] = inbox["receiver"] \o <<Offer>>
        BY <1>1, <2>1, <3>2 DEF Sends
      <4>2. inbox["receiver"] \in Seq(Messages) /\ <<Offer>> \in Seq(Messages)
        BY <1>1, NotTheOffer DEF BoxesOK
      <4>3. Len(inbox'["receiver"]) = Len(inbox["receiver"]) + 1 /\ Len(inbox["receiver"]) \in Nat
        BY <4>1, <4>2
      <4>4. ASSUME NEW i \in 1..Len(inbox'["receiver"]), inbox'["receiver"][i] = Offer
            PROVE  i = Len(inbox'["receiver"])
        <5>1. CASE i \in 1..Len(inbox["receiver"])
          <6>1. inbox["receiver"][i] = Offer
            BY <4>1, <4>2, <4>4, <5>1
          <6> QED
            BY <2>4, <5>1, <6>1 DEF Coming
        <5>2. CASE i \notin 1..Len(inbox["receiver"])
          BY <4>3, <5>2
        <5> QED
          BY <5>1, <5>2
      <4> QED
        BY <4>4 DEF OfferLast
    <3> QED
      BY <3>1, <3>2
  <2>6. OfferTurns'
    <3>1. \A m \in Coming("sender") : m.type # "fileTokens"
      BY <2>1 DEF OfferInv, OfferTurns, BeforeOffer
    <3> QED
      BY <2>1, <2>2, <2>3, <2>4, <3>1 DEF OfferInv, OfferTurns, BeforeOffer
  <2> QED
    BY <2>5, <2>6 DEF OfferInv
<1>3. CASE SendSelection \/ Decline
  <2>1. PICK at \in {"receiving", "closing"} :
          /\ pc["receiver"] = "select"
          /\ Sends("receiver", <<>>, at) \/ \E m \in Messages : Sends("receiver", <<m>>, at)
    <3>1. CASE SendSelection
      <4>1. PICK S \in SUBSET Files : S = selection'
        BY <1>1, <3>1, SendSelectionDone
      <4>2. FileTokens(S) \in Messages /\ Sends("receiver", <<FileTokens(S)>>, "receiving") /\ pc["receiver"] = "select"
        BY <1>1, <3>1, <4>1, SendSelectionDone, MessagesMade
      <4> QED
        BY <4>2
    <3>2. CASE Decline
      BY <1>1, <3>2, DeclineDone, MessagesMade
    <3> QED
      BY <1>3, <3>1, <3>2
  <2>2. pc'["receiver"] = at /\ pc'["sender"] = pc["sender"] /\ inbox'["receiver"] = inbox["receiver"]
    BY <1>1, <2>1 DEF Sends
  <2>3. inbox["receiver"] = <<>> /\ pc["sender"] \in {"selection", "over"} /\ begun = {}
    BY <2>1 DEF OfferInv, OfferTurns
  <2>4. Coming("receiver")' = {} /\ OfferLast'
    BY <2>2, <2>3 DEF Coming, OfferLast
  <2>5. OfferTurns'
    BY <2>2, <2>3, <2>4 DEF OfferInv, OfferTurns, BeforeOffer, AfterSelection
  <2> QED
    BY <2>4, <2>5 DEF OfferInv
<1>4. CASE ReceiveSelection
  <2>1. /\ pc["sender"] = "selection" /\ Head(inbox["sender"]) \in Coming("sender")
        /\ Head(inbox["sender"]).type = "fileTokens"
    BY <1>1, <1>4, Read DEF ReceiveSelection, Expects
  <2>2. PICK at \in {"closing", "sending"} : Answers("sender", <<>>, at)
    BY <1>1, <1>4, ReceiveSelectionDone
  <2>3. Coming("sender")' \subseteq Coming("sender") /\ Coming("receiver")' \subseteq Coming("receiver")
    BY <1>1, <2>2, ComingAfter
  <2>4. pc'["sender"] = at /\ pc'["receiver"] = pc["receiver"]
    BY <1>1, <2>2 DEF Answers
  <2> QED
    BY <1>1, <2>1, <2>3, <2>4, LateSender
<1> QED
  BY <1>2, <1>3, <1>4

\* The steps that take or lose something and send nothing.
LEMMA Losses ==
  ASSUME TypeOK, NEW p \in Sides,
         Misread(p) \/ Close(p) \/ Break \/ Disconnected(p) \/ Desert \/ SendFails(p) \/ \E f \in Files : Report(f)
  PROVE  /\ BoxesOK' /\ UNCHANGED begun
         /\ \A q \in Sides :
              /\ pc'[q] = pc[q] \/ pc'[q] = "over"
              /\ Coming(q)' \subseteq Coming(q)
              /\ \/ inbox'[q] = inbox[q]
                 \/ inbox[q] # <<>> /\ inbox'[q] = Tail(inbox[q])
                 \/ inbox'[q] \in Prefixes(inbox[q])
                 \/ inbox'[q] = <<>>
              /\ inbox[q] = <<>> => inbox'[q] = <<>>
<1>1. BoxesOK /\ Other(p) \in Sides /\ \A q \in Sides : q = p \/ q = Other(p)
  BY DEF TypeOK, BoxesOK, Other, Sides
<1>2. ASSUME NEW q \in Sides, inbox'[q] \in Prefixes(inbox[q]), inbox[q] = <<>>
      PROVE  inbox'[q] = <<>>
  <2>1. <<>> \in Seq(Messages) /\ Len(<<>>) = 0
    OBVIOUS
  <2>2. inbox'[q] \in Seq(Messages) /\ Len(inbox'[q]) <= 0
    BY <1>2, <2>1, Beginning
  <2>3. Len(inbox'[q]) = 0
    BY <2>2
  <2> QED
    BY <2>2, <2>3, EmptySeq
<1>3. CASE Misread(p)
  <2>1. Answers(p, <<>>, "over") /\ UNCHANGED begun
    BY <1>3, MisreadDone DEF Misread, sending
  <2>2. Coming(p)' \subseteq Coming(p) /\ Coming(Other(p))' \subseteq Coming(Other(p))
    BY <1>1, <2>1, ComingAfter
  <2>3. inbox'[Other(p)] = inbox[Other(p)]
    BY <1>1, <1>3, ConsumeBox DEF Misread, Arrived
  <2>4. inbox[p] # <<>> /\ inbox'[p] = Tail(inbox[p]) /\ pc'[p] = "over" /\ pc'[Other(p)] = pc[Other(p)] /\ BoxesOK'
    BY <2>1 DEF Answers
  <2>5. ASSUME NEW q \in Sides
        PROVE  /\ pc'[q] = pc[q] \/ pc'[q] = "over"
               /\ Coming(q)' \subseteq Coming(q)
               /\ \/ inbox'[q] = inbox[q]
                  \/ inbox[q] # <<>> /\ inbox'[q] = Tail(inbox[q])
               /\ inbox[q] = <<>> => inbox'[q] = <<>>
    <3>1. CASE q = p
      BY <2>2, <2>4, <3>1
    <3>2. CASE q = Other(p)
      BY <2>2, <2>3, <2>4, <3>2
    <3> QED
      BY <1>1, <3>1, <3>2
  <2> QED
    BY <2>1, <2>4, <2>5
<1>4. CASE Close(p) \/ Break
  <2>1. Cut /\ UNCHANGED begun
    BY <1>4, CloseDone, BreakDone DEF Close, Break, sending
  <2>2. \A q \in Sides : pc'[q] = pc[q] \/ pc'[q] = "over"
    BY <1>1, <1>4, CloseDone, BreakDone
  <2>3. \A q \in Sides : Coming(q)' \subseteq Coming(q)
    BY <2>1, CutSilent
  <2> QED
    BY <1>2, <2>1, <2>2, <2>3 DEF Cut
<1>5. CASE Disconnected(p) \/ Desert \/ SendFails(p) \/ \E f \in Files : Report(f)
  <2>1. UNCHANGED <<inbox, begun>>
    BY <1>5 DEF Disconnected, Desert, SendFails, Report, sending
  <2>2. \A q \in Sides : pc'[q] = pc[q] \/ pc'[q] = "over"
    BY <1>1, <1>5, SendFailsDone DEF Disconnected, Desert, Report
  <2>3. \A q \in Sides : Coming(q)' \subseteq Coming(q)
    BY <2>1 DEF Coming
  <2> QED
    BY <1>1, <2>1, <2>2, <2>3 DEF BoxesOK
<1> QED
  BY <1>3, <1>4, <1>5

\* The messages of the files.
LEMMA DataKinds ==
  /\ \A f \in Files : Header(f) \in Messages /\ Header(f).type = "header" /\ Header(f).file = f
  /\ \A f \in Files, i \in 1..MaxChunks :
       /\ Chunk(f, i) \in Messages /\ Chunk(f, i).type = "chunk"
       /\ Chunk(f, i).file = f /\ Chunk(f, i).nr = i
  /\ Delimiter \in Messages /\ Delimiter.type = "delimiter"
  /\ \A f \in Files, ok \in BOOLEAN : Status(f, ok) \in Messages /\ Status(f, ok).type = "status"
BY MessagesMade DEF Header, Chunk, Delimiter, Status

\* What the sender's steps with files do to the control points and the inboxes.
SendersFile == SendChunk \/ EndFile \/ SendDelimiter \/ ReceiveLast \/ \E f \in Files : SendFile(f)

\* The messages and control points of the sender with its files.
LEMMA SendersFileDone ==
  ASSUME TypeOK, Points, SendersFile
  PROVE  /\ pc["sender"] \in {"sending", "chunks", "last"}
         /\ pc'["sender"] \in {"sending", "chunks", "last", "closing"}
         /\ BoxesOK' /\ pc'["receiver"] = pc["receiver"] /\ Coming("sender")' \subseteq Coming("sender")
         /\ \A m \in Coming("receiver")' : m \in Coming("receiver") \/ m.type \in Data
<1>1. /\ BoxesOK /\ "sender" \in Sides /\ "receiver" \in Sides
      /\ Other("sender") = "receiver" /\ Other("receiver") = "sender"
  BY DEF TypeOK, BoxesOK, Sides, Other
<1>2. ASSUME NEW m \in Messages, NEW at \in {"sending", "chunks", "last", "closing"}, m.type \in Data,
             Answers("sender", <<>>, at) \/ Sends("sender", <<m>>, at)
      PROVE  /\ pc'["sender"] \in {"sending", "chunks", "last", "closing"}
             /\ BoxesOK' /\ pc'["receiver"] = pc["receiver"] /\ Coming("sender")' \subseteq Coming("sender")
             /\ \A n \in Coming("receiver")' : n \in Coming("receiver") \/ n.type \in Data
  <2>1. Coming("sender")' \subseteq Coming("sender") /\ Coming("receiver")' \subseteq Coming("receiver") \cup {m}
    BY <1>1, <1>2, ComingAfter
  <2> QED
    BY <1>1, <1>2, <2>1 DEF Answers, Sends
<1>3. UNCHANGED inbox => BoxesOK' /\ Coming("sender")' = Coming("sender") /\ Coming("receiver")' = Coming("receiver")
  BY <1>1 DEF Coming, BoxesOK
<1>4. CASE SendChunk
  <2>1. PICK m \in Messages : pc["sender"] = "chunks" /\ m.type = "chunk" /\ Sends("sender", <<m>>, "chunks")
    BY <1>4, SendChunkDone, DataKinds
  <2> QED
    BY <1>2, <2>1 DEF Data
<1>5. CASE EndFile
  <2>1. pc["sender"] = "chunks" /\ Goto("sender", "sending") /\ UNCHANGED inbox
    BY <1>5 DEF EndFile
  <2> QED
    BY <1>1, <1>3, <2>1, Moves
<1>6. CASE SendDelimiter
  <2>1. pc["sender"] = "sending" /\ Delimiter.type \in Data /\ Delimiter \in Messages
        /\ Sends("sender", <<Delimiter>>, "last")
    BY <1>6, SendDelimiterDone, DataKinds DEF Data
  <2> QED
    BY <1>2, <2>1
<1>7. CASE ReceiveLast
  <2>1. pc["sender"] = "last" /\ Delimiter.type \in Data /\ Delimiter \in Messages
        /\ Answers("sender", <<>>, "closing")
    BY <1>7, ReceiveLastDone, DataKinds DEF Data
  <2> QED
    BY <1>2, <2>1
<1>8. CASE \E f \in Files : SendFile(f)
  <2>1. PICK f \in Files : SendFile(f)
    BY <1>8
  <2>2. pc["sender"] = "sending" /\ (Sends("sender", <<Header(f)>>, "chunks") \/ UNCHANGED <<inbox, pc>>)
    BY <2>1, SendFileDone
  <2>3. Header(f).type \in Data /\ Header(f) \in Messages
    BY DataKinds DEF Data
  <2> QED
    BY <1>2, <1>3, <2>2, <2>3
<1> QED
  BY <1>4, <1>5, <1>6, <1>7, <1>8 DEF SendersFile

\* What the receiver's steps with files do to the control points and the inboxes.
ReceiversFile == EndOfFile \/ SendStatus \/ ReceiveHeader \/ ReceiveChunk

\* The messages and control points of the receiver with the files.
LEMMA ReceiversFileDone ==
  ASSUME TypeOK, Points, ReceiversFile
  PROVE  /\ pc["receiver"] \in {"receiving", "result"}
         /\ pc'["receiver"] \in AfterSelection
         /\ pc'["receiver"] = "result" => inbox["receiver"] # <<>>
         /\ BoxesOK' /\ pc'["sender"] = pc["sender"] /\ UNCHANGED begun
         /\ \/ inbox'["receiver"] = inbox["receiver"]
            \/ inbox["receiver"] # <<>> /\ inbox'["receiver"] = Tail(inbox["receiver"])
         /\ Coming("receiver")' \subseteq Coming("receiver")
         /\ \A m \in Coming("sender")' : m \in Coming("sender") \/ m.type = "status"
         /\ ~SendStatus => inbox["receiver"] # <<>> /\ inbox'["receiver"] = Tail(inbox["receiver"])
<1>1. /\ BoxesOK /\ "sender" \in Sides /\ "receiver" \in Sides
      /\ Other("sender") = "receiver" /\ Other("receiver") = "sender"
  BY DEF TypeOK, BoxesOK, Sides, Other
<1>2. UNCHANGED begun
  BY DEF ReceiversFile, EndOfFile, SendStatus, ReceiveHeader, ReceiveChunk, sending
<1>3. CASE SendStatus
  <2>1. PICK m \in Messages, at \in {"closing", "receiving"} :
          pc["receiver"] = "result" /\ m.type = "status" /\ Sends("receiver", <<m>>, at)
    BY <1>3, SendStatusDone, DataKinds
  <2>2. Coming("receiver")' \subseteq Coming("receiver") /\ Coming("sender")' \subseteq Coming("sender") \cup {m}
    BY <1>1, <2>1, ComingAfter
  <2> QED
    BY <1>1, <1>2, <1>3, <2>1, <2>2 DEF Sends, AfterSelection
<1>4. CASE EndOfFile \/ ReceiveHeader \/ ReceiveChunk
  <2>1. PICK at \in AfterSelection : pc["receiver"] = "receiving" /\ Answers("receiver", <<>>, at)
    BY <1>4, EndOfFileDone, ReceiveHeaderDone, ReceiveChunkDone DEF AfterSelection, ChunkDropped
  <2>2. Coming("receiver")' \subseteq Coming("receiver") /\ Coming("sender")' \subseteq Coming("sender")
    BY <1>1, <2>1, ComingAfter
  <2> QED
    BY <1>1, <1>2, <2>1, <2>2 DEF Answers
<1> QED
  BY <1>3, <1>4 DEF ReceiversFile

\* Every step, by what the offer has to do with it.
LEMMA Turns ==
  ASSUME Next
  PROVE  \/ (SendersTurn \/ ReceiversTurn) /\ UNCHANGED <<begun, selection, sending, receiving, app>>
         \/ SendFileList \/ ReceiveSelection \/ Decline \/ SendSelection
         \/ SendersFile \/ ReceiversFile
         \/ \E p \in Sides : \/ Misread(p) \/ Close(p) \/ Break \/ Disconnected(p) \/ Desert \/ SendFails(p)
                             \/ \E f \in Files : Report(f)
<1>1. SendersTurn \/ ReceiversTurn => UNCHANGED <<begun, selection, sending, receiving, app>>
  BY DEF SendersTurn, ReceiversTurn, SendNonce, ReceiveNonce, ReceiveToken, ReceiveTokenReply, SendPin,
         ReceivePin, ReceivePinReply, ReceiveFileList, sending, receiving, app
<1>2. CASE OfFiles
  BY <1>2 DEF OfFiles, SendersFile, ReceiversFile, Sides
<1>3. ASSUME NEW p \in Sides, FilesAlone(p)
      PROVE  \/ SendersTurn \/ ReceiversTurn
             \/ SendFileList \/ ReceiveSelection \/ Decline \/ SendersFile
             \/ Misread(p) \/ Close(p) \/ Break \/ Disconnected(p) \/ Desert \/ SendFails(p)
  <2>1. p = "sender" \/ p = "receiver"
    BY DEF Sides
  <2> QED
    BY <1>3, <2>1 DEF FilesAlone, SendersTurn, ReceiversTurn, SendersFile
<1> QED
  BY <1>1, <1>2, <1>3, TwoKinds

\* Every step keeps the order of the offer, the selection and the files.
LEMMA OfferStep ==
  ASSUME AgreementInv, OfferInv, Next
  PROVE  OfferInv'
<1>1. TypeOK /\ Points /\ Knows /\ "receiver" \in Sides
  BY DEF AgreementInv, Sides
<1>2. CASE (SendersTurn \/ ReceiversTurn) /\ UNCHANGED <<begun, selection, sending, receiving, app>>
  BY <1>2, OfferHandshake
<1>3. CASE SendFileList \/ ReceiveSelection \/ Decline \/ SendSelection
  <2>1. UNCHANGED begun
    BY <1>3 DEF SendFileList, ReceiveSelection, Decline, SendSelection, sending
  <2> QED
    BY <1>3, <2>1, OfferAnswered
<1>4. CASE SendersFile
  BY <1>1, <1>4, SendersFileDone, LateSender
<1>5. CASE ReceiversFile
  BY <1>1, <1>5, ReceiversFileDone, LateReceiver
<1>6. CASE \E p \in Sides : \/ Misread(p) \/ Close(p) \/ Break \/ Disconnected(p) \/ Desert \/ SendFails(p)
                            \/ \E f \in Files : Report(f)
  BY <1>1, <1>6, Losses, OfferLess
<1> QED
  BY <1>2, <1>3, <1>4, <1>5, <1>6, Turns

-----------------------------------------------------------------------------
(* The two sides stay in step                                              *)

\* The receiver is dead, has nothing to read, or finds what the sender sent
\* when it went on to "at".
ReceiverFinds ==
 LET at == pc'["sender"] IN
  \/ pc["receiver"] = "over"
  \/ /\ inbox'["receiver"] = <<>> /\ pc["receiver"] \notin {"prompt", "select"}
     /\ at = "prompt" => pc["receiver"] = "guess"
     /\ at = "offer" => pc["receiver"] \in {"list", "pinSent"}
  \/ \E m \in Messages :
       /\ inbox'["receiver"] = <<m>> /\ at \notin {"prompt", "offer"}
       /\ \/ pc["receiver"] = "nonce" /\ m.type = "nonce" /\ at = "nonce"
          \/ pc["receiver"] = "token" /\ m.type = "token" /\ at = "token"
          \/ pc["receiver"] = "guess" /\ m.type = "pin" /\ at = "pinSent"
          \/ /\ pc["receiver"] \in {"list", "pinSent"} /\ m.type = "pinString"
             /\ \/ m.result = "ok" /\ at = "selection"
                \/ m.result = "required" /\ at = "guess"
                \/ m.result = "tooMany" /\ pc["receiver"] = "pinSent"

\* The sender has read what came, or had nothing to read.
LEMMA SenderPassed ==
  ASSUME BoxesOK', pc'["receiver"] = pc["receiver"], inbox'["sender"] = <<>>,
         \A p \in Sides : why'[p] # "outOfStep", pc'["sender"] # "start",
         ReceiverFinds
  PROVE  Agreed'
<1> DEFINE at == pc'["sender"]
<1>1. "sender" \in Sides /\ "receiver" \in Sides /\ \A p \in Sides : p = "sender" \/ p = "receiver"
  BY DEF Sides
<1>2. CASE pc["receiver"] = "over"
  BY <1>1, <1>2 DEF Agreed, FindsExpected, SenderTurns, ReceiverTurns, Arrived, Expects, Waiting
<1>3. CASE /\ inbox'["receiver"] = <<>> /\ pc["receiver"] \notin {"prompt", "select"}
           /\ at = "prompt" => pc["receiver"] = "guess"
           /\ at = "offer" => pc["receiver"] \in {"list", "pinSent"}
  BY <1>1, <1>3 DEF Agreed, FindsExpected, SenderTurns, ReceiverTurns, Arrived, Expects, Waiting
<1>4. ASSUME NEW m \in Messages,
             inbox'["receiver"] = <<m>> /\ at \notin {"prompt", "offer"},
             \/ pc["receiver"] = "nonce" /\ m.type = "nonce" /\ at = "nonce"
             \/ pc["receiver"] = "token" /\ m.type = "token" /\ at = "token"
             \/ pc["receiver"] = "guess" /\ m.type = "pin" /\ at = "pinSent"
             \/ /\ pc["receiver"] \in {"list", "pinSent"} /\ m.type = "pinString"
                /\ \/ m.result = "ok" /\ at = "selection"
                   \/ m.result = "required" /\ at = "guess"
                   \/ m.result = "tooMany" /\ pc["receiver"] = "pinSent"
      PROVE  Agreed'
  <2>2. Len(inbox'["receiver"]) = 1 /\ Head(inbox'["receiver"]) = m /\ inbox'["receiver"] # <<>>
    BY <1>4
  <2>3. FindsExpected("receiver")' /\ FindsExpected("sender")'
    BY <1>4, <2>2 DEF FindsExpected, Arrived, Expects
  <2>4. ReceiverTurns'
    BY <1>4, <2>2 DEF ReceiverTurns, Arrived, Expects, Waiting
  <2>5. SenderTurns'
    BY <1>4 DEF SenderTurns, Arrived, Waiting
  <2> QED
    BY <1>1, <2>3, <2>4, <2>5 DEF Agreed
<1> QED
  BY <1>2, <1>3, <1>4 DEF ReceiverFinds

\* The same the other way round.
SenderFinds ==
 LET at == pc'["receiver"] IN
  \/ pc["sender"] = "over"
  \/ /\ inbox'["sender"] = <<>> /\ pc["sender"] \notin {"start", "prompt", "offer"}
     /\ at = "prompt" => pc["sender"] = "guess"
     /\ at = "select" => pc["sender"] = "selection"
  \/ \E m \in Messages :
       /\ inbox'["sender"] = <<m>> /\ at \notin {"prompt", "select"}
       /\ \/ pc["sender"] = "nonce" /\ m.type = "nonce" /\ at = "token"
          \/ /\ pc["sender"] = "token" /\ m.type = "tokenReply"
             /\ m = Invalid \/ at = IF m.result = "ok" THEN "list" ELSE "guess"
          \/ /\ pc["sender"] = "pinSent" /\ m.type = "pinText"
             /\ m.result = "tooMany" \/ at = IF m.result = "ok" THEN "list" ELSE "guess"
          \/ pc["sender"] = "guess" /\ m.type = "pin" /\ at = "pinSent"
          \/ pc["sender"] = "selection" /\ m.type = "fileTokens" /\ at \in {"receiving", "closing"}

\* After a step of the receiver the sides are in step when the sender finds what it expects.
LEMMA ReceiverPassed ==
  ASSUME BoxesOK', pc'["sender"] = pc["sender"], inbox'["receiver"] = <<>>,
         \A p \in Sides : why'[p] # "outOfStep",
         SenderFinds
  PROVE  Agreed'
<1> DEFINE at == pc'["receiver"]
<1>1. "sender" \in Sides /\ "receiver" \in Sides /\ \A p \in Sides : p = "sender" \/ p = "receiver"
  BY DEF Sides
<1>2. CASE pc["sender"] = "over"
  BY <1>1, <1>2 DEF Agreed, FindsExpected, SenderTurns, ReceiverTurns, Arrived, Expects, Waiting
<1>3. CASE /\ inbox'["sender"] = <<>> /\ pc["sender"] \notin {"start", "prompt", "offer"}
           /\ at = "prompt" => pc["sender"] = "guess"
           /\ at = "select" => pc["sender"] = "selection"
  BY <1>1, <1>3 DEF Agreed, FindsExpected, SenderTurns, ReceiverTurns, Arrived, Expects, Waiting
<1>4. ASSUME NEW m \in Messages,
             inbox'["sender"] = <<m>> /\ at \notin {"prompt", "select"},
             \/ pc["sender"] = "nonce" /\ m.type = "nonce" /\ at = "token"
             \/ /\ pc["sender"] = "token" /\ m.type = "tokenReply"
                /\ m = Invalid \/ at = IF m.result = "ok" THEN "list" ELSE "guess"
             \/ /\ pc["sender"] = "pinSent" /\ m.type = "pinText"
                /\ m.result = "tooMany" \/ at = IF m.result = "ok" THEN "list" ELSE "guess"
             \/ pc["sender"] = "guess" /\ m.type = "pin" /\ at = "pinSent"
             \/ pc["sender"] = "selection" /\ m.type = "fileTokens" /\ at \in {"receiving", "closing"}
      PROVE  Agreed'
  <2>2. Len(inbox'["sender"]) = 1 /\ Head(inbox'["sender"]) = m /\ inbox'["sender"] # <<>>
    BY <1>4
  <2>3. FindsExpected("receiver")' /\ FindsExpected("sender")'
    BY <1>4, <2>2 DEF FindsExpected, Arrived, Expects
  <2>4. SenderTurns'
    BY <1>4, <2>2 DEF SenderTurns, Arrived, Expects, Waiting
  <2>5. ReceiverTurns'
    BY <1>4 DEF ReceiverTurns, Arrived, Waiting
  <2> QED
    BY <1>1, <2>3, <2>4, <2>5 DEF Agreed
<1> QED
  BY <1>2, <1>3, <1>4 DEF SenderFinds

\* Less on its way, or a side less, does no harm.
LEMMA AgreedLess ==
  ASSUME TypeOK, Agreed, \A p \in Sides : why'[p] # "outOfStep",
         \A p \in Sides :
           /\ pc'[p] = pc[p] \/ pc'[p] = "over"
           /\ \/ inbox'[p] = inbox[p]
              \/ inbox[p] # <<>> /\ inbox'[p] = Tail(inbox[p])
              \/ inbox'[p] \in Prefixes(inbox[p])
              \/ inbox'[p] = <<>>
           /\ inbox[p] = <<>> => inbox'[p] = <<>>
  PROVE  Agreed'
<1>1. "sender" \in Sides /\ "receiver" \in Sides /\ \A p \in Sides : p = "sender" \/ p = "receiver"
  BY DEF Sides
<1>2. ASSUME NEW p \in Sides, Len(inbox[p]) = 1
      PROVE  inbox'[p] = <<>> \/ inbox'[p] = inbox[p]
  <2>1. inbox[p] \in Seq(Messages)
    BY DEF TypeOK
  <2>2. CASE inbox[p] # <<>> /\ inbox'[p] = Tail(inbox[p])
    <3>1. Tail(inbox[p]) \in Seq(Messages) /\ Len(Tail(inbox[p])) = 0
      BY <1>2, <2>1, <2>2
    <3> QED
      BY <2>2, <3>1, EmptySeq
  <2>3. CASE inbox'[p] \in Prefixes(inbox[p])
    <3>0. /\ inbox'[p] \in Seq(Messages) /\ Len(inbox'[p]) <= Len(inbox[p])
          /\ \A i \in 1..Len(inbox'[p]) : inbox'[p][i] = inbox[p][i]
      BY <2>1, <2>3, Beginning
    <3>1. /\ inbox'[p] \in Seq(Messages) /\ Len(inbox'[p]) <= 1
          /\ \A i \in 1..Len(inbox'[p]) : inbox'[p][i] = inbox[p][i]
      BY <1>2, <3>0
    <3>2. Len(inbox'[p]) = 0 \/ Len(inbox'[p]) = Len(inbox[p])
      <4>1. PICK r \in Seq(Messages) : r = inbox'[p]
        BY <3>1
      <4>2. Len(r) <= 1
        BY <3>1, <4>1
      <4>0. Len(r) \in Nat
        OBVIOUS
      <4>5. \A n \in Nat : n <= 1 => n = 0 \/ n = 1
        OBVIOUS
      <4>3. Len(r) = 0 \/ Len(r) = 1
        BY <4>2, <4>0, <4>5
      <4> QED
        BY <1>2, <4>1, <4>3
    <3>3. CASE Len(inbox'[p]) = 0
      BY <3>1, <3>3, EmptySeq
    <3>4. CASE Len(inbox'[p]) = Len(inbox[p])
      <4>1. PICK r \in Seq(Messages) : r = inbox'[p]
        BY <3>1
      <4>2. PICK t \in Seq(Messages) : t = inbox[p]
        BY <2>1
      <4>3. r = t
        BY <3>1, <3>4, <4>1, <4>2, SeqEqual
      <4> QED
        BY <4>1, <4>2, <4>3
    <3> QED
      BY <3>2, <3>3, <3>4
  <2> QED
    BY <2>2, <2>3
<1>3. ASSUME NEW p \in Sides, Arrived(p)'
      PROVE  pc'[p] = pc[p] /\ Arrived(p) /\ inbox'[p] = inbox[p]
  <2>1. pc'[p] = pc[p] /\ inbox'[p] # <<>>
    BY <1>3 DEF Arrived, Expects
  <2>2. Arrived(p)
    BY <1>3, <2>1 DEF Arrived, Expects
  <2>3. Len(inbox[p]) = 1
    BY <2>2 DEF Agreed, FindsExpected
  <2> QED
    BY <1>2, <2>1, <2>2, <2>3
<1>4. ASSUME NEW p \in Sides, NEW S, Waiting(p, S)
      PROVE  Waiting(p, S)'
  BY <1>4 DEF Waiting
<1>5. \A p \in Sides : FindsExpected(p)'
  BY <1>3 DEF Agreed, FindsExpected, Expects
<1>6. SenderTurns'
  BY <1>1, <1>3, <1>4 DEF Agreed, SenderTurns, Waiting
<1>7. ReceiverTurns'
  BY <1>1, <1>3, <1>4 DEF Agreed, ReceiverTurns, Waiting
<1> QED
  BY <1>5, <1>6, <1>7 DEF Agreed

\* What was read was all there was, and what is sent is all there is.
LEMMA ReadAll ==
  ASSUME TypeOK, Agreed, NEW p \in Sides, NEW msgs \in Seq(Messages), NEW at,
         \/ Arrived(p) /\ Answers(p, msgs, at)
         \/ inbox[p] = <<>> /\ Sends(p, msgs, at)
  PROVE  /\ inbox'[p] = <<>> /\ pc'[p] = at /\ pc'[Other(p)] = pc[Other(p)] /\ BoxesOK'
         /\ inbox[Other(p)] = <<>> => inbox'[Other(p)] = <<>> \/ inbox'[Other(p)] = msgs
<1>1. BoxesOK
  BY DEF TypeOK, BoxesOK
<1>2. CASE Arrived(p) /\ Answers(p, msgs, at)
  <2>1. Len(inbox[p]) = 1
    BY <1>2 DEF Agreed, FindsExpected
  <2> QED
    BY <1>1, <1>2, <2>1, InboxesAfter DEF Answers
<1>3. CASE inbox[p] = <<>> /\ Sends(p, msgs, at)
  BY <1>1, <1>3, InboxesAfter DEF Sends
<1> QED
  BY <1>2, <1>3

\* The same of one message.
LEMMA ReadOne ==
  ASSUME TypeOK, Agreed, NEW p \in Sides, NEW m \in Messages, NEW at,
         \/ Arrived(p) /\ Answers(p, <<m>>, at)
         \/ inbox[p] = <<>> /\ Sends(p, <<m>>, at)
  PROVE  /\ inbox'[p] = <<>> /\ pc'[p] = at /\ pc'[Other(p)] = pc[Other(p)] /\ BoxesOK'
         /\ inbox[Other(p)] = <<>> => inbox'[Other(p)] = <<>> \/ inbox'[Other(p)] = <<m>>
<1>1. PICK msgs \in Seq(Messages) : msgs = <<m>>
  <2> DEFINE one == <<m>>
  <2>1. one \in Seq(Messages)
    OBVIOUS
  <2> HIDE DEF one
  <2>2. \E msgs \in Seq(Messages) : msgs = one
    BY <2>1
  <2> QED
    BY <2>2 DEF one
<1>2. \/ Arrived(p) /\ Answers(p, msgs, at)
      \/ inbox[p] = <<>> /\ Sends(p, msgs, at)
  BY <1>1
<1>3. /\ inbox'[p] = <<>> /\ pc'[p] = at /\ pc'[Other(p)] = pc[Other(p)] /\ BoxesOK'
      /\ inbox[Other(p)] = <<>> => inbox'[Other(p)] = <<>> \/ inbox'[Other(p)] = msgs
  BY <1>2, ReadAll
<1> QED
  BY <1>1, <1>3

\* The same of a message that is read and not answered.
LEMMA ReadNone ==
  ASSUME TypeOK, Agreed, NEW p \in Sides, NEW at, Arrived(p), Answers(p, <<>>, at)
  PROVE  /\ inbox'[p] = <<>> /\ pc'[p] = at /\ pc'[Other(p)] = pc[Other(p)] /\ BoxesOK'
         /\ inbox[Other(p)] = <<>> => inbox'[Other(p)] = <<>>
<1>1. PICK msgs \in Seq(Messages) : msgs = <<>>
  BY EmptySeq
<1>2. Arrived(p) /\ Answers(p, msgs, at)
  BY <1>1
<1> QED
  BY <1>1, <1>2, ReadAll

\* The sender's steps, in step.
LEMMA AgreedSenders ==
  ASSUME AgreementInv, Agreed, MaxTries > 0,
         SendNonce \/ ReceiveNonce("sender") \/ SendPin("sender") \/ ReceivePin("sender") \/ SendFileList
  PROVE  Agreed'
<1>1. /\ TypeOK /\ Knows /\ GuessInv /\ "sender" \in Sides /\ "receiver" \in Sides
      /\ Other("sender") = "receiver" /\ <<>> \in Seq(Messages)
      /\ \A p \in Sides : p = "sender" \/ p = "receiver"
      /\ \A p \in Sides : why[p] # "outOfStep"
  BY DEF AgreementInv, Knows, Sides, Other, Agreed
<1>2. UNCHANGED why => \A p \in Sides : why'[p] # "outOfStep"
  BY <1>1
<1>3. CASE SendNonce
  <2>1. /\ pc["sender"] = "start" /\ Sends("sender", <<Nonce>>, "nonce") /\ UNCHANGED why
        /\ Nonce \in Messages /\ Nonce.type = "nonce" /\ <<Nonce>> \in Seq(Messages)
    BY <1>1, <1>3, SendNonceDone, MessagesMade DEF Nonce
  <2>2. inbox["sender"] = <<>> /\ Waiting("receiver", {"nonce"})
    BY <2>1 DEF Agreed, SenderTurns
  <2>3. /\ inbox'["sender"] = <<>> /\ pc'["sender"] = "nonce" /\ pc'["receiver"] = pc["receiver"] /\ BoxesOK'
        /\ inbox["receiver"] = <<>> => inbox'["receiver"] = <<>> \/ inbox'["receiver"] = <<Nonce>>
    BY <1>1, <2>1, <2>2, ReadOne
  <2>4. ReceiverFinds
    BY <2>1, <2>2, <2>3 DEF Waiting, ReceiverFinds
  <2> QED
    BY <1>2, <2>1, <2>3, <2>4, SenderPassed
<1>4. CASE ReceiveNonce("sender")
  <2>1. PICK m \in Messages : m = Token(LocalToken("sender")) /\ m.type = "token"
    BY MessagesMade DEF Token
  <2>2. /\ pc["sender"] = "nonce" /\ Arrived("sender") /\ Answers("sender", <<m>>, "token") /\ UNCHANGED why
        /\ <<m>> \in Seq(Messages)
    BY <1>1, <1>4, <2>1, ReceiveNonceDone DEF ReceiveNonce, Reads
  <2>3. Waiting("receiver", {"token"})
    BY <2>2 DEF Agreed, SenderTurns
  <2>4. /\ inbox'["sender"] = <<>> /\ pc'["sender"] = "token" /\ pc'["receiver"] = pc["receiver"] /\ BoxesOK'
        /\ inbox["receiver"] = <<>> => inbox'["receiver"] = <<>> \/ inbox'["receiver"] = <<m>>
    BY <1>1, <2>2, ReadOne
  <2>5. ReceiverFinds
    BY <2>1, <2>3, <2>4 DEF Waiting, ReceiverFinds
  <2> QED
    BY <1>2, <2>2, <2>4, <2>5, SenderPassed
<1>5. CASE SendPin("sender")
  <2>1. PICK m \in Messages : m.type = "pin" /\ pc["sender"] = "prompt" /\ Sends("sender", <<m>>, "pinSent") /\ UNCHANGED why
    <3>1. PICK g \in Pins : pc["sender"] = "prompt" /\ Sends("sender", <<Pin(g)>>, "pinSent") /\ UNCHANGED why
      BY <1>1, <1>5, SendPinDone
    <3>2. Pin(g) \in Messages /\ Pin(g).type = "pin"
      BY MessagesMade DEF Pin
    <3> QED
      BY <3>1, <3>2
  <2>2. inbox["sender"] = <<>> /\ Waiting("receiver", {"guess"}) /\ <<m>> \in Seq(Messages)
    BY <2>1 DEF Agreed, SenderTurns
  <2>3. /\ inbox'["sender"] = <<>> /\ pc'["sender"] = "pinSent" /\ pc'["receiver"] = pc["receiver"] /\ BoxesOK'
        /\ inbox["receiver"] = <<>> => inbox'["receiver"] = <<>> \/ inbox'["receiver"] = <<m>>
    BY <1>1, <2>1, <2>2, ReadOne
  <2>4. ReceiverFinds
    BY <2>1, <2>2, <2>3 DEF Waiting, ReceiverFinds
  <2> QED
    BY <1>2, <2>1, <2>3, <2>4, SenderPassed
<1>6. CASE SendFileList
  <2>1. /\ pc["sender"] = "offer" /\ Sends("sender", <<Offer>>, "selection") /\ UNCHANGED why
        /\ Offer \in Messages /\ Offer.type = "pinString" /\ Offer.result = "ok" /\ <<Offer>> \in Seq(Messages)
    BY <1>1, <1>6, SendFileListDone, NotTheOffer DEF Offer
  <2>2. inbox["sender"] = <<>> /\ Waiting("receiver", {"list", "pinSent"})
    BY <2>1 DEF Agreed, SenderTurns
  <2>3. /\ inbox'["sender"] = <<>> /\ pc'["sender"] = "selection" /\ pc'["receiver"] = pc["receiver"] /\ BoxesOK'
        /\ inbox["receiver"] = <<>> => inbox'["receiver"] = <<>> \/ inbox'["receiver"] = <<Offer>>
    BY <1>1, <2>1, <2>2, ReadOne
  <2>4. ReceiverFinds
    BY <2>1, <2>2, <2>3 DEF Waiting, ReceiverFinds
  <2> QED
    BY <1>2, <2>1, <2>3, <2>4, SenderPassed
<1>7. CASE ReceivePin("sender")
  <2>1. pc["sender"] = "guess" /\ Arrived("sender")
    BY <1>7 DEF ReceivePin, Reads
  <2>2. Waiting("receiver", {"pinSent"})
    BY <2>1 DEF Agreed, SenderTurns
  <2>3. CASE Answers("sender", <<>>, "offer") /\ UNCHANGED why
    <3>1. /\ inbox'["sender"] = <<>> /\ pc'["sender"] = "offer" /\ pc'["receiver"] = pc["receiver"] /\ BoxesOK'
          /\ inbox["receiver"] = <<>> => inbox'["receiver"] = <<>>
      BY <1>1, <2>1, <2>3, ReadNone
    <3>2. ReceiverFinds
      BY <2>2, <3>1 DEF Waiting, ReceiverFinds
    <3> QED
      BY <1>2, <2>3, <3>1, <3>2, SenderPassed
  <2>4. ASSUME NEW r \in {"tooMany", "required"}, NEW at \in {"over", "guess"},
               Answers("sender", <<PinReply("sender", r)>>, at), r = "required" => at = "guess",
               \A p \in Sides : why'[p] # "outOfStep"
        PROVE  Agreed'
    <3>1. PICK m \in Messages : m = PinReply("sender", r) /\ m.type = "pinString" /\ m.result = r
      BY VerdictKinds DEF Verdicts
    <3>2. Answers("sender", <<m>>, at) /\ <<m>> \in Seq(Messages)
      BY <2>4, <3>1
    <3>3. /\ inbox'["sender"] = <<>> /\ pc'["sender"] = at /\ pc'["receiver"] = pc["receiver"] /\ BoxesOK'
          /\ inbox["receiver"] = <<>> => inbox'["receiver"] = <<>> \/ inbox'["receiver"] = <<m>>
      BY <1>1, <2>1, <3>2, ReadOne
    <3>4. ReceiverFinds
      BY <2>2, <2>4, <3>1, <3>3 DEF Waiting, ReceiverFinds
    <3> QED
      BY <2>4, <3>3, <3>4, SenderPassed
  <2>5. FailsWith("sender", "tooMany") => \A p \in Sides : why'[p] # "outOfStep"
    BY <1>1 DEF FailsWith
  <2> QED
    BY <1>1, <1>2, <1>7, <2>3, <2>4, <2>5, ReceivePinDone DEF Content
<1> QED
  BY <1>3, <1>4, <1>5, <1>6, <1>7

\* A side that dies on what it read leaves nothing out of step.
LEMMA AgreedFails ==
  ASSUME TypeOK, Agreed, NEW p \in Sides, NEW reason, reason # "outOfStep",
         Answers(p, <<>>, "over"), FailsWith(p, reason)
  PROVE  Agreed'
<1>1. Other(p) \in Sides /\ p # Other(p) /\ \A q \in Sides : q = p \/ q = Other(p)
  BY DEF Other, Sides
<1>2. inbox[p] # <<>> /\ inbox'[p] = Tail(inbox[p]) /\ pc'[p] = "over" /\ pc'[Other(p)] = pc[Other(p)]
  BY DEF Answers
<1>3. inbox'[Other(p)] = inbox[Other(p)]
  <2>1. inbox[Other(p)] \in Seq(Messages)
    BY <1>1 DEF TypeOK
  <2>2. inbox[Other(p)] \o <<>> = inbox[Other(p)]
    BY <2>1, ConcatEmptySeq
  <2> QED
    BY <2>2 DEF Answers
<1>4. \A q \in Sides : why'[q] # "outOfStep"
  BY <1>1 DEF FailsWith, Agreed
<1>5. ASSUME NEW q \in Sides
      PROVE  /\ pc'[q] = pc[q] \/ pc'[q] = "over"
             /\ \/ inbox'[q] = inbox[q]
                \/ inbox[q] # <<>> /\ inbox'[q] = Tail(inbox[q])
             /\ inbox[q] = <<>> => inbox'[q] = <<>>
  <2>1. CASE q = p
    BY <1>2, <2>1
  <2>2. CASE q = Other(p)
    BY <1>2, <1>3, <2>2
  <2> QED
    BY <1>1, <2>1, <2>2
<1> QED
  BY <1>4, <1>5, AgreedLess

\* The sender goes on to its own PIN.
LEMMA AgreedSenderOwns ==
  ASSUME AgreementInv, Agreed, MaxTries > 0, SenderOwns, Arrived("sender"),
         pc["sender"] \in {"token", "pinSent"}, Waiting("receiver", {"list"})
  PROVE  Agreed'
<1>1. /\ TypeOK /\ "sender" \in Sides /\ Other("sender") = "receiver" /\ <<>> \in Seq(Messages)
      /\ \A p \in Sides : why[p] # "outOfStep"
  BY DEF AgreementInv, Sides, Other, Agreed
<1>2. tries["sender"] = 0 /\ 0 < MaxTries /\ ~(0 >= MaxTries)
  <2>1. MaxTries \in Nat
    BY RtcAssumption
  <2>2. tries["sender"] = 0
    BY <1>1 DEF AgreementInv, Knows, GuessInv
  <2> QED
    BY <2>1, <2>2
<1>3. CASE Answers("sender", <<>>, "offer") /\ UNCHANGED why
  <2>1. /\ inbox'["sender"] = <<>> /\ pc'["sender"] = "offer" /\ pc'["receiver"] = pc["receiver"] /\ BoxesOK'
        /\ inbox["receiver"] = <<>> => inbox'["receiver"] = <<>>
    BY <1>1, <1>3, ReadNone
  <2>2. ReceiverFinds
    BY <2>1 DEF Waiting, ReceiverFinds
  <2> QED
    BY <1>1, <1>3, <2>1, <2>2, SenderPassed
<1>4. CASE Answers("sender", <<PinReply("sender", "required")>>, "guess") /\ UNCHANGED why
  <2>1. PICK m \in Messages : m = PinReply("sender", "required") /\ m.type = "pinString" /\ m.result = "required"
    BY VerdictKinds DEF Verdicts
  <2>2. Answers("sender", <<m>>, "guess")
    BY <1>4, <2>1
  <2>3. /\ inbox'["sender"] = <<>> /\ pc'["sender"] = "guess" /\ pc'["receiver"] = pc["receiver"] /\ BoxesOK'
        /\ inbox["receiver"] = <<>> => inbox'["receiver"] = <<>> \/ inbox'["receiver"] = <<m>>
    BY <1>1, <2>2, ReadOne
  <2>4. ReceiverFinds
    BY <2>1, <2>3 DEF Waiting, ReceiverFinds
  <2> QED
    BY <1>1, <1>4, <2>3, <2>4, SenderPassed
<1> QED
  BY <1>2, <1>3, <1>4 DEF SenderOwns

\* The sender reads a verdict, or the selection.
LEMMA AgreedVerdicts ==
  ASSUME AgreementInv, Agreed, MaxTries > 0,
         ReceiveTokenReply \/ ReceivePinReply("sender") \/ ReceiveSelection
  PROVE  Agreed'
<1>1. /\ TypeOK /\ "sender" \in Sides /\ Other("sender") = "receiver" /\ <<>> \in Seq(Messages)
      /\ \A p \in Sides : why[p] # "outOfStep"
  BY DEF AgreementInv, Sides, Other, Agreed
<1>2. ASSUME NEW at \in {"prompt", "closing", "sending"}, NEW S \in {{"guess"}, {"receiving", "closing"}},
             Answers("sender", <<>>, at), UNCHANGED why, Arrived("sender"),
             Waiting("receiver", S), at = "prompt" => S = {"guess"}
      PROVE  Agreed'
  <2>1. /\ inbox'["sender"] = <<>> /\ pc'["sender"] = at /\ pc'["receiver"] = pc["receiver"] /\ BoxesOK'
        /\ inbox["receiver"] = <<>> => inbox'["receiver"] = <<>>
    BY <1>1, <1>2, ReadNone
  <2>2. ReceiverFinds
    BY <1>2, <2>1 DEF Waiting, ReceiverFinds
  <2> QED
    BY <1>1, <1>2, <2>1, <2>2, SenderPassed
<1>3. CASE ReceiveTokenReply
  <2>1. pc["sender"] = "token" /\ Arrived("sender")
    BY <1>3 DEF ReceiveTokenReply, Reads
  <2>2. CASE Answers("sender", <<>>, "over") /\ FailsWith("sender", "key")
    BY <1>1, <2>2, AgreedFails
  <2>3. CASE /\ Head(inbox["sender"]) # Invalid /\ Head(inbox["sender"]).result = "pinRequired"
             /\ Answers("sender", <<>>, "prompt") /\ UNCHANGED why
    <3>1. Waiting("receiver", {"guess"})
      BY <2>1, <2>3 DEF Agreed, SenderTurns
    <3> QED
      BY <1>2, <2>1, <2>3, <3>1
  <2>4. CASE Head(inbox["sender"]) # Invalid /\ Head(inbox["sender"]).result = "ok" /\ SenderOwns
    <3>1. Waiting("receiver", {"list"})
      BY <2>1, <2>4 DEF Agreed, SenderTurns
    <3> QED
      BY <2>1, <2>4, <3>1, AgreedSenderOwns
  <2> QED
    BY <1>1, <1>3, <2>2, <2>3, <2>4, ReceiveTokenReplyDone
<1>4. CASE ReceivePinReply("sender")
  <2>1. pc["sender"] = "pinSent" /\ Arrived("sender")
    BY <1>4 DEF ReceivePinReply, Reads
  <2>2. CASE Answers("sender", <<>>, "over") /\ FailsWith("sender", "tooMany")
    BY <1>1, <2>2, AgreedFails
  <2>3. CASE /\ Head(inbox["sender"]).result = "required"
             /\ Answers("sender", <<>>, "prompt") /\ UNCHANGED why
    <3>1. Waiting("receiver", {"guess"})
      BY <2>1, <2>3 DEF Agreed, SenderTurns
    <3> QED
      BY <1>2, <2>1, <2>3, <3>1
  <2>4. CASE Head(inbox["sender"]).result = "ok" /\ SenderOwns
    <3>1. Waiting("receiver", {"list"})
      BY <2>1, <2>4 DEF Agreed, SenderTurns
    <3> QED
      BY <2>1, <2>4, <3>1, AgreedSenderOwns
  <2> QED
    BY <1>1, <1>4, <2>2, <2>3, <2>4, ReceivePinReplyDone
<1>5. CASE ReceiveSelection
  <2>1. pc["sender"] = "selection" /\ Arrived("sender")
    BY <1>5 DEF ReceiveSelection, Reads
  <2>2. Waiting("receiver", {"receiving", "closing"})
    BY <2>1 DEF Agreed, SenderTurns
  <2> QED
    BY <1>1, <1>2, <1>5, <2>1, <2>2, ReceiveSelectionDone
<1> QED
  BY <1>3, <1>4, <1>5

\* The receiver's steps up to its own PIN.
LEMMA AgreedReceivers ==
  ASSUME AgreementInv, Agreed, MaxTries > 0, pin["receiver"] # EmptyPin,
         ReceiveNonce("receiver") \/ ReceiveToken \/ ReceivePin("receiver")
  PROVE  Agreed'
<1>1. /\ TypeOK /\ Knows /\ GuessInv /\ "sender" \in Sides /\ "receiver" \in Sides
      /\ Other("receiver") = "sender" /\ <<>> \in Seq(Messages)
      /\ \A p \in Sides : why[p] # "outOfStep"
  BY DEF AgreementInv, Knows, Sides, Other, Agreed
<1>2. /\ UNCHANGED why => \A p \in Sides : why'[p] # "outOfStep"
      /\ \A reason \in {"key", "tooMany"} :
           FailsWith("receiver", reason) => \A p \in Sides : why'[p] # "outOfStep"
  <2>1. \A p \in Sides : p = "receiver" \/ p = Other("receiver")
    BY DEF Sides, Other
  <2> QED
    BY <1>1, <2>1 DEF FailsWith
\* It answers with the one message that the sender expects.
<1>3. ASSUME NEW m \in Messages, NEW at, Arrived("receiver"), Answers("receiver", <<m>>, at),
             \A p \in Sides : why'[p] # "outOfStep",
             inbox'["sender"] = <<m>> => SenderFinds,
             inbox'["sender"] = <<>> => SenderFinds,
             pc["sender"] # "over" => inbox["sender"] = <<>>
      PROVE  Agreed'
  <2>1. /\ inbox'["receiver"] = <<>> /\ pc'["receiver"] = at /\ pc'["sender"] = pc["sender"] /\ BoxesOK'
        /\ inbox["sender"] = <<>> => inbox'["sender"] = <<>> \/ inbox'["sender"] = <<m>>
    BY <1>1, <1>3, ReadOne
  <2>2. SenderFinds
    BY <1>3, <2>1 DEF SenderFinds
  <2> QED
    BY <1>3, <2>1, <2>2, ReceiverPassed
<1>4. CASE ReceiveNonce("receiver")
  <2>1. /\ pc["receiver"] = "nonce" /\ Arrived("receiver") /\ Answers("receiver", <<Nonce>>, "token")
        /\ UNCHANGED why /\ Nonce \in Messages /\ Nonce.type = "nonce"
    BY <1>1, <1>4, ReceiveNonceDone, MessagesMade DEF ReceiveNonce, Reads, Nonce
  <2>2. Waiting("sender", {"nonce"}) /\ pc'["receiver"] = "token"
    BY <2>1 DEF Agreed, ReceiverTurns, Answers
  <2>3. /\ inbox'["sender"] = <<Nonce>> => SenderFinds
        /\ inbox'["sender"] = <<>> => SenderFinds
    BY <2>1, <2>2 DEF Waiting, SenderFinds
  <2> QED
    BY <1>2, <1>3, <2>1, <2>2, <2>3 DEF Waiting
<1>5. CASE ReceiveToken
  <2>1. pc["receiver"] = "token" /\ Arrived("receiver")
    BY <1>5 DEF ReceiveToken, Reads
  <2>2. Waiting("sender", {"token"})
    BY <2>1 DEF Agreed, ReceiverTurns
  <2>3. CASE Answers("receiver", <<Invalid>>, "over") /\ FailsWith("receiver", "key")
    <3>1. Invalid \in Messages /\ Invalid.type = "tokenReply" /\ pc'["receiver"] = "over"
      BY <2>3, MessagesMade DEF Invalid, Answers
    <3>2. /\ inbox'["sender"] = <<Invalid>> => SenderFinds
          /\ inbox'["sender"] = <<>> => SenderFinds
      BY <2>2, <3>1 DEF Waiting, SenderFinds
    <3> QED
      BY <1>2, <1>3, <2>1, <2>2, <2>3, <3>1, <3>2 DEF Waiting
  <2>4. ASSUME NEW t \in Messages, t.type = "tokenReply", t.result \in {"ok", "pinRequired"}, UNCHANGED why,
               NEW at, at = IF t.result = "ok" THEN "list" ELSE "guess",
               Answers("receiver", <<t>>, at)
        PROVE  Agreed'
    <3>1. pc'["receiver"] = at
      BY <2>4 DEF Answers
    <3>2. /\ inbox'["sender"] = <<t>> => SenderFinds
          /\ inbox'["sender"] = <<>> => SenderFinds
      BY <2>2, <2>4, <3>1 DEF Waiting, SenderFinds
    <3> QED
      BY <1>2, <1>3, <2>1, <2>2, <2>4, <3>2 DEF Waiting
  <2>5. tries["receiver"] = 0 /\ shown["receiver"] = EmptyPin /\ ~(0 >= MaxTries) /\ ~(0 > 0)
    <3>1. MaxTries \in Nat
      BY RtcAssumption
    <3>2. tries["receiver"] = 0 /\ shown["receiver"] = EmptyPin
      BY <1>1, <2>1 DEF GuessInv
    <3> QED
      BY <3>1, <3>2
  <2>6. \/ Answers("receiver", <<Invalid>>, "over") /\ FailsWith("receiver", "key")
        \/ \E t \in Messages :
             /\ t.type = "tokenReply"
             /\ t.result = IF pin["receiver"] = NoPin THEN "ok" ELSE "pinRequired"
             /\ \/ pin["receiver"] = NoPin /\ Answers("receiver", <<t>>, "list") /\ UNCHANGED why
                \/ pin["receiver"] # NoPin /\ Answers("receiver", <<t>>, "guess") /\ UNCHANGED why
    BY <1>1, <1>5, <2>5, ReceiveTokenDone DEF Shown
  <2> QED
    BY <2>3, <2>4, <2>6
<1>6. CASE ReceivePin("receiver")
  <2>1. pc["receiver"] = "guess" /\ Arrived("receiver")
    BY <1>6 DEF ReceivePin, Reads
  <2>2. Waiting("sender", {"pinSent"})
    BY <2>1 DEF Agreed, ReceiverTurns
  <2>3. ASSUME NEW r \in Verdicts, NEW at, Answers("receiver", <<PinReply("receiver", r)>>, at),
               r = "tooMany" \/ at = IF r = "ok" THEN "list" ELSE "guess",
               at \notin {"prompt", "select"},
               \A p \in Sides : why'[p] # "outOfStep"
        PROVE  Agreed'
    <3>1. PICK m \in Messages : m = PinReply("receiver", r) /\ m.type = "pinText" /\ m.result = r
      BY VerdictKinds
    <3>2. Answers("receiver", <<m>>, at) /\ pc'["receiver"] = at
      BY <2>3, <3>1 DEF Answers
    <3>3. /\ inbox'["sender"] = <<m>> => SenderFinds
          /\ inbox'["sender"] = <<>> => SenderFinds
      BY <2>2, <2>3, <3>1, <3>2 DEF Waiting, SenderFinds
    <3> QED
      BY <1>3, <2>1, <2>2, <2>3, <3>2, <3>3 DEF Waiting
  <2>4. "ok" \in Verdicts /\ "required" \in Verdicts /\ "tooMany" \in Verdicts
    BY DEF Verdicts
  <2>5. \/ UNCHANGED why /\ Answers("receiver", <<PinReply("receiver", "ok")>>, "list")
        \/ FailsWith("receiver", "tooMany") /\ Answers("receiver", <<PinReply("receiver", "tooMany")>>, "over")
        \/ UNCHANGED why /\ Answers("receiver", <<PinReply("receiver", "required")>>, "guess")
    BY <1>1, <1>6, ReceivePinDone DEF Content
  <2>6. CASE UNCHANGED why /\ Answers("receiver", <<PinReply("receiver", "ok")>>, "list")
    BY <1>2, <2>3, <2>4, <2>6
  <2>7. CASE FailsWith("receiver", "tooMany") /\ Answers("receiver", <<PinReply("receiver", "tooMany")>>, "over")
    BY <1>2, <2>3, <2>4, <2>7
  <2>8. CASE UNCHANGED why /\ Answers("receiver", <<PinReply("receiver", "required")>>, "guess")
    BY <1>2, <2>3, <2>4, <2>8
  <2> QED
    BY <2>5, <2>6, <2>7, <2>8
<1> QED
  BY <1>4, <1>5, <1>6

\* The receiver's steps from the sender's PIN to its answer to the offer.
LEMMA AgreedAnswers ==
  ASSUME AgreementInv, Agreed, MaxTries > 0,
         \/ ReceiveFileList \/ SendPin("receiver") \/ ReceivePinReply("receiver")
         \/ SendSelection \/ Decline
  PROVE  Agreed'
<1>1. /\ TypeOK /\ "sender" \in Sides /\ "receiver" \in Sides
      /\ Other("receiver") = "sender" /\ <<>> \in Seq(Messages)
      /\ \A p \in Sides : why[p] # "outOfStep"
  BY DEF AgreementInv, Sides, Other, Agreed
<1>2. ASSUME NEW r, r = Head(inbox["receiver"]).result, Arrived("receiver"), pc["receiver"] \in {"list", "pinSent"},
             UNCHANGED why,
             \/ r = "required" /\ Answers("receiver", <<>>, "prompt")
             \/ r = "ok" /\ Answers("receiver", <<>>, "select")
      PROVE  Agreed'
  <2>1. PICK at \in {"prompt", "select"} :
          Answers("receiver", <<>>, at) /\ at = IF r = "ok" THEN "select" ELSE "prompt"
    BY <1>2
  <2>2. r # "tooMany" /\ Waiting("sender", IF r = "ok" THEN {"selection"} ELSE {"guess"})
    BY <1>2 DEF Agreed, ReceiverTurns
  <2>3. /\ inbox'["receiver"] = <<>> /\ pc'["receiver"] = at /\ pc'["sender"] = pc["sender"] /\ BoxesOK'
        /\ inbox["sender"] = <<>> => inbox'["sender"] = <<>>
    BY <1>1, <1>2, <2>1, ReadNone
  <2>4. SenderFinds
    BY <1>2, <2>1, <2>2, <2>3 DEF Waiting, SenderFinds
  <2> QED
    BY <1>1, <1>2, <2>3, <2>4, ReceiverPassed
<1>3. ASSUME NEW m \in Messages, NEW at, inbox["receiver"] = <<>>, Sends("receiver", <<m>>, at), UNCHANGED why,
             \/ at = "pinSent" /\ m.type = "pin" /\ Waiting("sender", {"guess"})
             \/ at \in {"receiving", "closing"} /\ m.type = "fileTokens" /\ Waiting("sender", {"selection"})
      PROVE  Agreed'
  <2>1. /\ inbox'["receiver"] = <<>> /\ pc'["receiver"] = at /\ pc'["sender"] = pc["sender"] /\ BoxesOK'
        /\ inbox["sender"] = <<>> => inbox'["sender"] = <<>> \/ inbox'["sender"] = <<m>>
    BY <1>1, <1>3, ReadOne
  <2>2. SenderFinds
    BY <1>3, <2>1 DEF Waiting, SenderFinds
  <2> QED
    BY <1>1, <1>3, <2>1, <2>2, ReceiverPassed
<1>4. CASE ReceiveFileList
  <2>1. pc["receiver"] = "list" /\ Arrived("receiver")
    BY <1>4 DEF ReceiveFileList, Reads
  <2>2. Head(inbox["receiver"]).result # "tooMany"
    BY <2>1 DEF Agreed, ReceiverTurns
  <2> QED
    BY <1>1, <1>2, <1>4, <2>1, <2>2, ReceiveFileListDone
<1>5. CASE ReceivePinReply("receiver")
  <2>1. pc["receiver"] = "pinSent" /\ Arrived("receiver")
    BY <1>5 DEF ReceivePinReply, Reads
  <2>2. CASE Answers("receiver", <<>>, "over") /\ FailsWith("receiver", "tooMany")
    BY <1>1, <2>2, AgreedFails
  <2> QED
    BY <1>1, <1>2, <1>5, <2>1, <2>2, ReceivePinReplyDone
<1>6. CASE SendPin("receiver")
  <2>1. PICK m \in Messages : m.type = "pin" /\ pc["receiver"] = "prompt" /\ Sends("receiver", <<m>>, "pinSent") /\ UNCHANGED why
    <3>1. PICK g \in Pins : pc["receiver"] = "prompt" /\ Sends("receiver", <<Pin(g)>>, "pinSent") /\ UNCHANGED why
      BY <1>1, <1>6, SendPinDone
    <3>2. Pin(g) \in Messages /\ Pin(g).type = "pin"
      BY MessagesMade DEF Pin
    <3> QED
      BY <3>1, <3>2
  <2>2. inbox["receiver"] = <<>> /\ Waiting("sender", {"guess"})
    BY <2>1 DEF Agreed, ReceiverTurns
  <2> QED
    BY <1>3, <2>1, <2>2
<1>7. CASE SendSelection \/ Decline
  <2>1. pc["receiver"] = "select" /\ UNCHANGED why
    BY <1>1, <1>7, SendSelectionDone, DeclineDone
  <2>2. inbox["receiver"] = <<>> /\ Waiting("sender", {"selection"})
    BY <2>1 DEF Agreed, ReceiverTurns
  <2>3. \/ \E m \in Messages, at \in {"receiving", "closing"} : m.type = "fileTokens" /\ Sends("receiver", <<m>>, at)
        \/ Sends("receiver", <<>>, "closing")
    <3>1. CASE SendSelection
      <4>1. PICK S \in SUBSET Files : S = selection'
        BY <1>1, <3>1, SendSelectionDone
      <4>2. FileTokens(S) \in Messages /\ FileTokens(S).type = "fileTokens"
        BY MessagesMade DEF FileTokens
      <4>3. Sends("receiver", <<FileTokens(S)>>, "receiving")
        BY <1>1, <3>1, <4>1, SendSelectionDone
      <4> QED
        BY <4>2, <4>3
    <3>2. CASE Decline
      <4>1. Declined \in Messages /\ Declined.type = "fileTokens"
        BY MessagesMade DEF Declined
      <4> QED
        BY <1>1, <3>2, <4>1, DeclineDone
    <3> QED
      BY <1>7, <3>1, <3>2
  <2>4. CASE Sends("receiver", <<>>, "closing")
    <3>1. /\ inbox'["receiver"] = <<>> /\ pc'["receiver"] = "closing" /\ pc'["sender"] = pc["sender"] /\ BoxesOK'
          /\ inbox["sender"] = <<>> => inbox'["sender"] = <<>>
      BY <1>1, <2>2, <2>4, ReadAll
    <3>2. SenderFinds
      BY <2>2, <3>1 DEF Waiting, SenderFinds
    <3> QED
      BY <1>1, <2>1, <3>1, <3>2, ReceiverPassed
  <2> QED
    BY <1>3, <2>1, <2>2, <2>3, <2>4
<1> QED
  BY <1>4, <1>5, <1>6, <1>7

\* Once the selection is on its way, neither side expects anything.
LEMMA AgreedFiles ==
  ASSUME Agreed, \A p \in Sides : why'[p] # "outOfStep",
         pc'["sender"] \in {"sending", "chunks", "last", "closing", "over"},
         pc'["receiver"] \in AfterSelection
  PROVE  Agreed'
<1>1. \A p \in Sides : p = "sender" \/ p = "receiver"
  BY DEF Sides
<1>2. \A p \in Sides : ~Arrived(p)'
  BY <1>1 DEF Arrived, Expects, AfterSelection
<1>3. "sender" \in Sides /\ "receiver" \in Sides
  BY DEF Sides
<1>4. (\A p \in Sides : FindsExpected(p))'
  BY <1>2 DEF FindsExpected
<1>5. SenderTurns'
  BY <1>2, <1>3 DEF SenderTurns
<1>6. ReceiverTurns'
  BY <1>2, <1>3 DEF ReceiverTurns, AfterSelection
<1> QED
  BY <1>4, <1>5, <1>6 DEF Agreed

\* The receiver's PIN is not empty and a try is allowed: the sides stay in step.
LEMMA AgreedStep ==
  ASSUME AgreementInv, OfferInv, Agreed, Next, MaxTries > 0, pin["receiver"] # EmptyPin
  PROVE  Agreed'
<1>1. /\ TypeOK /\ Points /\ OfferTurns /\ "sender" \in Sides /\ "receiver" \in Sides
      /\ \A p \in Sides : p = "sender" \/ p = "receiver"
      /\ \A p \in Sides : why[p] # "outOfStep" /\ FindsExpected(p)
  BY DEF AgreementInv, OfferInv, Sides, Agreed
<1>2. CASE SendersTurn \/ ReceiversTurn \/ SendFileList \/ ReceiveSelection \/ Decline \/ SendSelection
  BY <1>2, AgreedSenders, AgreedVerdicts, AgreedReceivers, AgreedAnswers DEF SendersTurn, ReceiversTurn
<1>3. CASE SendersFile
  <2>1. /\ pc["sender"] \in {"sending", "chunks", "last"}
        /\ pc'["sender"] \in {"sending", "chunks", "last", "closing"} /\ pc'["receiver"] = pc["receiver"]
    BY <1>1, <1>3, SendersFileDone
  <2>2. pc["receiver"] \in AfterSelection
    BY <1>1, <2>1 DEF OfferTurns
  <2>3. UNCHANGED why
    BY <1>1, <1>3, SendChunkDone, SendDelimiterDone, ReceiveLastDone, SendFileDone DEF SendersFile, EndFile, Goto
  <2> QED
    BY <1>1, <2>1, <2>2, <2>3, AgreedFiles
<1>4. CASE ReceiversFile
  <2>1. /\ pc["receiver"] \in {"receiving", "result"} /\ pc'["receiver"] \in AfterSelection
        /\ pc'["sender"] = pc["sender"]
        /\ ~SendStatus => inbox["receiver"] # <<>>
    BY <1>1, <1>4, ReceiversFileDone
  <2>2. SendStatus => pc["receiver"] = "result"
    BY DEF SendStatus
  <2>3. pc["sender"] \in {"sending", "chunks", "last", "closing", "over"}
    BY <1>1, <2>1, <2>2 DEF OfferTurns
  <2>4. \A p \in Sides : why'[p] # "outOfStep"
    <3>1. UNCHANGED why \/ FailsWith("receiver", "delimiter") \/ FailsWith("receiver", "dropped")
      BY <1>1, <1>4, EndOfFileDone, SendStatusDone, ReceiveHeaderDone, ReceiveChunkDone
         DEF ReceiversFile, ChunkDropped
    <3>2. \A p \in Sides : p = "receiver" \/ p = Other("receiver")
      BY <1>1 DEF Other
    <3> QED
      BY <1>1, <3>1, <3>2 DEF FailsWith
  <2> QED
    BY <2>1, <2>3, <2>4, AgreedFiles
<1>5. CASE \E p \in Sides : \/ Misread(p) \/ Close(p) \/ Break \/ Disconnected(p) \/ Desert \/ SendFails(p)
                            \/ \E f \in Files : Report(f)
  <2>1. PICK p \in Sides : \/ Misread(p) \/ Close(p) \/ Break \/ Disconnected(p) \/ Desert \/ SendFails(p)
                           \/ \E f \in Files : Report(f)
    BY <1>5
  <2>2. ~Misread(p)
    BY <1>1, MisreadDone
  <2>3. UNCHANGED why \/ FailsWith(p, "lost")
    BY <1>1, <2>1, <2>2, CloseDone, BreakDone, SendFailsDone DEF Disconnected, Desert, Report
  <2>4. \A q \in Sides : why'[q] # "outOfStep"
    <3>1. \A q \in Sides : q = p \/ q = Other(p)
      BY <1>1 DEF Other
    <3> QED
      BY <1>1, <2>3, <3>1 DEF FailsWith
  <2>5. \A q \in Sides :
           /\ pc'[q] = pc[q] \/ pc'[q] = "over"
           /\ \/ inbox'[q] = inbox[q]
              \/ inbox[q] # <<>> /\ inbox'[q] = Tail(inbox[q])
              \/ inbox'[q] \in Prefixes(inbox[q])
              \/ inbox'[q] = <<>>
           /\ inbox[q] = <<>> => inbox'[q] = <<>>
    BY <1>1, <2>1, Losses
  <2> QED
    BY <1>1, <2>4, <2>5, AgreedLess
<1> QED
  BY <1>2, <1>3, <1>4, <1>5, Turns

-----------------------------------------------------------------------------
(* Sequences of messages                                                   *)

\* A beginning of what is in order is in order.
LEMMA OrderedPrefix ==
  ASSUME NEW s \in Seq(Messages), NEW r \in Prefixes(s), NEW b, Ordered(s, b), Distinct(s)
  PROVE  Ordered(r, b) /\ Distinct(r)
<1>1. /\ r \in Seq(Messages) /\ Len(r) <= Len(s)
      /\ \A i \in 1..Len(r) : i \in 1..Len(s) /\ r[i] = s[i]
  BY Beginning
<1>2. Distinct(r)
  BY <1>1 DEF Distinct
<1>3. ASSUME NEW i \in 1..Len(r)
      PROVE  Follows(r[i], IF i = 1 THEN b ELSE r[i - 1])
  <2>1. Len(r) \in Nat
    BY <1>1
  <2>2. Follows(s[i], IF i = 1 THEN b ELSE s[i - 1])
    BY <1>1 DEF Ordered
  <2>3. i # 1 => i - 1 \in 1..Len(r)
    BY <2>1
  <2>4. r[i] = s[i] /\ (i # 1 => r[i - 1] = s[i - 1])
    BY <1>1, <2>3
  <2> QED
    BY <2>2, <2>4
<1> QED
  BY <1>2, <1>3 DEF Ordered

\* So is it with one message more that follows the last one.
LEMMA OrderedMore ==
  ASSUME NEW s \in Seq(Messages), NEW m \in Messages, NEW b, Ordered(s, b), Distinct(s),
         Follows(m, LastOf(s, b)),
         m.type = "header" => \A i \in 1..Len(s) : s[i] # m
  PROVE  Ordered(s \o <<m>>, b) /\ Distinct(s \o <<m>>) /\ LastOf(s \o <<m>>, b) = m
<1> DEFINE r == s \o <<m>>
<1>1. /\ r \in Seq(Messages) /\ Len(r) = Len(s) + 1 /\ Len(s) \in Nat
      /\ \A i \in 1..Len(s) : r[i] = s[i]
      /\ r[Len(s) + 1] = m
  OBVIOUS
<1> HIDE DEF r
<1>2. ASSUME NEW i \in 1..Len(r)
      PROVE  \/ i \in 1..Len(s) /\ r[i] = s[i]
             \/ i = Len(s) + 1 /\ r[i] = m
  <2>1. CASE i <= Len(s)
    BY <1>1, <2>1
  <2>2. CASE ~(i <= Len(s))
    <3>1. i = Len(s) + 1
      BY <1>1, <2>2
    <3> QED
      BY <1>1, <3>1
  <2> QED
    BY <2>1, <2>2
<1>3. Distinct(r)
  <2> SUFFICES ASSUME NEW i \in 1..Len(r), NEW j \in 1..Len(r), r[i].type = "header", r[i] = r[j]
               PROVE  i = j
    BY DEF Distinct
  <2>1. CASE i \in 1..Len(s) /\ r[i] = s[i] /\ j \in 1..Len(s) /\ r[j] = s[j]
    BY <2>1 DEF Distinct
  <2>2. CASE i = Len(s) + 1 /\ r[i] = m /\ j \in 1..Len(s) /\ r[j] = s[j]
    BY <2>2
  <2>3. CASE j = Len(s) + 1 /\ r[j] = m /\ i \in 1..Len(s) /\ r[i] = s[i]
    BY <2>3
  <2>4. CASE i = Len(s) + 1 /\ j = Len(s) + 1
    BY <2>4
  <2> QED
    BY <1>2, <2>1, <2>2, <2>3, <2>4
<1>4. LastOf(r, b) = m
  <2>1. r # <<>>
    <3>1. Len(<<>>) = 0 /\ Len(r) # 0
      BY <1>1
    <3> QED
      BY <3>1
  <2> QED
    BY <1>1, <2>1 DEF LastOf
<1>5. ASSUME NEW i \in 1..Len(r)
      PROVE  Follows(r[i], IF i = 1 THEN b ELSE r[i - 1])
  <2>1. CASE i \in 1..Len(s) /\ r[i] = s[i]
    <3>1. Follows(s[i], IF i = 1 THEN b ELSE s[i - 1])
      BY <2>1 DEF Ordered
    <3>2. i # 1 => i - 1 \in 1..Len(s)
      BY <1>1, <2>1
    <3>3. i # 1 => r[i - 1] = s[i - 1]
      BY <1>1, <3>2
    <3> QED
      BY <2>1, <3>1, <3>3
  <2>2. CASE i = Len(s) + 1 /\ r[i] = m
    <3>1. CASE s = <<>>
      <4>1. Len(s) = 0 /\ LastOf(s, b) = b
        BY <3>1 DEF LastOf
      <4>2. i = 1
        BY <2>2, <4>1
      <4> QED
        BY <2>2, <4>1, <4>2
    <3>2. CASE s # <<>>
      <4>1. Len(s) # 0
        BY <3>2, EmptySeq
      <4>2. i # 1 /\ i - 1 = Len(s) /\ Len(s) \in 1..Len(s)
        BY <1>1, <2>2, <4>1
      <4>3. r[i - 1] = s[Len(s)] /\ LastOf(s, b) = s[Len(s)]
        BY <1>1, <3>2, <4>2 DEF LastOf
      <4> QED
        BY <2>2, <4>2, <4>3
    <3> QED
      BY <3>1, <3>2
  <2> QED
    BY <1>2, <2>1, <2>2
<1>6. Ordered(r, b)
  BY <1>5 DEF Ordered
<1> QED
  BY <1>3, <1>4, <1>6 DEF r

\* What is behind the first message continues what ends with that one.
LEMMA OrderedTail ==
  ASSUME NEW s \in Seq(Messages), NEW b, s # <<>>, Ordered(s, b), Distinct(s)
  PROVE  /\ Ordered(Tail(s), Head(s)) /\ Distinct(Tail(s)) /\ LastOf(Tail(s), Head(s)) = LastOf(s, b)
         /\ Follows(Head(s), b)
         /\ Head(s).type = "header" => \A i \in 1..Len(Tail(s)) : Tail(s)[i] # Head(s)
<1> DEFINE r == Tail(s)
<1>1. Len(s) \in Nat /\ Len(s) # 0
  BY EmptySeq
<1>2. /\ r \in Seq(Messages) /\ Len(r) = Len(s) - 1 /\ Head(s) = s[1]
      /\ \A i \in 1..Len(r) : r[i] = s[i + 1]
  BY <1>1
<1> HIDE DEF r
<1>3. \A i \in 1..Len(r) : i + 1 \in 1..Len(s) /\ i + 1 # 1
  BY <1>1, <1>2
<1>4. 1 \in 1..Len(s)
  BY <1>1
<1>5. Follows(Head(s), b)
  BY <1>2, <1>4 DEF Ordered
<1>6. Head(s).type = "header" => \A i \in 1..Len(r) : r[i] # Head(s)
  BY <1>2, <1>3, <1>4 DEF Distinct
<1>7. Distinct(r)
  <2> SUFFICES ASSUME NEW i \in 1..Len(r), NEW j \in 1..Len(r), r[i].type = "header", r[i] = r[j]
               PROVE  i = j
    BY DEF Distinct
  <2>1. s[i + 1].type = "header" /\ s[i + 1] = s[j + 1]
    BY <1>2
  <2>2. i + 1 = j + 1
    BY <1>3, <2>1 DEF Distinct
  <2> QED
    BY <2>2
<1>8. ASSUME NEW i \in 1..Len(r)
      PROVE  Follows(r[i], IF i = 1 THEN Head(s) ELSE r[i - 1])
  <2>1. Follows(s[i + 1], s[i])
    <3>1. Follows(s[i + 1], IF i + 1 = 1 THEN b ELSE s[i + 1 - 1])
      BY <1>3 DEF Ordered
    <3>2. i + 1 - 1 = i /\ i + 1 # 1
      BY <1>3
    <3> QED
      BY <3>1, <3>2
  <2>2. i # 1 => i - 1 \in 1..Len(r)
    BY <1>1, <1>2
  <2>3. i # 1 => r[i - 1] = s[i]
    <3>1. i # 1 => r[i - 1] = s[i - 1 + 1]
      BY <1>2, <2>2
    <3>2. i - 1 + 1 = i
      OBVIOUS
    <3> QED
      BY <3>1, <3>2
  <2> QED
    BY <1>2, <2>1, <2>3
<1>9. Ordered(r, Head(s))
  BY <1>8 DEF Ordered
<1>10. LastOf(r, Head(s)) = LastOf(s, b)
  <2>1. CASE r = <<>>
    <3>1. Len(r) = 0
      BY <2>1
    <3>2. Len(s) = 1
      BY <1>1, <1>2, <3>1
    <3> QED
      BY <1>2, <2>1, <3>2 DEF LastOf
  <2>2. CASE r # <<>>
    <3>1. Len(r) # 0
      BY <1>2, <2>2, EmptySeq
    <3>2. Len(r) \in 1..Len(r) /\ Len(r) + 1 = Len(s)
      BY <1>1, <1>2, <3>1
    <3>3. r[Len(r)] = s[Len(s)]
      BY <1>2, <3>2
    <3> QED
      BY <2>2, <3>3 DEF LastOf
  <2> QED
    BY <2>1, <2>2
<1> QED
  BY <1>5, <1>6, <1>7, <1>9, <1>10 DEF r

-----------------------------------------------------------------------------
(* The stream of files, after a step                                       *)

\* The control points of a receiver of files, and of a sender that is through.
Receives == {"receiving", "result"}
Through == {"last", "closing", "over"}

\* A step that leaves the streams of the files alone.
LEMMA StreamsKept ==
  ASSUME Streams, UNCHANGED <<selection, file, held, got, stream, judged>>, deserted => deserted',
         begun \subseteq begun',
         \/ pc'["receiver"] = pc["receiver"]
         \/ /\ pc'["receiver"] \notin Receives
            /\ pc'["receiver"] = "over" \/ pc["receiver"] \notin {"result", "over"}
  PROVE  Streams'
BY DEF Streams, Receives

\* A step that leaves the reports alone.
LEMMA ReportedKept ==
  ASSUME Reported, UNCHANGED <<file, got, stream, results, judged, answers>>
  PROVE  Reported'
BY DEF Reported

\* A step that at most takes something from the end of the receiver's inbox, with
\* the connection, keeps the order of the stream.
LEMMA OrderKept ==
  ASSUME TypeOK, StreamOrder,
         \/ pc'["receiver"] \notin Receives
         \/ /\ pc'["receiver"] = pc["receiver"] /\ begun \subseteq begun'
            /\ UNCHANGED <<selection, file, held, got, stream>>
            /\ \/ inbox'["receiver"] = inbox["receiver"] /\ (open' => open)
               \/ inbox'["receiver"] \in Prefixes(inbox["receiver"]) /\ ~open'
            /\ pc'["sender"] = "chunks" => pc["sender"] = "chunks" /\ UNCHANGED <<cur, sent>>
            /\ pc["sender"] \in Through => pc'["sender"] \in Through
  PROVE  StreamOrder'
<1>1. CASE pc'["receiver"] \notin Receives
  BY <1>1 DEF StreamOrder, Receives
<1>2. CASE /\ pc'["receiver"] = pc["receiver"] /\ pc["receiver"] \in Receives /\ begun \subseteq begun'
           /\ UNCHANGED <<selection, file, held, got, stream>>
           /\ \/ inbox'["receiver"] = inbox["receiver"] /\ (open' => open)
              \/ inbox'["receiver"] \in Prefixes(inbox["receiver"]) /\ ~open'
           /\ pc'["sender"] = "chunks" => pc["sender"] = "chunks" /\ UNCHANGED <<cur, sent>>
           /\ pc["sender"] \in Through => pc'["sender"] \in Through
  <2>1. Before' = Before
    BY <1>2 DEF Before
  <2>2. inbox["receiver"] \in Seq(Messages)
    BY DEF TypeOK, Sides
  <2>3. Ordered(inbox["receiver"], Before) /\ Distinct(inbox["receiver"])
    BY <1>2 DEF StreamOrder, Receives
  <2>4. Ordered(inbox'["receiver"], Before) /\ Distinct(inbox'["receiver"])
    BY <1>2, <2>2, <2>3, OrderedPrefix
  <2>5. Coming("receiver")' \subseteq Coming("receiver")
    BY <1>2, <2>2, Beginning DEF Coming
  <2>6. (Ordered(inbox["receiver"], Before) /\ Distinct(inbox["receiver"]))'
    BY <2>1, <2>4
  <2>7. (\A f \in Files :
           Header(f) \in Coming("receiver") \/ held = <<Header(f)>> =>
             f \in begun \cap selection /\ stream[f] = "none")'
    BY <1>2, <2>5 DEF StreamOrder, Receives
  <2>8. (\A m \in Coming("receiver") : m.type = "header" => held # <<m>>)'
    BY <1>2, <2>5 DEF StreamOrder, Receives
  <2>9. (open /\ pc["sender"] = "chunks" => LastOf(inbox["receiver"], Before) = LastSent)'
    BY <1>2, <2>1 DEF StreamOrder, Receives, LastSent
  <2>10. (Delimiter \in Coming("receiver") \/ held = <<Delimiter>> => pc["sender"] \in {"last", "closing", "over"})'
    BY <1>2, <2>5 DEF StreamOrder, Receives, Through
  <2> QED
    BY <2>6, <2>7, <2>8, <2>9, <2>10 DEF StreamOrder
<1> QED
  BY <1>1, <1>2

\* The sender sends what follows its last message.
LEMMA OrderSent ==
  ASSUME TypeOK, StreamOrder, NEW m \in Messages, NEW at, Sends("sender", <<m>>, at),
         UNCHANGED <<open, selection, file, held, got, stream>>, begun \subseteq begun',
         pc["sender"] \notin Through,
         open /\ pc["receiver"] \in Receives =>
           /\ Follows(m, LastOf(inbox["receiver"], Before))
           /\ m.type = "header" => /\ m \notin Coming("receiver") /\ held # <<m>>
                                   /\ m.file \in begun' \cap selection /\ stream[m.file] = "none",
         open /\ at = "chunks" => m = LastSent',
         m = Delimiter => at = "last"
  PROVE  StreamOrder'
<1>1. /\ pc'["receiver"] = pc["receiver"] /\ pc'["sender"] = at /\ "receiver" \in Sides
      /\ inbox["receiver"] \in Seq(Messages)
      /\ inbox'["receiver"] = IF open THEN inbox["receiver"] \o <<m>> ELSE inbox["receiver"]
  BY DEF Sends, Other, Sides, TypeOK
<1>2. CASE pc["receiver"] \notin Receives
  BY <1>1, <1>2 DEF StreamOrder, Receives
<1>3. CASE ~open /\ pc["receiver"] \in Receives
  <2>1. Before' = Before /\ inbox'["receiver"] = inbox["receiver"] /\ ~open'
    BY <1>1, <1>3 DEF Before
  <2>2. Coming("receiver")' = Coming("receiver")
    BY <2>1 DEF Coming
  <2> QED
    BY <1>1, <1>3, <2>1, <2>2 DEF StreamOrder, Receives, Through
<1>4. CASE open /\ pc["receiver"] \in Receives
  <2>1. Before' = Before
    BY <1>1 DEF Before
  <2>2. /\ Ordered(inbox["receiver"], Before) /\ Distinct(inbox["receiver"])
        /\ Follows(m, LastOf(inbox["receiver"], Before))
    BY <1>4 DEF StreamOrder, Receives
  <2>3. m.type = "header" => \A i \in 1..Len(inbox["receiver"]) : inbox["receiver"][i] # m
    BY <1>4 DEF Coming
  <2>4. PICK b : b = Before
    OBVIOUS
  <2>5. PICK s \in Seq(Messages) : s = inbox["receiver"]
    BY <1>1
  <2>6. Ordered(s \o <<m>>, b) /\ Distinct(s \o <<m>>) /\ LastOf(s \o <<m>>, b) = m
    BY <2>2, <2>3, <2>4, <2>5, OrderedMore
  <2>7. (Ordered(inbox["receiver"], Before) /\ Distinct(inbox["receiver"]))'
    BY <1>1, <1>4, <2>1, <2>4, <2>5, <2>6
  <2>8. Coming("receiver")' \subseteq Coming("receiver") \cup {m}
    <3>1. BoxesOK /\ "sender" \in Sides /\ Other("sender") = "receiver"
      BY DEF TypeOK, BoxesOK, Sides, Other
    <3> QED
      BY <3>1, ComingAfter
  <2>9. (\A f \in Files :
           Header(f) \in Coming("receiver") \/ held = <<Header(f)>> =>
             f \in begun \cap selection /\ stream[f] = "none")'
    <3> SUFFICES ASSUME NEW f \in Files, Header(f) \in Coming("receiver")' \/ held' = <<Header(f)>>
                 PROVE  f \in begun' \cap selection /\ stream[f] = "none"
      OBVIOUS
    <3>1. CASE Header(f) \in Coming("receiver") \/ held = <<Header(f)>>
      BY <1>4, <3>1 DEF StreamOrder, Receives
    <3>2. CASE Header(f) = m
      <4>1. m.type = "header" /\ m.file = f
        BY <3>2, DataKinds
      <4> QED
        BY <1>4, <4>1
    <3> QED
      BY <2>8, <3>1, <3>2
  <2>10. (\A n \in Coming("receiver") : n.type = "header" => held # <<n>>)'
    BY <1>4, <2>8 DEF StreamOrder, Receives
  <2>11. (open /\ pc["sender"] = "chunks" => LastOf(inbox["receiver"], Before) = LastSent)'
    BY <1>1, <1>4, <2>1, <2>4, <2>5, <2>6
  <2>12. (Delimiter \in Coming("receiver") \/ held = <<Delimiter>> => pc["sender"] \in {"last", "closing", "over"})'
    BY <1>1, <1>4, <2>8 DEF StreamOrder, Receives, Through
  <2> QED
    BY <2>7, <2>9, <2>10, <2>11, <2>12 DEF StreamOrder
<1> QED
  BY <1>2, <1>3, <1>4

\* The receiver takes the first message, and what comes next follows it.
LEMMA OrderNext ==
  ASSUME TypeOK, StreamOrder, pc["receiver"] = "receiving", inbox["receiver"] # <<>>,
         inbox'["receiver"] = Tail(inbox["receiver"]), Before' = Head(inbox["receiver"]),
         UNCHANGED <<open, cur, sent, begun, selection>>, pc'["sender"] = pc["sender"],
         \/ held' = <<>> /\ \A f \in Files :
              stream'[f] = stream[f] \/ stream[f] # "none" \/ Head(inbox["receiver"]) = Header(f)
         \/ held' = <<Head(inbox["receiver"])>> /\ \A f \in Files :
              stream'[f] = stream[f] \/ stream[f] # "none"
  PROVE  StreamOrder'
<1>1. PICK s \in Seq(Messages) : s = inbox["receiver"]
  BY DEF TypeOK, Sides
<1>2. PICK b : b = Before
  OBVIOUS
<1>3. s # <<>> /\ Ordered(s, b) /\ Distinct(s)
  BY <1>1, <1>2 DEF StreamOrder
<1>4. /\ Ordered(Tail(s), Head(s)) /\ Distinct(Tail(s)) /\ LastOf(Tail(s), Head(s)) = LastOf(s, b)
      /\ Head(s).type = "header" => \A i \in 1..Len(Tail(s)) : Tail(s)[i] # Head(s)
  BY <1>3, OrderedTail
<1>5. (Ordered(inbox["receiver"], Before) /\ Distinct(inbox["receiver"]))'
  BY <1>1, <1>4
<1>6. /\ Coming("receiver")' \subseteq Coming("receiver") /\ Head(s) \in Coming("receiver")
      /\ \A m \in Coming("receiver")' : m.type = "header" => m # Head(s)
  <2>1. /\ Len(s) \in Nat /\ Len(s) # 0 /\ Tail(s) \in Seq(Messages) /\ Len(Tail(s)) = Len(s) - 1
        /\ Head(s) = s[1] /\ \A i \in 1..Len(Tail(s)) : Tail(s)[i] = s[i + 1]
    <3>1. Len(s) \in Nat /\ Len(s) # 0
      BY <1>3, EmptySeq
    <3> QED
      BY <3>1
  <2>2. 1 \in 1..Len(s) /\ \A i \in 1..Len(Tail(s)) : i + 1 \in 1..Len(s)
    BY <2>1
  <2>3. Coming("receiver") = {s[i] : i \in 1..Len(s)} /\ Coming("receiver")' = {Tail(s)[i] : i \in 1..Len(Tail(s))}
    BY <1>1 DEF Coming
  <2>4. \A m \in Coming("receiver")' : m.type = "header" => m # Head(s)
    BY <1>4, <2>3
  <2> QED
    BY <2>1, <2>2, <2>3, <2>4
<1>7. (\A f \in Files :
         Header(f) \in Coming("receiver") \/ held = <<Header(f)>> =>
           f \in begun \cap selection /\ stream[f] = "none")'
  <2> SUFFICES ASSUME NEW f \in Files, Header(f) \in Coming("receiver")' \/ held' = <<Header(f)>>
               PROVE  f \in begun \cap selection /\ stream'[f] = "none"
    OBVIOUS
  <2>1. Header(f).type = "header" /\ Header(f) \in Messages
    BY DataKinds
  <2>2. Header(f) \in Coming("receiver")
    BY <1>1, <1>6
  <2>3. f \in begun \cap selection /\ stream[f] = "none"
    BY <2>2 DEF StreamOrder
  <2>4. stream'[f] = stream[f]
    BY <1>1, <1>6, <2>1, <2>3
  <2> QED
    BY <2>3, <2>4
<1>8. (\A m \in Coming("receiver") : m.type = "header" => held # <<m>>)'
  <2> SUFFICES ASSUME NEW m \in Coming("receiver")', m.type = "header", held' = <<m>>
               PROVE  FALSE
    OBVIOUS
  <2>1. m # Head(s)
    BY <1>6
  <2>2. <<m>> # <<Head(s)>> /\ <<m>> # <<>>
    BY <2>1
  <2> QED
    BY <1>1, <2>2
<1>9. (open /\ pc["sender"] = "chunks" => LastOf(inbox["receiver"], Before) = LastSent)'
  BY <1>1, <1>2, <1>4 DEF StreamOrder, LastSent
<1>10. (Delimiter \in Coming("receiver") \/ held = <<Delimiter>> => pc["sender"] \in {"last", "closing", "over"})'
  BY <1>1, <1>6 DEF StreamOrder
<1> QED
  BY <1>5, <1>7, <1>8, <1>9, <1>10 DEF StreamOrder

\* No step before the files fails for want of a delimiter.
LEMMA OtherReasons ==
  ASSUME AgreementInv,
         SendersTurn \/ ReceiversTurn \/ SendFileList \/ ReceiveSelection \/ Decline \/ SendSelection
  PROVE  why'["receiver"] = "delimiter" => why["receiver"] = "delimiter"
<1>1. TypeOK /\ GuessInv /\ "sender" \in Sides /\ "receiver" \in Sides /\ Other("sender") = "receiver"
  BY DEF AgreementInv, Knows, Sides, Other
<1>2. FailsWith("sender", "key") \/ FailsWith("sender", "tooMany") => why'["receiver"] = why["receiver"]
  BY <1>1 DEF FailsWith
<1>3. FailsWith("receiver", "key") \/ FailsWith("receiver", "tooMany") \/ FailsWith("receiver", "outOfStep")
        => why'["receiver"] # "delimiter"
  BY DEF FailsWith
<1>4. SenderOwns => why'["receiver"] = why["receiver"]
  BY <1>2 DEF SenderOwns
<1>5. CASE SendNonce \/ ReceiveNonce("sender") \/ SendPin("sender") \/ SendFileList \/ ReceiveSelection
  BY <1>1, <1>5, SendNonceDone, ReceiveNonceDone, SendPinDone, SendFileListDone, ReceiveSelectionDone
<1>6. CASE ReceiveTokenReply \/ ReceivePinReply("sender")
  BY <1>1, <1>2, <1>4, <1>6, ReceiveTokenReplyDone, ReceivePinReplyDone
<1>7. CASE ReceivePin("sender")
  BY <1>1, <1>2, <1>7, ReceivePinDone
<1>8. CASE ReceiveNonce("receiver") \/ SendPin("receiver") \/ Decline \/ SendSelection
  BY <1>1, <1>8, ReceiveNonceDone, SendPinDone, DeclineDone, SendSelectionDone
<1>9. CASE ReceiveToken
  BY <1>1, <1>3, <1>9, ReceiveTokenDone
<1>10. CASE ReceiveFileList \/ ReceivePinReply("receiver")
  BY <1>1, <1>3, <1>10, ReceiveFileListDone, ReceivePinReplyDone
<1>11. CASE ReceivePin("receiver")
  BY <1>1, <1>3, <1>11, ReceivePinDone
<1> QED
  BY <1>5, <1>6, <1>7, <1>8, <1>9, <1>10, <1>11 DEF SendersTurn, ReceiversTurn

\* The steps of the handshake leave the files alone, and none is under way.
LEMMA FilesHandshake ==
  ASSUME AgreementInv, OfferInv, FilesInOrder,
         SendersTurn \/ ReceiversTurn \/ SendFileList \/ ReceiveSelection \/ Decline
  PROVE  FilesInOrder'
<1>1. /\ TypeOK /\ Knows /\ OfferTurns /\ "sender" \in Sides /\ "receiver" \in Sides
      /\ Other("sender") = "receiver" /\ Other("receiver") = "sender"
  BY DEF AgreementInv, OfferInv, Sides, Other
<1>2. /\ UNCHANGED <<cur, sent, begun, selection, file, held, got, stream, oversized>>
      /\ UNCHANGED <<results, judged, deserted, answers>>
  BY DEF SendersTurn, ReceiversTurn, SendNonce, ReceiveNonce, ReceiveToken, ReceiveTokenReply, SendPin,
         ReceivePin, ReceivePinReply, ReceiveFileList, SendFileList, ReceiveSelection, Decline,
         sending, receiving, app
<1>3. why'["receiver"] = "delimiter" => why["receiver"] = "delimiter"
  BY OtherReasons
<1>4. Reported'
  BY <1>2, ReportedKept DEF FilesInOrder
<1>5. ASSUME pc'["receiver"] \notin Receives,
             \/ pc'["receiver"] = pc["receiver"]
             \/ pc["receiver"] \notin {"result", "over"},
             \/ pc["sender"] \notin Through
             \/ pc["receiver"] # "over"
      PROVE  FilesInOrder'
  <2>1. Streams'
    BY <1>2, <1>5, StreamsKept DEF FilesInOrder
  <2>2. StreamOrder' /\ StartOfFiles'
    BY <1>5 DEF StreamOrder, StartOfFiles, Receives
  <2>3. NoDelimiterError'
    BY <1>3, <1>5 DEF NoDelimiterError, FilesInOrder, Through
  <2> QED
    BY <1>4, <2>1, <2>2, <2>3 DEF FilesInOrder
<1>6. CASE SendersTurn \/ SendFileList
  <2>1. pc["sender"] \in BeforeOffer /\ pc'["receiver"] = pc["receiver"]
    <3>1. CASE SendersTurn
      BY <1>1, <3>1, SendersTurnDone DEF Answers, Sends
    <3>2. CASE SendFileList
      BY <1>1, <3>2, SendFileListDone DEF Sends, BeforeOffer
    <3> QED
      BY <1>6, <3>1, <3>2
  <2>2. pc["receiver"] \notin Receives /\ pc["sender"] \notin Through
    BY <1>1, <2>1 DEF OfferTurns, Receives, BeforeOffer, Through
  <2> QED
    BY <1>5, <2>1, <2>2
<1>7. CASE ReceiversTurn \/ Decline
  <2>1. pc["receiver"] \in BeforeSelection \cup {"select"} /\ pc'["receiver"] \notin Receives
    <3>1. CASE ReceiversTurn
      <4>1. ASSUME NEW at, ReceiverTurned(at)
            PROVE  pc'["receiver"] = at
        BY <4>1 DEF ReceiverTurned, Answers, Sends
      <4> QED
        BY <1>1, <3>1, <4>1, ReceiversTurnDone DEF Answers, BeforeSelection, Receives
    <3>2. CASE Decline
      BY <1>1, <3>2, DeclineDone DEF Sends, Receives
    <3> QED
      BY <1>7, <3>1, <3>2
  <2> QED
    BY <1>5, <2>1 DEF BeforeSelection
<1>8. CASE ReceiveSelection
  <2>1. PICK at \in {"closing", "sending"} : Answers("sender", <<>>, at)
    BY <1>1, <1>8, ReceiveSelectionDone
  <2>2. /\ pc["sender"] = "selection" /\ pc'["sender"] = at /\ pc'["receiver"] = pc["receiver"]
        /\ UNCHANGED open
    BY <1>1, <1>8, <2>1 DEF Answers, ReceiveSelection, Reads
  <2>3. inbox'["receiver"] = inbox["receiver"]
    <3>1. inbox["receiver"] \in Seq(Messages)
      BY <1>1 DEF TypeOK
    <3>2. inbox["receiver"] \o <<>> = inbox["receiver"]
      BY <3>1, ConcatEmptySeq
    <3> QED
      BY <1>1, <2>1, <3>2 DEF Answers
  <2>4. Streams'
    BY <1>2, <2>2, StreamsKept DEF FilesInOrder
  <2>5. StreamOrder'
    BY <1>1, <1>2, <2>2, <2>3, OrderKept DEF FilesInOrder, Through
  <2>6. pc["receiver"] = "receiving" => inbox["receiver"] = <<>> /\ begun = {}
    BY <1>1, <2>2 DEF OfferTurns
  <2>7. StartOfFiles'
    BY <1>2, <2>2, <2>3, <2>6 DEF StartOfFiles
  <2>8. NoDelimiterError'
    BY <1>3, <2>2 DEF NoDelimiterError, FilesInOrder
  <2> QED
    BY <1>4, <2>4, <2>5, <2>7, <2>8 DEF FilesInOrder
<1> QED
  BY <1>6, <1>7, <1>8

\* The selection: no file has begun.
LEMMA FilesSelection ==
  ASSUME AgreementInv, OfferInv, FilesInOrder, SendSelection
  PROVE  FilesInOrder'
<1>1. /\ TypeOK /\ OfferTurns /\ "sender" \in Sides /\ "receiver" \in Sides /\ Other("receiver") = "sender"
      /\ Streams /\ Reported
  BY DEF AgreementInv, OfferInv, Sides, Other, FilesInOrder
<1>2. /\ UNCHANGED <<cur, sent, begun, file, held, got, stream, oversized, app>>
      /\ pc["receiver"] = "select"
  BY DEF SendSelection, sending
<1>3. pc["sender"] \in {"selection", "over"} /\ begun = {} /\ inbox["receiver"] = <<>>
  BY <1>1, <1>2 DEF OfferTurns
<1>4. PICK S : S = selection'
  OBVIOUS
<1>5. Sends("receiver", <<FileTokens(S)>>, "receiving")
  BY <1>1, <1>4, SendSelectionDone
<1>6. pc'["receiver"] = "receiving" /\ inbox'["receiver"] = <<>> /\ pc'["sender"] = pc["sender"]
  BY <1>1, <1>3, <1>5 DEF Sends
<1>7. held = <<>> /\ file = None /\ \A f \in Files : stream[f] = "none"
  <2>1. \A f \in Files : stream[f] = "none"
    BY <1>1, <1>3 DEF Streams
  <2> QED
    BY <1>1, <1>2, <2>1 DEF Streams, TypeOK
<1>8. Streams'
  BY <1>1, <1>2, <1>6, <1>7 DEF Streams, app
<1>9. Reported'
  BY <1>1, <1>2, ReportedKept DEF app
<1>10. StreamOrder'
  <2>1. Coming("receiver")' = {} /\ Len(<<>>) = 0 /\ 1..0 = {}
    BY <1>6 DEF Coming
  <2>2. \A b : Ordered(<<>>, b)
    BY <2>1 DEF Ordered
  <2>3. Distinct(<<>>)
    BY <2>1 DEF Distinct
  <2>4. \A m : held' # <<m>>
    BY <1>2, <1>7
  <2> QED
    BY <1>3, <1>6, <2>1, <2>2, <2>3, <2>4 DEF StreamOrder
<1>11. StartOfFiles'
  BY <1>2, <1>3, <1>6 DEF StartOfFiles
<1>12. NoDelimiterError'
  BY <1>2, OtherReasons DEF NoDelimiterError, FilesInOrder
<1> QED
  BY <1>8, <1>9, <1>10, <1>11, <1>12 DEF FilesInOrder

\* The sender's steps with its files.
LEMMA FilesSender ==
  ASSUME AgreementInv, OfferInv, SenderFiles, FilesInOrder, SendersFile
  PROVE  FilesInOrder'
<1>1. /\ TypeOK /\ Points /\ OfferTurns /\ "sender" \in Sides /\ "receiver" \in Sides /\ Other("sender") = "receiver"
      /\ inbox["receiver"] \in Seq(Messages)
      /\ Streams /\ Reported /\ StreamOrder /\ StartOfFiles /\ NoDelimiterError
  <2>1. /\ TypeOK /\ Points /\ OfferTurns /\ "sender" \in Sides /\ "receiver" \in Sides
        /\ Other("sender") = "receiver"
        /\ Streams /\ Reported /\ StreamOrder /\ StartOfFiles /\ NoDelimiterError
    BY DEF AgreementInv, OfferInv, Sides, Other, FilesInOrder
  <2>2. inbox["receiver"] \in Seq(Messages)
    BY <2>1 DEF TypeOK
  <2> QED
    BY <2>1, <2>2
<1>2. UNCHANGED <<open, selection, file, held, got, stream, oversized, app>> /\ begun \subseteq begun'
  BY DEF SendersFile, SendFile, SendChunk, EndFile, SendDelimiter, ReceiveLast, receiving, sending
<1>3. UNCHANGED <<judged, deserted>> /\ Reported'
  BY <1>1, <1>2, ReportedKept DEF app
<1>4. pc'["receiver"] = pc["receiver"] => Streams'
  BY <1>1, <1>2, <1>3, StreamsKept
\* What follows the sender's last message, as long as it is not the delimiter.
<1>5. ASSUME pc["sender"] \notin Through, pc["receiver"] \in Receives
      PROVE  LastOf(inbox["receiver"], Before) # Delimiter
  <2>1. Delimiter \notin Coming("receiver") /\ held # <<Delimiter>>
    BY <1>1, <1>5 DEF StreamOrder, Receives, Through
  <2>2. CASE inbox["receiver"] # <<>>
    <3>1. Len(inbox["receiver"]) \in 1..Len(inbox["receiver"])
      <4>1. Len(inbox["receiver"]) \in Nat /\ Len(inbox["receiver"]) # 0
        BY <1>1, <2>2, EmptySeq
      <4> QED
        BY <4>1
    <3> QED
      BY <2>1, <2>2, <3>1 DEF LastOf, Coming
  <2>3. CASE inbox["receiver"] = <<>>
    <3>1. LastOf(inbox["receiver"], Before) = Before
      BY <2>3 DEF LastOf
    <3>2. CASE pc["receiver"] = "result"
      <4>1. PICK m \in Messages : held = <<m>>
        BY <1>1, <3>2 DEF Points
      <4>2. Before = m /\ m # Delimiter
        BY <2>1, <3>2, <4>1 DEF Before
      <4> QED
        BY <3>1, <4>2
    <3>3. CASE pc["receiver"] # "result"
      BY <3>1, <3>3 DEF Before, Nonce, Header, Chunk, Delimiter
    <3> QED
      BY <3>2, <3>3
  <2> QED
    BY <2>2, <2>3
\* What the sender's message does to the start of the receiver's inbox.
<1>6. ASSUME NEW m \in Messages, NEW at, Sends("sender", <<m>>, at), pc["sender"] \notin Through,
             begun \cap selection # {} \/ m.type = "header" \/ at \in Through
      PROVE  StartOfFiles'
  <2>1. /\ pc'["receiver"] = pc["receiver"] /\ pc'["sender"] = at
        /\ inbox'["receiver"] = IF open THEN inbox["receiver"] \o <<m>> ELSE inbox["receiver"]
    BY <1>1, <1>6 DEF Sends
  <2> SUFFICES ASSUME pc["receiver"] = "receiving", file = None
               PROVE  StartOfFiles'
    BY <1>2, <2>1 DEF StartOfFiles
  <2>2. CASE begun \cap selection = {} /\ inbox["receiver"] = <<>>
    <3>1. <<>> \o <<m>> = <<m>> /\ <<m>> # <<>> /\ Head(<<m>>) = m
      BY <1>6, ConcatEmptySeq
    <3>2. CASE ~open
      BY <1>2, <2>1, <2>2, <3>2 DEF StartOfFiles
    <3>3. CASE open /\ m.type = "header"
      BY <2>1, <2>2, <3>1, <3>3 DEF StartOfFiles
    <3>4. CASE open /\ at \in Through /\ ~(m.type = "header")
      <4>1. UNCHANGED begun
        <5>1. ASSUME NEW f \in Files, SendFile(f)
              PROVE  UNCHANGED begun
          <6>1. \/ Sends("sender", <<Header(f)>>, "chunks")
                \/ UNCHANGED pc
            BY <1>1, <5>1, SendFileDone
          <6>2. pc'["sender"] \notin Through
            BY <1>6, <6>1 DEF Sends, Through
          <6> QED
            BY <2>1, <3>4, <6>2
        <5> QED
          BY <5>1 DEF SendersFile, SendChunk, EndFile, SendDelimiter, ReceiveLast, sending
      <4> QED
        BY <1>2, <2>1, <2>2, <3>4, <4>1 DEF StartOfFiles, Through
    <3> QED
      BY <1>6, <2>2, <3>2, <3>3, <3>4
  <2>3. CASE ~open /\ inbox["receiver"] = <<>>
    BY <1>2, <2>1, <2>3 DEF StartOfFiles
  <2>4. CASE inbox["receiver"] # <<>> /\ Head(inbox["receiver"]).type = "header"
    <3>1. PICK s \in Seq(Messages) : s = inbox["receiver"]
      BY <1>1
    <3>2. s \o <<m>> # <<>> /\ Head(s \o <<m>>) = Head(s)
      <4>1. Len(s) \in Nat /\ Len(s) # 0
        BY <2>4, <3>1, EmptySeq
      <4>2. /\ Len(s \o <<m>>) = Len(s) + 1 /\ s \o <<m>> \in Seq(Messages)
            /\ (s \o <<m>>)[1] = s[1]
        BY <4>1
      <4>3. Len(s \o <<m>>) # 0 /\ Len(<<>>) = 0
        BY <4>1, <4>2
      <4>4. s \o <<m>> # <<>>
        BY <4>3
      <4>5. Head(s \o <<m>>) = (s \o <<m>>)[1] /\ Head(s) = s[1]
        BY <4>2, <4>4
      <4> QED
        BY <4>2, <4>4, <4>5
    <3> QED
      BY <2>1, <2>4, <3>1, <3>2 DEF StartOfFiles
  <2> QED
    BY <1>1, <1>6, <2>2, <2>3, <2>4 DEF StartOfFiles, Through
<1>7. UNCHANGED why /\ pc["sender"] \notin Through => NoDelimiterError'
  BY <1>1 DEF NoDelimiterError, Through
<1>8. CASE \E f \in Files : SendFile(f)
  <2>1. PICK f \in Files : SendFile(f)
    BY <1>8
  <2>2. /\ pc["sender"] = "sending" /\ f \notin begun /\ begun' = begun \cup {f} /\ UNCHANGED <<why, sent>>
        /\ \/ f \in selection /\ Sends("sender", <<Header(f)>>, "chunks") /\ cur' = f
           \/ f \notin selection /\ UNCHANGED <<inbox, pc, ended, cur>>
    BY <1>1, <2>1, SendFileDone DEF SendFile
  <2>3. NoDelimiterError'
    BY <1>7, <2>2 DEF Through
  <2>4. CASE f \notin selection /\ UNCHANGED <<inbox, pc, ended, cur>>
    <3>1. Streams'
      BY <1>4, <2>4
    <3>2. StreamOrder'
      BY <1>1, <1>2, <2>2, <2>4, OrderKept
    <3>3. begun' \cap selection = begun \cap selection
      BY <2>2, <2>4
    <3>4. StartOfFiles'
      BY <1>1, <1>2, <2>4, <3>3 DEF StartOfFiles
    <3> QED
      BY <1>3, <2>3, <3>1, <3>2, <3>4 DEF FilesInOrder
  <2>5. CASE f \in selection /\ Sends("sender", <<Header(f)>>, "chunks") /\ cur' = f
    <3>1. PICK m \in Messages : m = Header(f) /\ m.type = "header" /\ m.file = f /\ m # Delimiter
      BY DataKinds
    <3>2. Sends("sender", <<m>>, "chunks") /\ pc["sender"] \notin Through /\ m = LastSent'
      <4>1. sent'[f] = 0
        BY <2>2 DEF SenderFiles
      <4> QED
        BY <2>2, <2>5, <3>1, <4>1 DEF Through, LastSent
    <3>3. ASSUME open, pc["receiver"] \in Receives
          PROVE  /\ Follows(m, LastOf(inbox["receiver"], Before))
                 /\ m \notin Coming("receiver") /\ held # <<m>>
                 /\ m.file \in begun' \cap selection /\ stream[m.file] = "none"
      <4>1. Follows(m, LastOf(inbox["receiver"], Before))
        BY <1>5, <3>1, <3>2, <3>3 DEF Follows
      <4>2. m \notin Coming("receiver") /\ held # <<m>>
        BY <1>1, <2>2, <3>1, <3>3 DEF StreamOrder, Receives
      <4>3. stream[f] = "none"
        BY <1>1, <2>2 DEF Streams
      <4> QED
        BY <2>2, <2>5, <3>1, <4>1, <4>2, <4>3
    <3>4. StreamOrder'
      BY <1>1, <1>2, <3>1, <3>2, <3>3, OrderSent
    <3>5. StartOfFiles'
      BY <1>6, <3>1, <3>2
    <3>6. Streams'
      BY <1>1, <1>4, <2>5 DEF Sends
    <3> QED
      BY <1>3, <2>3, <3>4, <3>5, <3>6 DEF FilesInOrder
  <2> QED
    BY <2>2, <2>4, <2>5
<1>9. CASE SendChunk
  <2>1. /\ pc["sender"] = "chunks" /\ cur \in Files /\ sent[cur] + 1 \in 1..MaxChunks
        /\ sent' = [sent EXCEPT ![cur] = @ + 1] /\ UNCHANGED <<why, cur, begun>>
        /\ Sends("sender", <<Chunk(cur, sent[cur] + 1)>>, "chunks")
    BY <1>1, <1>9, SendChunkDone DEF SendChunk
  <2>2. PICK n \in 0..MaxChunks : n = sent[cur] /\ sent'[cur] = n + 1 /\ n + 1 \in 1..MaxChunks
    BY <1>1, <2>1 DEF TypeOK
  <2>3. PICK f \in Files : f = cur
    BY <2>1
  <2>4. PICK m \in Messages : m = Chunk(f, n + 1) /\ m.type = "chunk" /\ m.file = f /\ m.nr = n + 1 /\ m # Delimiter
    BY <2>2, DataKinds
  <2>5. Sends("sender", <<m>>, "chunks") /\ pc["sender"] \notin Through
    BY <2>1, <2>2, <2>3, <2>4 DEF Through
  <2>6. n + 1 # 0 /\ (n + 1 = 1 <=> n = 0) /\ n + 1 - 1 = n
    BY <2>2
  <2>7. m = LastSent'
    BY <2>1, <2>2, <2>3, <2>4, <2>6 DEF LastSent
  <2>8. ASSUME open, pc["receiver"] \in Receives
        PROVE  Follows(m, LastOf(inbox["receiver"], Before))
    <3>1. LastOf(inbox["receiver"], Before) = IF n = 0 THEN Header(f) ELSE Chunk(f, n)
      BY <1>1, <2>1, <2>2, <2>3, <2>8 DEF StreamOrder, Receives, LastSent
    <3> QED
      BY <1>5, <2>4, <2>5, <2>6, <2>8, <3>1 DEF Follows
  <2>9. StreamOrder'
    BY <1>1, <1>2, <2>4, <2>5, <2>7, <2>8, OrderSent
  <2>10. begun \cap selection # {}
    BY <2>1 DEF SenderFiles
  <2>11. StartOfFiles'
    BY <1>6, <2>5, <2>10
  <2>12. Streams' /\ NoDelimiterError'
    BY <1>1, <1>4, <1>7, <2>1, <2>5 DEF Sends
  <2> QED
    BY <1>3, <2>9, <2>11, <2>12 DEF FilesInOrder
<1>10. CASE EndFile
  <2>1. /\ pc["sender"] = "chunks" /\ UNCHANGED <<inbox, why>>
        /\ pc'["sender"] = "sending" /\ pc'["receiver"] = pc["receiver"]
    BY <1>1, <1>10, Moves DEF EndFile
  <2>2. UNCHANGED begun
    BY <1>10 DEF EndFile
  <2>3. StreamOrder'
    BY <1>1, <1>2, <2>1, OrderKept DEF Through
  <2>4. StartOfFiles'
    BY <1>1, <1>2, <2>1, <2>2 DEF StartOfFiles
  <2>5. Streams' /\ NoDelimiterError'
    BY <1>4, <1>7, <2>1 DEF Through
  <2> QED
    BY <1>3, <2>3, <2>4, <2>5 DEF FilesInOrder
<1>11. CASE SendDelimiter
  <2>1. /\ pc["sender"] = "sending" /\ Sends("sender", <<Delimiter>>, "last") /\ UNCHANGED why
        /\ Delimiter \in Messages /\ Delimiter.type = "delimiter" /\ pc["sender"] \notin Through
    BY <1>1, <1>11, SendDelimiterDone, DataKinds DEF Through
  <2>2. open /\ pc["receiver"] \in Receives => Follows(Delimiter, LastOf(inbox["receiver"], Before))
    BY <1>5, <2>1 DEF Follows
  <2>3. StreamOrder'
    BY <1>1, <1>2, <2>1, <2>2, OrderSent
  <2>4. StartOfFiles'
    BY <1>6, <2>1 DEF Through
  <2>5. Streams' /\ NoDelimiterError'
    BY <1>1, <1>4, <1>7, <2>1 DEF Sends
  <2> QED
    BY <1>3, <2>3, <2>4, <2>5 DEF FilesInOrder
<1>12. CASE ReceiveLast
  <2>1. pc["sender"] = "last" /\ Answers("sender", <<>>, "closing") /\ UNCHANGED why
    BY <1>1, <1>12, ReceiveLastDone
  <2>2. pc'["sender"] = "closing" /\ pc'["receiver"] = pc["receiver"] /\ inbox'["receiver"] = inbox["receiver"]
    BY <1>1, <2>1, ConcatEmptySeq DEF Answers
  <2>3. UNCHANGED begun
    BY <1>12 DEF ReceiveLast, sending
  <2>4. StreamOrder'
    BY <1>1, <1>2, <2>2, OrderKept DEF Through
  <2>5. StartOfFiles'
    BY <1>1, <1>2, <2>2, <2>3 DEF StartOfFiles
  <2>6. NoDelimiterError'
    BY <1>1, <1>2, <2>1, <2>2, <2>3 DEF NoDelimiterError
  <2> QED
    BY <1>3, <1>4, <2>2, <2>4, <2>5, <2>6 DEF FilesInOrder
<1> QED
  BY <1>8, <1>9, <1>10, <1>11, <1>12 DEF SendersFile

\* A header that is taken opens the stream of its file.
LEMMA HeaderOpens ==
  ASSUME AgreementInv, FilesInOrder, NEW m \in Messages, m.type = "header", OpenFile(m),
         \/ m \in Coming("receiver") /\ pc["receiver"] = "receiving" /\ file = None
         \/ held = <<m>> /\ pc["receiver"] = "result" /\ (file \in judged \/ deserted),
         pc'["receiver"] = "receiving", held' = <<>>, UNCHANGED <<begun, selection, got, judged, deserted>>
  PROVE  /\ Streams' /\ m.file \in Files /\ m = Header(m.file) /\ file' = m.file /\ stream[m.file] = "none"
         /\ stream' = [stream EXCEPT ![m.file] = "open"] /\ Before' = m
<1>1. /\ TypeOK /\ Streams /\ StreamOrder
  BY DEF AgreementInv, FilesInOrder
<1>2. PICK f \in Files : m = Header(f) /\ m.file = f
  BY MessageKinds
<1>3. f \in begun \cap selection /\ stream[f] = "none"
  BY <1>1, <1>2 DEF StreamOrder
<1>4. file' = f /\ stream' = [stream EXCEPT ![f] = "open"]
  BY <1>2, <1>3 DEF OpenFile
<1>5. None \notin Files /\ got[f] = <<>>
  BY <1>1, <1>3, RtcAssumption DEF Streams
<1>6. \A g \in Files : stream'[g] = IF g = f THEN "open" ELSE stream[g]
  BY <1>1, <1>4 DEF TypeOK
<1>7. Streams'
  <2>1. \A g \in Files : stream[g] # "none" => g \in judged \/ deserted
    BY <1>1, <1>5 DEF Streams
  <2> QED
    BY <1>1, <1>3, <1>4, <1>5, <1>6, <2>1 DEF Streams
<1>8. Before' = m
  BY <1>2, <1>4, <1>5 DEF Before
<1> QED
  BY <1>2, <1>3, <1>4, <1>7, <1>8

\* The receiver's steps with files.
LEMMA FilesReceiver ==
  ASSUME AgreementInv, OfferInv, FilesInOrder, ReceiversFile, oversized' = {}
  PROVE  FilesInOrder'
<1>1. /\ TypeOK /\ Points /\ "sender" \in Sides /\ "receiver" \in Sides
      /\ Other("sender") = "receiver" /\ Other("receiver") = "sender"
      /\ inbox["receiver"] \in Seq(Messages)
      /\ Streams /\ Reported /\ StreamOrder /\ StartOfFiles /\ NoDelimiterError
  BY DEF AgreementInv, Sides, Other, FilesInOrder, TypeOK
<1>2. UNCHANGED <<open, cur, sent, begun, selection>>
  BY DEF ReceiversFile, EndOfFile, SendStatus, ReceiveHeader, ReceiveChunk, sending
<1>3. pc'["sender"] = pc["sender"] /\ pc["receiver"] \in {"receiving", "result"}
  BY <1>1, ReceiversFileDone
<1>4. UNCHANGED why => NoDelimiterError'
  BY <1>1, <1>3 DEF NoDelimiterError
<1>5. inbox["receiver"] # <<>> => /\ Head(inbox["receiver"]) \in Coming("receiver")
                                  /\ Follows(Head(inbox["receiver"]), Before)
  <2> SUFFICES ASSUME inbox["receiver"] # <<>>
               PROVE  /\ Head(inbox["receiver"]) \in Coming("receiver")
                      /\ Follows(Head(inbox["receiver"]), Before)
    OBVIOUS
  <2>1. Head(inbox["receiver"]) = inbox["receiver"][1] /\ 1 \in 1..Len(inbox["receiver"])
    BY <1>1
  <2>2. Ordered(inbox["receiver"], Before)
    BY <1>1, <1>3 DEF StreamOrder
  <2> QED
    BY <2>1, <2>2 DEF Coming, Ordered
<1>6. CASE EndOfFile
  <2>1. /\ pc["receiver"] = "receiving" /\ file \in Files /\ UNCHANGED why
        /\ Answers("receiver", <<>>, "result")
        /\ held' = <<Head(inbox["receiver"])>>
        /\ stream' = [stream EXCEPT ![file] = "closed"]
    BY <1>1, <1>6, EndOfFileDone
  <2>2. UNCHANGED <<file, got, app, judged, deserted>>
    BY <1>6 DEF EndOfFile, app
  <2>3. /\ pc'["receiver"] = "result" /\ inbox["receiver"] # <<>> /\ inbox'["receiver"] = Tail(inbox["receiver"])
    BY <2>1 DEF Answers
  <2>4. file # None /\ stream[file] = "open"
    BY <1>1, <2>1, RtcAssumption DEF Streams
  <2>5. \A g \in Files : stream'[g] = IF g = file THEN "closed" ELSE stream[g]
    BY <1>1, <2>1 DEF TypeOK
  <2>6. Streams'
    <3>1. PICK f \in Files : f = file
      BY <2>1
    <3>2. /\ f # None /\ stream[f] = "open" /\ stream'[f] = "closed"
          /\ \A g \in Files : g # f => stream'[g] = stream[g]
      BY <2>4, <2>5, <3>1
    <3> QED
      BY <1>1, <1>2, <2>2, <2>3, <3>1, <3>2 DEF Streams
  <2>7. Reported'
    <3>1. PICK f \in Files : f = file
      BY <2>1
    <3>2. /\ stream'[f] = "closed" /\ \A g \in Files : g # f => stream'[g] = stream[g]
      BY <2>5, <3>1
    <3>3. answers \in SUBSET [file : Files, success : BOOLEAN, about : Files]
      BY <1>1 DEF TypeOK
    <3> QED
      BY <1>1, <2>2, <3>1, <3>2, <3>3 DEF Reported, app
  <2>8. Before' = Head(inbox["receiver"])
    BY <2>1, <2>3 DEF Before
  <2>9. StreamOrder'
    <3>1. \A f \in Files : stream'[f] = stream[f] \/ stream[f] # "none"
      BY <2>4, <2>5
    <3> QED
      BY <1>1, <1>2, <1>3, <2>1, <2>3, <2>8, <3>1, OrderNext
  <2>10. StartOfFiles'
    BY <2>3 DEF StartOfFiles
  <2> QED
    BY <1>4, <2>1, <2>6, <2>7, <2>9, <2>10 DEF FilesInOrder
<1>7. CASE SendStatus
  <2>1. /\ pc["receiver"] = "result" /\ file \in Files /\ UNCHANGED why
        /\ results' = <<>> /\ held' = <<>>
    BY <1>1, <1>7, SendStatusDone
  <2>2. PICK m \in Messages, f \in Files, ok \in BOOLEAN :
          /\ held = <<m>>
          /\ \/ results = <<[file |-> f, success |-> ok]>>
             \/ deserted /\ f = file /\ ok = FALSE
          /\ answers' = answers \cup {[file |-> file, success |-> ok, about |-> f]}
          /\ \/ /\ m.type = "delimiter" /\ file' = None /\ UNCHANGED stream
                /\ Sends("receiver", <<Status(file, ok)>>, "closing")
             \/ /\ m.type = "header" /\ OpenFile(m)
                /\ Sends("receiver", <<Status(file, ok)>>, "receiving")
    BY <1>1, <1>7, SendStatusDone
  <2>3. UNCHANGED <<got, judged, deserted>>
    BY <1>7 DEF SendStatus
  <2>4. f = file /\ (file \in judged \/ deserted) /\ stream[f] = "closed" /\ (ok => Len(got[f]) = Size)
    <3>1. CASE results = <<[file |-> f, success |-> ok]>>
      <4>1. results # <<>> /\ Head(results).file = f /\ Head(results).success = ok
        BY <3>1
      <4> QED
        BY <1>1, <2>1, <4>1 DEF Reported, Streams
    <3>2. CASE deserted /\ f = file /\ ok = FALSE
      BY <1>1, <2>1, <3>2 DEF Streams
    <3> QED
      BY <2>2, <3>1, <3>2
  <2>5. \A a \in answers' : /\ a.about = a.file /\ stream[a.file] = "closed"
                            /\ a.success => Len(got[a.file]) = Size
    <3>1. \A a \in answers' : a \in answers \/ a = [file |-> f, success |-> ok, about |-> f]
      BY <2>2, <2>4
    <3>2. LET a == [file |-> f, success |-> ok, about |-> f]
          IN  /\ a.about = a.file /\ stream[a.file] = "closed"
              /\ a.success => Len(got[a.file]) = Size
      BY <2>4
    <3> QED
      BY <1>1, <3>1, <3>2 DEF Reported
  <2>6. inbox'["receiver"] = inbox["receiver"] /\ pc'["receiver"] \in {"closing", "receiving"}
    BY <2>2 DEF Sends
  <2>7. CASE m.type = "delimiter" /\ file' = None /\ UNCHANGED stream /\ pc'["receiver"] = "closing"
    <3>1. Streams'
      BY <1>1, <1>2, <2>1, <2>3, <2>4, <2>7 DEF Streams
    <3>2. Reported'
      BY <2>1, <2>3, <2>5, <2>7 DEF Reported
    <3>3. StreamOrder' /\ StartOfFiles'
      BY <2>7 DEF StreamOrder, StartOfFiles
    <3> QED
      BY <1>4, <2>1, <3>1, <3>2, <3>3 DEF FilesInOrder
  <2>8. CASE m.type = "header" /\ OpenFile(m) /\ pc'["receiver"] = "receiving"
    <3>1. /\ Streams' /\ m.file \in Files /\ m = Header(m.file) /\ file' = m.file /\ stream[m.file] = "none"
          /\ stream' = [stream EXCEPT ![m.file] = "open"] /\ Before' = m
      BY <1>2, <2>1, <2>2, <2>3, <2>4, <2>8, HeaderOpens
    <3>2. PICK g \in Files : g = m.file /\ stream[g] = "none" /\ \A h \in Files : h # g => stream'[h] = stream[h]
      BY <1>1, <3>1 DEF TypeOK
    <3>3. Reported'
      <4>1. answers' \in SUBSET [file : Files, success : BOOLEAN, about : Files]
        BY <1>1, <2>2, <2>1 DEF TypeOK
      <4>2. \A a \in answers' : a.file \in Files /\ stream'[a.file] = "closed"
        BY <2>5, <3>2, <4>1
      <4> QED
        BY <2>1, <2>3, <2>5, <4>2 DEF Reported
    <3>4. Before = m
      BY <2>1, <2>2 DEF Before
    <3>5. Coming("receiver")' = Coming("receiver")
      BY <2>6 DEF Coming
    <3>6. StreamOrder'
      <4>1. (Ordered(inbox["receiver"], Before) /\ Distinct(inbox["receiver"]))'
        BY <1>1, <1>3, <2>6, <3>1, <3>4 DEF StreamOrder
      <4>2. (\A h \in Files :
               Header(h) \in Coming("receiver") \/ held = <<Header(h)>> =>
                 h \in begun \cap selection /\ stream[h] = "none")'
        <5> SUFFICES ASSUME NEW h \in Files, Header(h) \in Coming("receiver")' \/ held' = <<Header(h)>>
                     PROVE  h \in begun \cap selection /\ stream'[h] = "none"
          BY <1>2
        <5>1. Header(h) \in Coming("receiver") /\ Header(h).type = "header" /\ Header(h).file = h
          BY <2>1, <3>5, DataKinds
        <5>2. h \in begun \cap selection /\ stream[h] = "none" /\ held # <<Header(h)>>
          BY <1>1, <1>3, <5>1 DEF StreamOrder
        <5>3. h # g
          BY <2>2, <3>1, <3>2, <5>2
        <5> QED
          BY <3>2, <5>2, <5>3
      <4>3. (\A n \in Coming("receiver") : n.type = "header" => held # <<n>>)'
        BY <2>1
      <4>4. (open /\ pc["sender"] = "chunks" => LastOf(inbox["receiver"], Before) = LastSent)'
        BY <1>1, <1>2, <1>3, <2>6, <3>1, <3>4 DEF StreamOrder, LastSent
      <4>5. (Delimiter \in Coming("receiver") \/ held = <<Delimiter>> => pc["sender"] \in {"last", "closing", "over"})'
        BY <1>1, <1>3, <2>1, <3>5 DEF StreamOrder
      <4> QED
        BY <4>1, <4>2, <4>3, <4>4, <4>5 DEF StreamOrder
    <3>7. StartOfFiles'
      BY <3>1, RtcAssumption DEF StartOfFiles
    <3> QED
      BY <1>4, <2>1, <3>1, <3>3, <3>6, <3>7 DEF FilesInOrder
  <2> QED
    BY <2>2, <2>7, <2>8 DEF Sends
<1>8. CASE ReceiveHeader
  <2>1. /\ pc["receiver"] = "receiving" /\ file = None /\ inbox["receiver"] # <<>>
        /\ UNCHANGED <<held, got, app, judged, deserted>>
    BY <1>1, <1>8, ReceiveHeaderDone DEF ReceiveHeader, app
  <2>2. PICK m \in Messages :
          /\ m = Head(inbox["receiver"])
          /\ \/ /\ m.type = "header" /\ OpenFile(m) /\ UNCHANGED why
                /\ Answers("receiver", <<>>, "receiving")
             \/ /\ m.type = "delimiter" /\ UNCHANGED <<file, stream>>
                /\ Answers("receiver", <<>>, "over") /\ FailsWith("receiver", "delimiter")
    BY <1>1, <1>8, ReceiveHeaderDone
  <2>3. m \in Coming("receiver") /\ held = <<>>
    BY <1>1, <1>5, <2>1, <2>2 DEF Streams
  <2>4. CASE m.type = "header" /\ OpenFile(m) /\ UNCHANGED why /\ Answers("receiver", <<>>, "receiving")
    <3>1. pc'["receiver"] = "receiving" /\ inbox'["receiver"] = Tail(inbox["receiver"])
      BY <2>4 DEF Answers
    <3>2. /\ Streams' /\ m.file \in Files /\ m = Header(m.file) /\ file' = m.file /\ stream[m.file] = "none"
          /\ stream' = [stream EXCEPT ![m.file] = "open"] /\ Before' = m
      BY <1>2, <2>1, <2>3, <2>4, <3>1, HeaderOpens
    <3>3. PICK g \in Files : g = m.file /\ stream[g] = "none" /\ \A h \in Files : h # g => stream'[h] = stream[h]
      BY <1>1, <3>2 DEF TypeOK
    <3>4. Reported'
      <4>1. answers \in SUBSET [file : Files, success : BOOLEAN, about : Files]
        BY <1>1 DEF TypeOK
      <4>2. \A a \in answers : a.file \in Files /\ stream'[a.file] = "closed"
        BY <1>1, <3>3, <4>1 DEF Reported
      <4> QED
        BY <1>1, <2>1, <4>2 DEF Reported, app
    <3>5. StreamOrder'
      <4>1. \A h \in Files : stream'[h] = stream[h] \/ stream[h] # "none" \/ Head(inbox["receiver"]) = Header(h)
        BY <2>2, <3>2, <3>3
      <4> QED
        BY <1>1, <1>2, <1>3, <2>1, <2>2, <2>3, <3>1, <3>2, <4>1, OrderNext
    <3>6. StartOfFiles'
      BY <3>2, RtcAssumption DEF StartOfFiles
    <3> QED
      BY <1>4, <2>4, <3>2, <3>4, <3>5, <3>6 DEF FilesInOrder
  <2>5. CASE /\ m.type = "delimiter" /\ UNCHANGED <<file, stream>>
             /\ Answers("receiver", <<>>, "over") /\ FailsWith("receiver", "delimiter")
    <3>1. pc'["receiver"] = "over" /\ m = Delimiter
      BY <2>5, MessageKinds DEF Answers
    <3>2. Streams'
      BY <1>1, <1>2, <2>1, <3>1, <2>5, StreamsKept DEF Receives
    <3>3. Reported'
      BY <1>1, <2>1, <2>5, ReportedKept DEF app
    <3>4. StreamOrder' /\ StartOfFiles'
      BY <3>1 DEF StreamOrder, StartOfFiles
    <3>5. pc["sender"] \in {"last", "closing", "over"}
      BY <1>1, <2>1, <2>3, <3>1 DEF StreamOrder
    <3>6. begun \cap selection = {}
      BY <1>1, <2>1, <2>2, <2>5 DEF StartOfFiles
    <3>7. NoDelimiterError'
      BY <1>2, <1>3, <3>1, <3>5, <3>6 DEF NoDelimiterError
    <3> QED
      BY <3>2, <3>3, <3>4, <3>7 DEF FilesInOrder
  <2> QED
    BY <2>2, <2>4, <2>5
<1>9. CASE ReceiveChunk /\ ChunkDropped
  <2>1. pc["receiver"] = "receiving" /\ UNCHANGED <<held, app, judged, deserted>>
    BY <1>1, <1>9, ReceiveChunkDone DEF ReceiveChunk, app
  <2>2. pc'["receiver"] = "over" /\ UNCHANGED <<file, got, stream>> /\ why'["receiver"] = "dropped"
    BY <1>1, <1>9 DEF ChunkDropped, Answers, FailsWith, TypeOK
  <2>3. Streams'
    BY <1>1, <1>2, <2>1, <2>2, StreamsKept DEF Receives
  <2>4. Reported'
    BY <1>1, <2>1, <2>2, ReportedKept DEF app
  <2>5. StreamOrder' /\ StartOfFiles'
    BY <2>2 DEF StreamOrder, StartOfFiles
  <2>6. NoDelimiterError'
    BY <2>2 DEF NoDelimiterError
  <2> QED
    BY <2>3, <2>4, <2>5, <2>6 DEF FilesInOrder
<1>10. CASE ReceiveChunk /\ ~ChunkDropped
  <2>1. /\ pc["receiver"] = "receiving" /\ UNCHANGED <<pc, why>>
        /\ Answers("receiver", <<>>, "receiving") /\ UNCHANGED <<held, app, judged, deserted>>
    BY <1>1, <1>10, ReceiveChunkDone DEF ReceiveChunk, app
  <2>2. PICK f \in Files, i \in 1..MaxChunks :
          /\ Head(inbox["receiver"]) = Chunk(f, i) /\ Chunk(f, i) \in Messages
          /\ \/ file = None /\ UNCHANGED <<file, got, stream, oversized>>
             \/ /\ file \in Files /\ Len(got[file]) < Size
                /\ got' = [got EXCEPT ![file] = Append(@, <<f, i>>)]
                /\ UNCHANGED <<file, stream, oversized>>
             \/ /\ file \in Files /\ oversized' = oversized \cup {file} /\ UNCHANGED got
                /\ stream' = [stream EXCEPT ![file] = "closed"] /\ file' = None
    BY <1>1, <1>10, ReceiveChunkDone
  <2>3. inbox["receiver"] # <<>> /\ inbox'["receiver"] = Tail(inbox["receiver"]) /\ held = <<>>
    BY <1>1, <2>1 DEF Answers, Streams
  <2>4. Before = IF i = 1 THEN Header(f) ELSE Chunk(f, i - 1)
    <3>1. Chunk(f, i).type = "chunk" /\ Chunk(f, i).file = f /\ Chunk(f, i).nr = i
      BY DataKinds
    <3> QED
      BY <1>5, <2>2, <2>3, <3>1 DEF Follows
  <2>5. file \in Files
    <3>1. file = None => Before = Nonce
      BY <2>1 DEF Before
    <3>2. Nonce.type = "nonce" /\ Header(f).type = "header" /\ Chunk(f, i - 1).type = "chunk"
      BY DEF Nonce, Header, Chunk
    <3>3. file # None
      BY <2>4, <3>1, <3>2
    <3> QED
      BY <1>1, <3>3 DEF TypeOK
  <2>6. file # None
    BY <2>5, RtcAssumption
  <2>7. PICK g \in Files : g = file
    BY <2>5
  <2>8. got[g] \in Seq(Files \X (1..MaxChunks)) /\ Len(got[g]) \in Nat
    BY <1>1 DEF TypeOK
  <2>9. f = g /\ i = Len(got[g]) + 1
    <3>1. Before = IF got[g] = <<>> THEN Header(g) ELSE Chunk(g, Len(got[g]))
      BY <2>1, <2>6, <2>7 DEF Before
    <3>2. /\ \A n : Header(f) # Chunk(g, n) /\ Chunk(f, n) # Header(g)
          /\ Header(f) = Header(g) => f = g
          /\ \A n, k : Chunk(f, n) = Chunk(g, k) => f = g /\ n = k
      BY DEF Header, Chunk
    <3>3. CASE i = 1
      <4>1. got[g] = <<>> /\ f = g
        BY <2>4, <3>1, <3>2, <3>3
      <4>2. Len(got[g]) = 0
        BY <4>1
      <4> QED
        BY <3>3, <4>1, <4>2
    <3>4. CASE i # 1
      <4>1. f = g /\ i - 1 = Len(got[g])
        BY <2>4, <3>1, <3>2, <3>4
      <4> QED
        BY <4>1
    <3> QED
      BY <3>3, <3>4
  <2>10. /\ Len(got[file]) < Size /\ got' = [got EXCEPT ![file] = Append(@, <<f, i>>)]
         /\ UNCHANGED <<file, stream>>
    <3>1. oversized' # oversized \cup {file}
      OBVIOUS
    <3> QED
      BY <2>2, <2>6, <3>1
  <2>11. PICK was \in Seq(Files \X (1..MaxChunks)) : was = got[g]
    BY <2>8
  <2>12. /\ got'[g] = Append(was, <<g, Len(was) + 1>>) /\ \A h \in Files : h # g => got'[h] = got[h]
    BY <1>1, <2>7, <2>9, <2>10, <2>11 DEF TypeOK
  <2>13. /\ Append(was, <<g, Len(was) + 1>>) = [k \in 1..(Len(was) + 1) |-> <<g, k>>]
         /\ Len(got'[g]) = Len(was) + 1 /\ got'[g] # <<>>
    <3>1. was = [k \in 1..Len(was) |-> <<g, k>>] /\ Len(was) \in Nat
      BY <1>1, <2>8, <2>11 DEF Streams
    <3>2. <<g, Len(was) + 1>> \in Files \X (1..MaxChunks)
      BY <2>2, <2>9, <2>11
    <3>3. PICK more \in Seq(Files \X (1..MaxChunks)) : more = Append(was, <<g, Len(was) + 1>>)
      <4>1. \A e \in Files \X (1..MaxChunks) : Append(was, e) \in Seq(Files \X (1..MaxChunks))
        OBVIOUS
      <4>2. Append(was, <<g, Len(was) + 1>>) \in Seq(Files \X (1..MaxChunks))
        BY <3>2, <4>1
      <4> QED
        BY <4>2
    <3>4. /\ Len(more) = Len(was) + 1 /\ \A k \in 1..Len(was) : more[k] = was[k]
          /\ more[Len(was) + 1] = <<g, Len(was) + 1>>
      BY <3>2, <3>3
    <3>5. ASSUME NEW k \in 1..(Len(was) + 1)
          PROVE  more[k] = <<g, k>>
      <4>1. CASE k \in 1..Len(was)
        BY <3>1, <3>4, <4>1
      <4>2. CASE k = Len(was) + 1
        BY <3>4, <4>2
      <4> QED
        BY <3>1, <4>1, <4>2
    <3>6. more = [k \in 1..(Len(was) + 1) |-> <<g, k>>]
      BY <3>4, <3>5
    <3>7. Len(more) # 0 /\ Len(<<>>) = 0
      BY <3>1, <3>4
    <3> QED
      BY <2>12, <3>3, <3>4, <3>6, <3>7
  <2>14. stream[g] = "open" /\ g \in begun \cap selection
    BY <1>1, <2>1, <2>6, <2>7 DEF Streams
  <2>15. Streams'
    <3>1. \A h \in Files : got'[h] = [k \in 1..Len(got'[h]) |-> <<h, k>>]
      BY <1>1, <2>12, <2>13 DEF Streams
    <3>2. \A h \in Files : stream[h] = "none" => got'[h] = <<>>
      BY <1>1, <2>12, <2>14 DEF Streams
    <3> QED
      BY <1>1, <1>2, <2>1, <2>10, <3>1, <3>2 DEF Streams
  <2>16. Reported'
    <3>1. answers \in SUBSET [file : Files, success : BOOLEAN, about : Files]
      BY <1>1 DEF TypeOK
    <3>2. \A a \in answers : a.file \in Files /\ a.file # g
      BY <1>1, <2>14, <3>1 DEF Reported
    <3>3. results # <<>> => ~Head(results).success
      BY <1>1, <2>7, <2>14 DEF Reported
    <3> QED
      BY <1>1, <2>1, <2>10, <2>12, <3>2, <3>3 DEF Reported, app
  <2>17. Before' = Head(inbox["receiver"])
    <3>1. Before' = Chunk(g, Len(got'[g]))
      BY <2>1, <2>6, <2>7, <2>10, <2>13 DEF Before
    <3> QED
      BY <2>2, <2>9, <2>11, <2>13, <3>1
  <2>18. StreamOrder'
    BY <1>1, <1>2, <1>3, <2>1, <2>3, <2>10, <2>17, OrderNext
  <2>19. StartOfFiles'
    BY <2>6, <2>10 DEF StartOfFiles
  <2> QED
    BY <1>4, <2>1, <2>15, <2>16, <2>18, <2>19 DEF FilesInOrder
<1> QED
  BY <1>6, <1>7, <1>8, <1>9, <1>10 DEF ReceiversFile

\* The application's report is about the file whose stream was opened last.
LEMMA FilesReport ==
  ASSUME AgreementInv, FilesInOrder, NEW f \in Files, Report(f)
  PROVE  FilesInOrder'
<1>1. TypeOK /\ Streams /\ Reported /\ StreamOrder /\ StartOfFiles /\ NoDelimiterError
  BY DEF AgreementInv, FilesInOrder
<1>2. /\ stream[f] # "none" /\ f \notin judged /\ judged' = judged \cup {f}
      /\ ~deserted /\ UNCHANGED deserted
      /\ UNCHANGED <<open, inbox, pc, why, cur, sent, begun, selection, file, held, got, stream, answers>>
  BY DEF Report, sending, receiving
<1>3. PICK ok \in BOOLEAN : /\ ok => stream[f] = "closed" /\ Len(got[f]) = Size
                            /\ results' = <<[file |-> f, success |-> ok]>>
  BY DEF Report
<1>4. f = file /\ file # None
  BY <1>1, <1>2, RtcAssumption DEF Streams
<1>5. Streams'
  BY <1>1, <1>2, <1>4 DEF Streams
<1>6. Reported'
  <2>1. Head(results').file = f /\ Head(results').success = ok
    BY <1>3
  <2> QED
    BY <1>1, <1>2, <1>3, <1>4, <2>1 DEF Reported
<1>7. StreamOrder' /\ StartOfFiles' /\ NoDelimiterError'
  BY <1>1, <1>2 DEF StreamOrder, StartOfFiles, NoDelimiterError, Before, Coming, LastSent
<1> QED
  BY <1>5, <1>6, <1>7 DEF FilesInOrder

\* What is lost with the connection or with a task disturbs no order.
LEMMA FilesLosses ==
  ASSUME AgreementInv, FilesInOrder, NEW p \in Sides,
         Misread(p) \/ Close(p) \/ Break \/ Disconnected(p) \/ Desert \/ SendFails(p)
  PROVE  FilesInOrder'
<1>1. /\ TypeOK /\ Streams /\ Reported /\ StreamOrder /\ StartOfFiles /\ NoDelimiterError
      /\ "sender" \in Sides /\ "receiver" \in Sides
      /\ \/ p = "sender" /\ Other(p) = "receiver"
         \/ p = "receiver" /\ Other(p) = "sender"
      /\ inbox["receiver"] \in Seq(Messages)
  <2>1. p = "sender" \/ p = "receiver"
    BY DEF Sides
  <2>2. TypeOK /\ "receiver" \in Sides
    BY DEF AgreementInv, Sides
  <2>3. inbox["receiver"] \in Seq(Messages)
    BY <2>2 DEF TypeOK
  <2> QED
    BY <2>1, <2>2, <2>3 DEF AgreementInv, FilesInOrder, Sides, Other
<1>2. /\ UNCHANGED <<cur, sent, begun, selection, file, held, got, stream>>
      /\ UNCHANGED <<results, judged, answers>>
  BY DEF Misread, Close, Break, Disconnected, Desert, SendFails, sending, receiving, app
<1>3. (deserted => deserted') /\ Reported'
  <2>1. deserted => deserted'
    BY DEF Misread, Close, Break, Disconnected, Desert, SendFails, app
  <2> QED
    BY <1>1, <1>2, <2>1, ReportedKept
<1>4. /\ \A q \in Sides : pc'[q] = pc[q] \/ pc'[q] = "over"
      /\ inbox["receiver"] = <<>> => inbox'["receiver"] = <<>>
  BY <1>1, Losses
<1>5. Streams'
  BY <1>1, <1>2, <1>3, <1>4, StreamsKept DEF Receives
<1>6. \/ pc'["receiver"] = "over"
      \/ /\ pc'["receiver"] = pc["receiver"]
         /\ \/ inbox'["receiver"] = inbox["receiver"] /\ open' = open
            \/ inbox'["receiver"] \in Prefixes(inbox["receiver"]) /\ ~open'
  <2>1. <<>> \in Prefixes(inbox["receiver"])
    <3>1. SubSeq(inbox["receiver"], 1, 0) = <<>> /\ 0 \in 0..Len(inbox["receiver"])
      BY <1>1
    <3> QED
      BY <3>1 DEF Prefixes
  <2>2. CASE Misread(p)
    <3>1. Answers(p, <<>>, "over") /\ UNCHANGED open
      BY <1>1, <2>2, MisreadDone DEF Misread
    <3> QED
      BY <1>1, <3>1, ConcatEmptySeq DEF Answers
  <2>3. CASE Close(p)
    BY <1>1, <2>1, <2>3, CloseDone DEF Cut, Close
  <2>4. CASE Break
    BY <1>1, <2>1, <2>4, BreakDone DEF Cut, Break
  <2>5. CASE Disconnected(p) \/ Desert
    BY <2>5 DEF Disconnected, Desert
  <2>6. CASE SendFails(p)
    BY <1>1, <2>6, SendFailsDone DEF SendFails
  <2> QED
    BY <2>2, <2>3, <2>4, <2>5, <2>6
<1>7. StreamOrder'
  <2>1. pc'["sender"] = "chunks" => pc["sender"] = "chunks"
    BY <1>1, <1>4
  <2>2. pc["sender"] \in Through => pc'["sender"] \in Through
    BY <1>1, <1>4 DEF Through
  <2>3. "over" \notin Receives
    BY DEF Receives
  <2> QED
    BY <1>1, <1>2, <1>6, <2>1, <2>2, <2>3, OrderKept
<1>8. StartOfFiles'
  <2>1. pc["sender"] \in {"last", "closing", "over"} => pc'["sender"] \in {"last", "closing", "over"}
    BY <1>1, <1>4
  <2>2. inbox'["receiver"] \in Prefixes(inbox["receiver"]) =>
          inbox'["receiver"] = <<>> \/ Head(inbox'["receiver"]) = Head(inbox["receiver"])
    <3> SUFFICES ASSUME inbox'["receiver"] \in Prefixes(inbox["receiver"]), inbox'["receiver"] # <<>>
                 PROVE  Head(inbox'["receiver"]) = Head(inbox["receiver"])
      OBVIOUS
    <3>1. PICK s \in Seq(Messages) : s = inbox["receiver"]
      BY <1>1
    <3>2. PICK r \in Prefixes(s) : r = inbox'["receiver"] /\ r # <<>>
      BY <3>1
    <3>3. /\ r \in Seq(Messages) /\ Len(r) <= Len(s)
          /\ \A i \in 1..Len(r) : i \in 1..Len(s) /\ r[i] = s[i]
      BY Beginning
    <3>4. Len(r) \in Nat /\ Len(r) # 0
      BY <3>2, <3>3, EmptySeq
    <3>5. 1 \in 1..Len(r)
      BY <3>4
    <3>6. r[1] = s[1] /\ Head(r) = r[1] /\ Head(s) = s[1]
      BY <3>3, <3>5
    <3> QED
      BY <3>1, <3>2, <3>6
  <2>3. CASE pc'["receiver"] = "over"
    BY <2>3 DEF StartOfFiles
  <2>4. CASE pc'["receiver"] = pc["receiver"] /\ inbox'["receiver"] = inbox["receiver"] /\ open' = open
    BY <1>1, <1>2, <2>1, <2>4 DEF StartOfFiles
  <2>5. CASE pc'["receiver"] = pc["receiver"] /\ inbox'["receiver"] \in Prefixes(inbox["receiver"]) /\ ~open'
    BY <1>1, <1>2, <1>4, <2>1, <2>2, <2>5 DEF StartOfFiles
  <2> QED
    BY <1>6, <2>3, <2>4, <2>5
<1>9. NoDelimiterError'
  <2>1. why'["receiver"] = "delimiter" => why["receiver"] = "delimiter"
    <3>1. UNCHANGED why \/ FailsWith(p, "outOfStep") \/ FailsWith(p, "lost")
      BY MisreadDone, CloseDone, BreakDone, SendFailsDone, <1>1 DEF Disconnected, Desert
    <3> QED
      BY <1>1, <3>1 DEF FailsWith
  <2> QED
    BY <1>1, <1>2, <1>4, <2>1 DEF NoDelimiterError
<1> QED
  BY <1>3, <1>5, <1>7, <1>8, <1>9 DEF FilesInOrder
-----------------------------------------------------------------------------
(* The sides and the files together                                        *)

\* The sender goes on with a file it has begun, and no other is touched.
LEMMA SenderFilesStep ==
  ASSUME AgreementInv, OfferInv, SenderFiles, Next
  PROVE  SenderFiles'
<1>1. /\ TypeOK /\ Points /\ OfferTurns /\ "sender" \in Sides /\ "receiver" \in Sides
      /\ Other("sender") = "receiver" /\ Other("receiver") = "sender"
  BY DEF AgreementInv, OfferInv, Sides, Other
<1>2. UNCHANGED <<cur, sent, begun, selection>> /\ (pc'["sender"] = "chunks" => pc["sender"] = "chunks")
        => SenderFiles'
  BY DEF SenderFiles
<1>3. ASSUME NEW p \in Sides, FilesAlone(p)
      PROVE  SenderFiles'
  <2>1. UNCHANGED <<cur, sent, begun, selection>>
    BY <1>3 DEF FilesAlone, SendNonce, ReceiveNonce, ReceiveToken, ReceiveTokenReply, SendPin, ReceivePin,
         ReceivePinReply, SendFileList, ReceiveFileList, Decline, ReceiveSelection, SendDelimiter,
         ReceiveLast, Misread, Close, Break, Disconnected, Desert, SendFails, sending, receiving
  <2>2. Kept
    BY <1>1, <1>3, KeptStep
  <2> QED
    BY <1>1, <1>2, <2>1, <2>2 DEF Kept
<1>4. CASE SendSelection
  <2>1. pc["receiver"] = "select" /\ Goto("receiver", "receiving") /\ UNCHANGED <<cur, sent, begun>>
    BY <1>4 DEF SendSelection, sending
  <2>2. pc["sender"] \in {"selection", "over"} /\ pc'["sender"] = pc["sender"]
    BY <1>1, <2>1, Moves DEF OfferTurns
  <2> QED
    BY <2>1, <2>2 DEF SenderFiles
<1>5. CASE (\E f \in Files : Report(f)) \/ SendStatus \/ EndOfFile \/ ReceiveHeader \/ ReceiveChunk
  <2>1. UNCHANGED <<cur, sent, begun, selection>>
    BY <1>5 DEF Report, SendStatus, EndOfFile, ReceiveHeader, ReceiveChunk, sending, receiving
  <2>2. pc'["sender"] = pc["sender"]
    BY <1>1, <1>5, ReceiversFileDone DEF Report, ReceiversFile
  <2> QED
    BY <1>2, <2>1, <2>2
<1>6. CASE EndFile
  <2>1. pc'["sender"] = "sending" /\ UNCHANGED <<sent, begun>>
    BY <1>1, <1>6, Moves DEF EndFile
  <2> QED
    BY <2>1 DEF SenderFiles
<1>7. CASE SendChunk
  <2>1. pc["sender"] = "chunks" /\ sent' = [sent EXCEPT ![cur] = @ + 1] /\ UNCHANGED <<cur, begun, selection>>
    BY <1>7 DEF SendChunk, receiving
  <2>2. cur \in begun
    BY <2>1 DEF SenderFiles
  <2>3. \A f \in Files \ begun : sent'[f] = sent[f]
    BY <1>1, <2>1, <2>2 DEF TypeOK
  <2> QED
    BY <2>1, <2>2, <2>3 DEF SenderFiles
<1>8. CASE \E f \in Files : SendFile(f)
  <2>1. PICK f \in Files : SendFile(f)
    BY <1>8
  <2>2. pc["sender"] = "sending" /\ begun' = begun \cup {f} /\ UNCHANGED <<sent, selection>>
        /\ \/ f \in selection /\ cur' = f
           \/ UNCHANGED pc
    BY <2>1 DEF SendFile, receiving
  <2> QED
    BY <2>2 DEF SenderFiles
<1> QED
  BY <1>3, <1>4, <1>5, <1>6, <1>7, <1>8, TwoKinds DEF OfFiles

\* Every step keeps the files in order, or drops one that is too large.
LEMMA FilesStep ==
  ASSUME AgreementInv, OfferInv, SenderFiles, FilesInv, Next
  PROVE  FilesInv'
<1> SUFFICES ASSUME oversized' = {}
             PROVE  FilesInOrder'
  BY DEF FilesInv
<1>1. oversized = {} \/ oversized' = oversized
  <2>1. ReceiveChunk => oversized \subseteq oversized'
    BY DEF ReceiveChunk
  <2>2. CASE \E p \in Sides : FilesAlone(p)
    BY <2>2 DEF FilesAlone, SendNonce, ReceiveNonce, ReceiveToken, ReceiveTokenReply, SendPin, ReceivePin,
         ReceivePinReply, SendFileList, ReceiveFileList, Decline, ReceiveSelection, SendDelimiter,
         ReceiveLast, Misread, Close, Break, Disconnected, Desert, SendFails, receiving
  <2>3. CASE OfFiles
    BY <2>1, <2>3 DEF OfFiles, SendSelection, SendFile, Report, SendChunk, EndFile, EndOfFile, SendStatus,
                ReceiveHeader, receiving
  <2> QED
    BY <2>2, <2>3, TwoKinds
<1>2. FilesInOrder
  BY <1>1 DEF FilesInv
<1> QED
  BY <1>2, Turns, FilesHandshake, FilesSelection, FilesSender, FilesReceiver, FilesLosses, FilesReport

\* The two sides, what they know of each other and the files between them.
RtcInv == AgreementInv /\ OfferInv /\ InStep /\ SenderFiles /\ FilesInv

\* The invariant holds at the start.
LEMMA RtcInit ==
  ASSUME Init
  PROVE  RtcInv
<1> USE RtcAssumption
<1>1. /\ pc["sender"] = "start" /\ pc["receiver"] = "nonce"
      /\ \A p \in Sides : inbox[p] = <<>> /\ why[p] = "none"
      /\ begun = {} /\ selection = {} /\ file = None /\ held = <<>> /\ results = <<>>
      /\ judged = {} /\ answers = {}
      /\ \A f \in Files : sent[f] = 0 /\ got[f] = <<>> /\ stream[f] = "none"
      /\ "sender" \in Sides /\ "receiver" \in Sides
  BY DEF Init, Sides
<1>2. Coming("sender") = {} /\ Coming("receiver") = {}
  BY <1>1 DEF Coming
<1>3. OfferInv
  BY <1>1, <1>2 DEF OfferInv, OfferLast, OfferTurns, BeforeOffer
<1>4. Agreed
  BY <1>1 DEF Agreed, FindsExpected, SenderTurns, ReceiverTurns, Arrived, Waiting
<1>5. SenderFiles
  BY <1>1 DEF SenderFiles
<1>6. FilesInOrder
  <2>1. \A f \in Files : got[f] = [i \in 1..Len(got[f]) |-> <<f, i>>]
    BY <1>1
  <2>2. Streams /\ Reported
    BY <1>1, <2>1 DEF Streams, Reported
  <2>3. StreamOrder /\ StartOfFiles /\ NoDelimiterError
    BY <1>1 DEF StreamOrder, StartOfFiles, NoDelimiterError
  <2> QED
    BY <2>2, <2>3 DEF FilesInOrder
<1> QED
  BY <1>3, <1>4, <1>5, <1>6, AgreementInit DEF RtcInv, InStep, FilesInv

\* The PINs the sides ask for are those of their configurations, for good.
LEMMA SamePins ==
  ASSUME Next
  PROVE  UNCHANGED pin
<1>1. CASE \E p \in Sides : FilesAlone(p)
  BY <1>1 DEF FilesAlone, SendNonce, ReceiveNonce, ReceiveToken, ReceiveTokenReply, SendPin, ReceivePin,
         ReceivePinReply, SendFileList, ReceiveFileList, Decline, ReceiveSelection, SendDelimiter,
         ReceiveLast, Misread, Close, Break, Disconnected, Desert, SendFails, pins
<1>2. CASE OfFiles
  BY <1>2 DEF OfFiles, SendSelection, SendFile, Report, SendChunk, EndFile, EndOfFile, SendStatus,
              ReceiveHeader, ReceiveChunk, pins
<1> QED
  BY <1>1, <1>2, TwoKinds

\* The invariant is inductive.
LEMMA RtcStep ==
  ASSUME RtcInv, [Next]_vars
  PROVE  RtcInv'
<1>1. AgreementInv /\ OfferInv /\ InStep /\ SenderFiles /\ FilesInv /\ AgreementInv'
  BY AgreementStep DEF RtcInv
<1>2. CASE UNCHANGED vars
  <2>1. UNCHANGED <<open, inbox, pc, ended, why>> /\ UNCHANGED <<pin, expected, tries, shown>>
        /\ UNCHANGED <<cur, sent, begun, selection, file, held, got, stream, oversized>>
        /\ UNCHANGED <<results, judged, deserted, answers>>
    BY <1>2 DEF vars, pins, sending, receiving, app
  <2>2. OfferInv'
    BY <1>1, <2>1 DEF OfferInv, OfferLast, OfferTurns, Coming
  <2>3. InStep'
    BY <1>1, <2>1 DEF InStep, Agreed, FindsExpected, Arrived, Expects, SenderTurns, ReceiverTurns, Waiting
  <2>4. SenderFiles'
    BY <1>1, <2>1 DEF SenderFiles
  <2>5. FilesInv'
    BY <1>1, <2>1 DEF FilesInv, FilesInOrder, Streams, Reported, StreamOrder, StartOfFiles,
                      NoDelimiterError, Before, Coming, LastSent
  <2> QED
    BY <1>1, <2>2, <2>3, <2>4, <2>5 DEF RtcInv
<1>3. CASE Next
  <2>1. InStep'
    BY <1>1, <1>3, AgreedStep, SamePins DEF InStep
  <2> QED
    BY <1>1, <1>3, <2>1, OfferStep, SenderFilesStep, FilesStep DEF RtcInv
<1> QED
  BY <1>2, <1>3

\* The invariant always holds.
LEMMA RtcAlways == Spec => []RtcInv
<1>1. Init => RtcInv
  BY RtcInit
<1>2. RtcInv /\ [Next]_vars => RtcInv'
  BY RtcStep
<1> QED
  BY <1>1, <1>2, PTL DEF Spec

\* Neither peer meets a message it does not expect, at any number of tries and
\* for any PINs, except for an empty PIN of the receiver, a sender that allows no
\* try, and a delimiter while no file is open (the order in which run_sender and
\* run_receiver send and read).
THEOREM SidesInStep == Spec => []PeersInStep
<1>1. RtcInv => PeersInStep
  <2> SUFFICES ASSUME RtcInv
               PROVE  PeersInStep
    OBVIOUS
  <2>1. ASSUME NEW p \in Sides, why[p] = "outOfStep"
        PROVE  pin["receiver"] = EmptyPin \/ MaxTries = 0
    <3>1. ~Agreed
      BY <2>1 DEF Agreed
    <3>2. ~(MaxTries > 0) => MaxTries = 0
      BY RtcAssumption
    <3> QED
      BY <3>1, <3>2 DEF RtcInv, InStep
  <2>2. why["receiver"] = "delimiter" => begun \cap selection = {} \/ oversized # {}
    BY DEF RtcInv, FilesInv, FilesInOrder, NoDelimiterError
  <2> QED
    BY <2>1, <2>2 DEF PeersInStep
<1> QED
  BY <1>1, RtcAlways, PTL

\* As long as no file had too many bytes, a status is about the file it names and
\* success means that this file arrived whole and in order, whatever the network
\* and the applications do (receive_files and send_file_status).
THEOREM StatusTellsOfItsFile == Spec => []StatusOfItsFile
<1>1. RtcInv => StatusOfItsFile
  <2> SUFFICES ASSUME RtcInv, oversized = {}, NEW a \in answers
               PROVE  /\ a.about = a.file
                      /\ a.success => got[a.file] = [i \in 1..Size |-> <<a.file, i>>]
    BY DEF StatusOfItsFile
  <2>1. Streams /\ Reported /\ TypeOK
    BY DEF RtcInv, FilesInv, FilesInOrder, AgreementInv
  <2>2. a.file \in Files
    BY <2>1 DEF TypeOK
  <2>3. a.about = a.file /\ (a.success => Len(got[a.file]) = Size)
    BY <2>1 DEF Reported
  <2>4. got[a.file] = [i \in 1..Len(got[a.file]) |-> <<a.file, i>>]
    BY <2>1, <2>2 DEF Streams
  <2> QED
    BY <2>3, <2>4
<1> QED
  BY <1>1, RtcAlways, PTL


=============================================================================
