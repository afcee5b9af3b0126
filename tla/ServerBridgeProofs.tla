------------------------- MODULE ServerBridgeProofs -------------------------
(***************************************************************************)
(* Proofs about ServerBridge, for any number of sessions and files and any *)
(* capacity of the channel: the responders the bridge keeps are those of   *)
(* the requests that wait.                                                 *)
(***************************************************************************)
EXTENDS ServerBridge, TLAPS

-----------------------------------------------------------------------------
(* The inductive invariant                                                 *)

Elems(q) == {q[i] : i \in DOMAIN q}
Distinct(q) == \A i, j \in DOMAIN q : q[i] = q[j] => i = j

\* Behind e, no prepare-upload request waits in q.
LastPrepared(q, e) ==
  \A i, j \in DOMAIN q : q[i] = e /\ i < j => \A t \in Sessions : q[j] # Prepared(t)

\* An event that was sent and that the application has not taken.
Waiting == unsent \cup Elems(queue)
Placed == Waiting \cup Elems(stream)

\* An event is in one place, and there once.
PlacedOnce ==
  /\ Distinct(queue) /\ Distinct(stream)
  /\ unsent \cap Elems(queue) = {}
  /\ Waiting \cap Elems(stream) = {}
  /\ \A s \in dialogs : Prepared(s) \notin Placed
  /\ \A u \in todo : Uploading(u) \notin Placed

\* An event tells what has happened.
EventsTrue ==
  /\ \A s \in Sessions :
       /\ Prepared(s) \in Placed \/ s \in dialogs => req[s] # "new"
       /\ Prepared(s) \in unsent => req[s] = "asking"
       /\ Aborted(s) \in Placed => req[s] = "over"
       /\ Ended(s) \in Placed => req[s] = "over" /\ ~(slot = s /\ active)
  /\ \A u \in Uploads : Uploading(u) \in Placed \/ u \in todo => up[u] # "new"

\* The slot is of the request that asks, or of an accepted session.
SlotOfOne ==
  /\ \A s \in Sessions : req[s] = "asking" <=> slot = s /\ ~active
  /\ active => slot # None /\ req[slot] = "over"
  /\ \A u \in Uploads : up[u] # "new" => req[u[1]] = "over"

\* The responder of a request is with its event, then with the bridge; while
\* the request asks, no event of another one is behind its own.
ResponderKept ==
  \A s \in Sessions :
    /\ req[s] = "new" \/ Prepared(s) \in Waiting => decision[s] = "open" /\ pendingDecision # s
    /\ req[s] = "asking" /\ Prepared(s) \notin Waiting =>
         /\ \A t \in Sessions : Prepared(t) \notin Elems(queue)
         /\ pendingDecision \in {s, None}
         /\ decision[s] = "open" => pendingDecision = s
    /\ req[s] = "asking" => LastPrepared(queue, Prepared(s))

Live(u) == up[u] = "asking" /\ slot = u[1] /\ active /\ cancels[u[1]] = "no"

\* The responder of a live upload is with the bridge from the moment its event
\* is on the stream.
TargetKept ==
  \A u \in Uploads : (u \in todo \/ Uploading(u) \in Elems(stream)) /\ Live(u)
                       => u \in pendingUploads

BridgeInv == TypeOK /\ PlacedOnce /\ EventsTrue /\ SlotOfOne /\ ResponderKept /\ TargetKept

-----------------------------------------------------------------------------
(* Events and queues                                                       *)

\* Events of different requests or kinds differ.
LEMMA EventsDiffer ==
  /\ \A s, t \in Sessions :
       /\ Prepared(s) # Aborted(t) /\ Prepared(s) # Ended(t) /\ Aborted(s) # Ended(t)
       /\ Prepared(s) = Prepared(t) => s = t
       /\ Aborted(s) = Aborted(t) => s = t
       /\ Ended(s) = Ended(t) => s = t
  /\ \A u, v \in Uploads : Uploading(u) = Uploading(v) => u = v
  /\ \A s \in Sessions, u \in Uploads : Uploading(u) \notin {Prepared(s), Aborted(s), Ended(s)}
<1>1. /\ \A s : Prepared(s).type = "PrepareUpload" /\ Prepared(s).session = s
      /\ \A s : Aborted(s).type = "PrepareUploadAborted" /\ Aborted(s).session = s
      /\ \A s : Ended(s).type = "SessionEnd" /\ Ended(s).session = s
      /\ \A u : /\ Uploading(u).type = "FileUpload"
                /\ Uploading(u).session = u[1] /\ Uploading(u).file = u[2]
  BY DEF Prepared, Aborted, Ended, Uploading
<1>2. \A u, v \in Uploads : u[1] = v[1] /\ u[2] = v[2] => u = v
  BY DEF Uploads
<1> QED
  BY <1>1, <1>2

\* What listen reads of an event.
LEMMA EventFields ==
  ASSUME NEW e \in Events
  PROVE  /\ e.type = "PrepareUpload" => e.session \in Sessions /\ e = Prepared(e.session)
         /\ e.type = "PrepareUploadAborted" => e.session \in Sessions /\ e = Aborted(e.session)
         /\ e.type = "SessionEnd" => e.session \in Sessions /\ e = Ended(e.session)
         /\ e.type = "FileUpload" =>
              <<e.session, e.file>> \in Uploads /\ e = Uploading(<<e.session, e.file>>)
         /\ e.type \in {"PrepareUpload", "PrepareUploadAborted", "SessionEnd", "FileUpload"}
<1>1. CASE \E s \in Sessions : e \in {Prepared(s), Aborted(s), Ended(s)}
  BY <1>1 DEF Prepared, Aborted, Ended
<1>2. CASE \E u \in Uploads : e = Uploading(u)
  BY <1>2 DEF Uploading, Uploads
<1> QED
  BY <1>1, <1>2 DEF Events

LEMMA AppendKeeps ==
  ASSUME NEW q \in Seq(Events), NEW e \in Events
  PROVE  /\ Append(q, e) \in Seq(Events)
         /\ Elems(Append(q, e)) = Elems(q) \cup {e}
         /\ Distinct(q) /\ e \notin Elems(q) => Distinct(Append(q, e))
         /\ \A d \in Events : LastPrepared(q, d) /\ (d \notin Elems(q) \/ \A t \in Sessions : e # Prepared(t))
              => LastPrepared(Append(q, e), d)
<1>1. /\ Append(q, e) \in Seq(Events)
      /\ DOMAIN q = 1..Len(q) /\ Len(q) \in Nat
      /\ DOMAIN Append(q, e) = 1..(Len(q) + 1)
      /\ \A i \in 1..Len(q) : Append(q, e)[i] = q[i]
      /\ Append(q, e)[Len(q) + 1] = e
  OBVIOUS
<1>2. Elems(Append(q, e)) = Elems(q) \cup {e}
  BY <1>1 DEF Elems
<1>3. Distinct(q) /\ e \notin Elems(q) => Distinct(Append(q, e))
  BY <1>1 DEF Elems, Distinct
<1>4. ASSUME NEW d \in Events, LastPrepared(q, d),
             d \notin Elems(q) \/ \A t \in Sessions : e # Prepared(t)
      PROVE  LastPrepared(Append(q, e), d)
  BY <1>1, <1>4 DEF Elems, LastPrepared
<1> QED
  BY <1>1, <1>2, <1>3, <1>4

LEMMA TailKeeps ==
  ASSUME NEW q \in Seq(Events), q # <<>>
  PROVE  /\ Tail(q) \in Seq(Events) /\ Len(Tail(q)) <= Len(q)
         /\ Head(q) \in Events /\ Elems(q) = Elems(Tail(q)) \cup {Head(q)}
         /\ Distinct(q) => Distinct(Tail(q)) /\ Head(q) \notin Elems(Tail(q))
         /\ \A d : LastPrepared(q, d) =>
              /\ LastPrepared(Tail(q), d)
              /\ Head(q) = d => \A t \in Sessions : Prepared(t) \notin Elems(Tail(q))
<1>1. /\ Tail(q) \in Seq(Events) /\ Len(q) \in Nat \ {0} /\ Head(q) = q[1]
      /\ DOMAIN q = 1..Len(q) /\ DOMAIN Tail(q) = 1..(Len(q) - 1) /\ Len(Tail(q)) = Len(q) - 1
      /\ \A i \in 1..(Len(q) - 1) : Tail(q)[i] = q[i + 1]
      /\ \A i \in 1..Len(q) : q[i] \in Events
  OBVIOUS
<1>2. Elems(q) = Elems(Tail(q)) \cup {Head(q)}
  <2>1. \A i \in 1..Len(q) : i = 1 \/ (i - 1 \in 1..(Len(q) - 1) /\ Tail(q)[i - 1] = q[i])
    BY <1>1
  <2>2. \A i \in 1..Len(q) : q[i] \in Elems(Tail(q)) \cup {Head(q)}
    BY <1>1, <2>1 DEF Elems
  <2>3. \A i \in 1..(Len(q) - 1) : i + 1 \in 1..Len(q) /\ Tail(q)[i] = q[i + 1]
    BY <1>1
  <2>4. 1 \in DOMAIN q /\ Head(q) \in Elems(q)
    BY <1>1 DEF Elems
  <2>5. Elems(q) \subseteq Elems(Tail(q)) \cup {Head(q)}
    BY <1>1, <2>2 DEF Elems
  <2>6. Elems(Tail(q)) \subseteq Elems(q)
    BY <1>1, <2>3 DEF Elems
  <2> QED
    BY <2>4, <2>5, <2>6
<1>3. Distinct(q) => Distinct(Tail(q)) /\ Head(q) \notin Elems(Tail(q))
  BY <1>1 DEF Elems, Distinct
<1>4. ASSUME NEW d, LastPrepared(q, d)
      PROVE  /\ LastPrepared(Tail(q), d)
             /\ Head(q) = d => \A t \in Sessions : Prepared(t) \notin Elems(Tail(q))
  BY <1>1, <1>4 DEF Elems, LastPrepared
<1> QED
  BY <1>1, <1>2, <1>3, <1>4

LEMMA BridgeInit == Init => BridgeInv
<1> SUFFICES ASSUME Init PROVE BridgeInv
  OBVIOUS
<1>1. Elems(<<>>) = {} /\ Distinct(<<>>) /\ \A e : LastPrepared(<<>>, e)
  BY DEF Elems, Distinct, LastPrepared
<1>2. TypeOK
  <2>1. <<>> \in Seq(Events) /\ Len(<<>>) <= Capacity
    BY BridgeAssumption
  <2> QED
    BY <2>1 DEF Init, TypeOK
<1> QED
  BY <1>1, <1>2, BridgeAssumption
     DEF Init, BridgeInv, PlacedOnce, EventsTrue, SlotOfOne, ResponderKept, TargetKept, Live,
         Placed, Waiting

-----------------------------------------------------------------------------
(* Requests of the server                                                  *)

LEMMA PrepareStep ==
  ASSUME BridgeInv, NEW s \in Sessions, Prepare(s)
  PROVE  BridgeInv'
<1> USE EventsDiffer, BridgeAssumption
<1> USE DEF BridgeInv, Prepare, answers, kept, app, Waiting, Placed
<1>1. Prepared(s) \in Events /\ Prepared(s) \notin Placed /\ s \notin dialogs
  BY DEF Events, EventsTrue
<1>2. TypeOK'
  BY <1>1 DEF TypeOK
<1>3. PlacedOnce'
  BY <1>1 DEF PlacedOnce, TypeOK
<1>4. EventsTrue'
  BY DEF TypeOK, EventsTrue
<1>5. SlotOfOne'
  BY DEF TypeOK, SlotOfOne, Uploads
<1>6. ResponderKept'
  BY <1>1 DEF TypeOK, ResponderKept, SlotOfOne, LastPrepared, Elems
<1>7. TargetKept'
  BY DEF TargetKept, Live
<1> QED
  BY <1>2, <1>3, <1>4, <1>5, <1>6, <1>7

LEMMA DecidedStep ==
  ASSUME BridgeInv, NEW s \in Sessions, Decided(s)
  PROVE  BridgeInv'
<1> USE EventsDiffer, BridgeAssumption
<1> USE DEF BridgeInv, Decided, answers, channel, kept, app, Waiting, Placed
<1>1. slot = s /\ ~active /\ Prepared(s) \notin Waiting
  BY DEF SlotOfOne, ResponderKept
<1>2. TypeOK'
  BY DEF TypeOK
<1>3. PlacedOnce'
  BY DEF PlacedOnce
<1>4. EventsTrue'
  BY <1>1 DEF TypeOK, EventsTrue
<1>5. SlotOfOne'
  BY <1>1 DEF TypeOK, SlotOfOne, Uploads
<1>6. ResponderKept'
  BY <1>1 DEF TypeOK, ResponderKept
<1>7. TargetKept'
  \* No upload of s is under way yet.
  BY <1>1 DEF TargetKept, Live, SlotOfOne, TypeOK
<1> QED
  BY <1>2, <1>3, <1>4, <1>5, <1>6, <1>7

LEMMA AbortStep ==
  ASSUME BridgeInv, NEW s \in Sessions, AbortPrepare(s)
  PROVE  BridgeInv'
<1> USE EventsDiffer, BridgeAssumption
<1> USE DEF BridgeInv, AbortPrepare, answers, kept, app, Waiting, Placed
<1>1. slot = s /\ ~active /\ slot' = None
  BY DEF SlotOfOne
<1>2. Aborted(s) \in Events /\ Aborted(s) \notin Placed
  BY DEF Events, EventsTrue
<1>3. TypeOK'
  BY <1>1, <1>2 DEF TypeOK
<1>4. PlacedOnce'
  BY <1>2 DEF PlacedOnce, TypeOK
<1>5. EventsTrue'
  BY <1>1 DEF TypeOK, EventsTrue
<1>6. SlotOfOne'
  BY <1>1 DEF TypeOK, SlotOfOne, Uploads
<1>7. ResponderKept'
  BY <1>1 DEF TypeOK, ResponderKept, SlotOfOne
<1>8. TargetKept'
  BY <1>1 DEF TargetKept, Live
<1> QED
  BY <1>3, <1>4, <1>5, <1>6, <1>7, <1>8

LEMMA UploadStep ==
  ASSUME BridgeInv, NEW u \in Uploads, Upload(u)
  PROVE  BridgeInv'
<1> USE EventsDiffer, BridgeAssumption
<1> USE DEF BridgeInv, Upload, answers, kept, app, Waiting, Placed
<1>1. Uploading(u) \in Events /\ Uploading(u) \notin Placed /\ u \notin todo
  BY DEF Events, EventsTrue
<1>2. u[1] \in Sessions
  BY DEF Uploads
<1>3. TypeOK'
  BY <1>1 DEF TypeOK
<1>4. PlacedOnce'
  BY <1>1 DEF PlacedOnce, TypeOK
<1>5. EventsTrue'
  BY <1>1 DEF TypeOK, EventsTrue
<1>6. SlotOfOne'
  BY <1>2 DEF TypeOK, SlotOfOne
<1>7. ResponderKept'
  BY DEF TypeOK, ResponderKept
<1>8. TargetKept'
  BY <1>1 DEF TargetKept, Live, TypeOK
<1> QED
  BY <1>3, <1>4, <1>5, <1>6, <1>7, <1>8

LEMMA GetTargetStep ==
  ASSUME BridgeInv, NEW u \in Uploads, GetTarget(u)
  PROVE  BridgeInv'
<1> USE DEF BridgeInv, GetTarget, answers, channel, kept, app, Waiting, Placed
<1>1. TypeOK' /\ PlacedOnce' /\ ResponderKept'
  BY DEF TypeOK, PlacedOnce, ResponderKept
<1>2. EventsTrue' /\ SlotOfOne'
  BY DEF TypeOK, EventsTrue, SlotOfOne
<1>3. TargetKept'
  BY DEF TargetKept, Live, TypeOK
<1> QED
  BY <1>1, <1>2, <1>3

LEMMA EndUploadStep ==
  ASSUME BridgeInv, NEW u \in Uploads, EndUpload(u)
  PROVE  BridgeInv'
<1> USE EventsDiffer, BridgeAssumption
<1> USE DEF BridgeInv, answers, kept, app, Waiting, Placed
<1>1. /\ up' = [up EXCEPT ![u] = "over"] /\ up[u] \in {"asking", "saving"}
      /\ UNCHANGED <<req, answers, queue, kept, app, server>>
  BY DEF EndUpload
<1>2. \/ /\ slot = u[1] /\ active /\ slot' = None /\ active' = FALSE
         /\ unsent' = (unsent \ {Uploading(u)}) \cup {Ended(u[1])}
      \/ /\ slot' = slot /\ active' = active
         /\ unsent' = unsent \ {Uploading(u)}
  BY DEF EndUpload, TypeOK
<1>3. u[1] \in Sessions
  BY DEF Uploads
<1>4. /\ Ended(u[1]) \in Events
      /\ slot = u[1] /\ active => Ended(u[1]) \notin Placed /\ req[u[1]] = "over"
  BY <1>3 DEF Events, EventsTrue, SlotOfOne
<1>5. TypeOK'
  BY <1>1, <1>2, <1>4 DEF TypeOK
<1>6. PlacedOnce'
  BY <1>1, <1>2, <1>3, <1>4 DEF PlacedOnce, TypeOK
<1>7. EventsTrue'
  BY <1>1, <1>2, <1>3, <1>4 DEF TypeOK, EventsTrue
<1>8. SlotOfOne'
  BY <1>1, <1>2, <1>3 DEF TypeOK, SlotOfOne
<1>9. ResponderKept'
  BY <1>1, <1>2, <1>3 DEF TypeOK, ResponderKept
<1>10. TargetKept'
  BY <1>1, <1>2 DEF TargetKept, Live, TypeOK
<1> QED
  BY <1>5, <1>6, <1>7, <1>8, <1>9, <1>10

LEMMA SenderCancelsStep ==
  ASSUME BridgeInv, NEW s \in Sessions, SenderCancels(s)
  PROVE  BridgeInv'
<1> USE EventsDiffer, BridgeAssumption
<1> USE DEF BridgeInv, SenderCancels, answers, kept, app, Waiting, Placed
<1>1. Ended(s) \in Events /\ Ended(s) \notin Placed /\ req[s] = "over"
  BY DEF Events, EventsTrue, SlotOfOne
<1>2. TypeOK'
  BY <1>1 DEF TypeOK
<1>3. PlacedOnce'
  BY <1>1 DEF TypeOK, PlacedOnce
<1>4. EventsTrue'
  BY <1>1 DEF TypeOK, EventsTrue
<1>5. SlotOfOne' /\ ResponderKept'
  BY <1>1 DEF TypeOK, SlotOfOne, ResponderKept
<1>6. TargetKept'
  BY DEF TargetKept, Live
<1> QED
  BY <1>2, <1>3, <1>4, <1>5, <1>6

-----------------------------------------------------------------------------
(* Events on their way                                                     *)

LEMMA EnqueueStep ==
  ASSUME BridgeInv, NEW e \in unsent, Enqueue(e)
  PROVE  BridgeInv'
<1> USE EventsDiffer
<1> USE DEF BridgeInv, Enqueue, requests, answers, kept, app
<1>1. e \in Events /\ queue \in Seq(Events) /\ Len(queue') <= Capacity
  BY BridgeAssumption DEF TypeOK
<1>2. /\ queue' \in Seq(Events) /\ Elems(queue') = Elems(queue) \cup {e}
      /\ Distinct(queue) => Distinct(queue')
      /\ \A d \in Events : /\ LastPrepared(queue, d)
                           /\ d \notin Elems(queue) \/ \A t \in Sessions : e # Prepared(t)
                           => LastPrepared(queue', d)
  BY <1>1, AppendKeeps DEF PlacedOnce
<1>3. Waiting' = Waiting /\ Placed' = Placed
  BY <1>2 DEF Waiting, Placed
<1>4. TypeOK'
  BY <1>1, <1>2 DEF TypeOK
<1>5. PlacedOnce'
  BY <1>2, <1>3 DEF PlacedOnce
<1>6. EventsTrue' /\ SlotOfOne' /\ TargetKept'
  BY <1>3 DEF EventsTrue, SlotOfOne, TargetKept, Live
<1>7. ASSUME NEW s \in Sessions, req[s] = "asking"
      PROVE  /\ \A t \in Sessions : e = Prepared(t) => t = s
             /\ Prepared(s) \in unsent => Prepared(s) \notin Elems(queue)
  BY <1>7, BridgeAssumption DEF EventsTrue, SlotOfOne, PlacedOnce
<1>8. ResponderKept'
  BY <1>2, <1>3, <1>7 DEF ResponderKept, Waiting, Events
<1> QED
  BY <1>4, <1>5, <1>6, <1>8

LEMMA ListenStep ==
  ASSUME BridgeInv, Listen
  PROVE  /\ BridgeInv'
         /\ \A s \in Sessions : decision[s] = "open" /\ decision'[s] # "open"
              => decision'[s] = "dropped" /\ req[s] # "asking"
<1> DEFINE e == Head(queue)
<1> USE EventsDiffer
<1> USE DEF BridgeInv
<1>1. /\ HandlePrepare(e) \/ HandleAborted(e) \/ HandleUpload(e) \/ HandleEnd(e)
      /\ stream' = Append(stream, e) /\ queue' = Tail(queue) /\ queue # <<>>
      /\ queue \in Seq(Events) /\ stream \in Seq(Events) /\ Len(queue) <= Capacity
      /\ UNCHANGED <<slot, active, req, up, unsent, dialogs, todo, cancels, server>>
  BY DEF Listen, TypeOK, requests
<1>2. /\ queue' \in Seq(Events) /\ Len(queue') <= Len(queue)
      /\ e \in Events /\ Elems(queue) = Elems(queue') \cup {e}
      /\ Distinct(queue') /\ e \notin Elems(queue')
      /\ \A d : LastPrepared(queue, d) =>
           /\ LastPrepared(queue', d)
           /\ e = d => \A t \in Sessions : Prepared(t) \notin Elems(queue')
  BY <1>1, TailKeeps DEF PlacedOnce
<1>3. e \notin unsent /\ e \notin Elems(stream) /\ e \in Waiting /\ e \in Placed
  BY <1>2 DEF PlacedOnce, Waiting, Placed
<1>4. stream' \in Seq(Events) /\ Elems(stream') = Elems(stream) \cup {e} /\ Distinct(stream')
  BY <1>1, <1>2, <1>3, AppendKeeps DEF PlacedOnce
<1>5. Waiting' = Waiting \ {e} /\ Placed' = Placed
  BY <1>1, <1>2, <1>3, <1>4 DEF Waiting, Placed
<1>6. Len(queue') <= Capacity
  BY <1>1, <1>2, BridgeAssumption
<1>7. PlacedOnce'
  BY <1>1, <1>2, <1>3, <1>4, <1>5 DEF PlacedOnce
<1>8. EventsTrue' /\ SlotOfOne'
  BY <1>1, <1>5 DEF EventsTrue, SlotOfOne
<1>9. \A s \in Sessions : /\ req'[s] = "asking" => LastPrepared(queue', Prepared(s))
                          /\ e # Prepared(s) => (Prepared(s) \in Waiting' <=> Prepared(s) \in Waiting)
  BY <1>1, <1>2, <1>5 DEF ResponderKept
<1> HIDE DEF e
<1>10. CASE HandlePrepare(e)
  <2> DEFINE t == e.session
  <2>1. t \in Sessions /\ e = Prepared(t) /\ pendingDecision' = t
        /\ UNCHANGED <<pendingUploads, target>>
    BY <1>2, <1>10, EventFields DEF HandlePrepare
  <2>2. /\ pendingDecision \in Sessions \cup {None}
        /\ decision' = IF pendingDecision \in Sessions /\ decision[pendingDecision] = "open"
                         THEN [decision EXCEPT ![pendingDecision] = "dropped"] ELSE decision
    BY <1>10, BridgeAssumption DEF HandlePrepare, DropDecision, TypeOK
  <2> HIDE DEF t
  <2>3. Prepared(t) \in Waiting /\ decision[t] = "open" /\ pendingDecision # t
        /\ req[t] # "new"
    BY <1>3, <2>1 DEF ResponderKept, EventsTrue
  <2>4. \A s \in Sessions : req[s] = "asking" => pendingDecision # s
    \* Were s the kept request, no event such as e would be left.
    BY <1>2, <2>1 DEF ResponderKept, Waiting
  <2>5. TypeOK'
    BY <1>1, <1>2, <1>4, <1>6, <2>1, <2>2 DEF TypeOK
  <2>6. ASSUME NEW s \in Sessions
        PROVE  /\ req'[s] = "new" \/ Prepared(s) \in Waiting' =>
                    decision'[s] = "open" /\ pendingDecision' # s
               /\ req'[s] = "asking" /\ Prepared(s) \notin Waiting' =>
                    /\ \A r \in Sessions : Prepared(r) \notin Elems(queue')
                    /\ pendingDecision' \in {s, None}
                    /\ decision'[s] = "open" => pendingDecision' = s
    <3>1. CASE s = t
      BY <1>1, <1>2, <1>5, <2>1, <2>2, <2>3, <3>1 DEF ResponderKept, TypeOK
    <3>2. CASE s # t
      <4>1. Prepared(s) \in Waiting' <=> Prepared(s) \in Waiting
        BY <1>9, <2>1, <3>2
      <4>2. req[s] = "asking" => Prepared(s) \in Waiting
        BY <1>2, <2>1 DEF ResponderKept
      <4> QED
        BY <1>1, <2>1, <2>2, <3>2, <4>1, <4>2 DEF ResponderKept, TypeOK
    <3> QED
      BY <3>1, <3>2
  <2>7. ResponderKept'
    BY <1>9, <2>6 DEF ResponderKept
  <2>8. TargetKept'
    BY <1>1, <1>4, <2>1 DEF TargetKept, Live
  <2>9. \A s \in Sessions : decision[s] = "open" /\ decision'[s] # "open"
          => decision'[s] = "dropped" /\ req[s] # "asking"
    BY <2>2, <2>4 DEF TypeOK
  <2> QED
    BY <1>7, <1>8, <2>5, <2>7, <2>8, <2>9
<1>11. CASE HandleAborted(e)
  <2> DEFINE t == e.session
  <2>1. t \in Sessions /\ e = Aborted(t) /\ UNCHANGED <<pendingUploads, target>>
    BY <1>2, <1>11, EventFields DEF HandleAborted
  <2>2. \/ /\ pendingDecision = t /\ pendingDecision' = None
           /\ decision' \in {decision, [decision EXCEPT ![t] = "dropped"]}
        \/ UNCHANGED <<pendingDecision, decision>>
    BY <1>11 DEF HandleAborted, DropDecision
  <2> HIDE DEF t
  <2>3. req[t] = "over"
    BY <1>3, <2>1 DEF EventsTrue
  <2>4. TypeOK'
    BY <1>1, <1>2, <1>4, <1>6, <2>1, <2>2 DEF TypeOK
  <2>5. \A s \in Sessions : Prepared(s) \in Waiting' <=> Prepared(s) \in Waiting
    BY <1>9, <2>1
  <2>6. ResponderKept'
    BY <1>1, <1>2, <1>9, <2>1, <2>2, <2>3, <2>5, BridgeAssumption DEF ResponderKept, TypeOK
  <2>7. TargetKept'
    BY <1>1, <1>4, <2>1 DEF TargetKept, Live
  <2>8. \A s \in Sessions : decision[s] = "open" /\ decision'[s] # "open"
          => decision'[s] = "dropped" /\ req[s] # "asking"
    BY <2>2, <2>3 DEF TypeOK
  <2> QED
    BY <1>7, <1>8, <2>4, <2>6, <2>7, <2>8
<1>12. CASE HandleUpload(e)
  <2> DEFINE u == <<e.session, e.file>>
  <2>1. /\ u \in Uploads /\ e = Uploading(u)
        /\ pendingUploads' = pendingUploads \cup {u}
        /\ UNCHANGED <<pendingDecision, decision, target>>
    BY <1>2, <1>12, EventFields DEF HandleUpload
  <2> HIDE DEF u
  <2>2. TypeOK'
    BY <1>1, <1>2, <1>4, <1>6, <2>1 DEF TypeOK
  <2>3. ResponderKept'
    BY <1>1, <1>2, <1>9, <2>1 DEF ResponderKept
  <2>4. TargetKept'
    BY <1>1, <1>4, <2>1 DEF TargetKept, Live
  <2> QED
    BY <1>7, <1>8, <2>1, <2>2, <2>3, <2>4
<1>13. CASE HandleEnd(e)
  <2> DEFINE t == e.session
  <2>1. /\ t \in Sessions /\ e = Ended(t)
        /\ pendingUploads' = pendingUploads \ OfSession(t)
        /\ UNCHANGED <<pendingDecision, decision>>
        /\ target' \in [Uploads -> {"open", "sent", "dropped"}]
    BY <1>2, <1>13, EventFields DEF HandleEnd, DropTargets, TypeOK
  <2> HIDE DEF t
  <2>2. ~(slot = t /\ active)
    BY <1>3, <2>1 DEF EventsTrue
  <2>3. TypeOK'
    BY <1>1, <1>2, <1>4, <1>6, <2>1 DEF TypeOK
  <2>4. ResponderKept'
    BY <1>1, <1>2, <1>9, <2>1 DEF ResponderKept
  <2>5. TargetKept'
    BY <1>1, <1>4, <2>1, <2>2 DEF TargetKept, Live, OfSession
  <2> QED
    BY <1>7, <1>8, <2>1, <2>3, <2>4, <2>5
<1> QED
  BY <1>1, <1>10, <1>11, <1>12, <1>13

-----------------------------------------------------------------------------
(* The application                                                         *)

LEMMA TakeEventStep ==
  ASSUME BridgeInv, TakeEvent
  PROVE  BridgeInv'
<1> DEFINE e == Head(stream)
<1> USE EventsDiffer
<1> USE DEF BridgeInv
<1>1. /\ stream # <<>> /\ stream \in Seq(Events) /\ stream' = Tail(stream)
      /\ UNCHANGED <<requests, answers, channel, kept, cancels, server>>
  BY DEF TakeEvent, TypeOK
<1>2. /\ stream' \in Seq(Events)
      /\ e \in Events /\ Elems(stream) = Elems(stream') \cup {e}
      /\ Distinct(stream') /\ e \notin Elems(stream')
  BY <1>1, TailKeeps DEF PlacedOnce
<1>3. /\ \/ /\ e.session \in Sessions /\ e = Prepared(e.session)
            /\ dialogs' = dialogs \cup {e.session} /\ todo' = todo
         \/ /\ e.session \in Sessions /\ e = Aborted(e.session)
            /\ dialogs' = dialogs \ {e.session} /\ todo' = todo
         \/ /\ <<e.session, e.file>> \in Uploads /\ e = Uploading(<<e.session, e.file>>)
            /\ dialogs' = dialogs /\ todo' = todo \cup {<<e.session, e.file>>}
         \/ /\ e.session \in Sessions /\ e = Ended(e.session)
            /\ dialogs' = dialogs /\ todo' = todo \ OfSession(e.session)
  BY <1>2, EventFields DEF TakeEvent
<1>4. /\ \A s \in dialogs' : s \in dialogs \/ e = Prepared(s)
      /\ \A u \in todo' : u \in todo \/ e = Uploading(u)
      /\ dialogs' \in SUBSET Sessions /\ todo' \in SUBSET Uploads
  BY <1>3 DEF TypeOK
<1> HIDE DEF e
<1>5. e \notin Waiting /\ Waiting' = Waiting /\ Placed' = Placed \ {e} /\ e \in Placed
  BY <1>1, <1>2 DEF PlacedOnce, Waiting, Placed, channel
<1>6. TypeOK'
  BY <1>1, <1>2, <1>4 DEF TypeOK, requests, answers, channel, kept
<1>7. PlacedOnce'
  BY <1>1, <1>2, <1>4, <1>5 DEF PlacedOnce, channel
<1>8. EventsTrue'
  BY <1>1, <1>4, <1>5 DEF EventsTrue, requests, channel
<1>9. SlotOfOne' /\ ResponderKept'
  BY <1>1, <1>5 DEF SlotOfOne, ResponderKept, requests, answers, channel, kept
<1>10. TargetKept'
  BY <1>1, <1>2, <1>4 DEF TargetKept, Live, requests, kept
<1> QED
  BY <1>6, <1>7, <1>8, <1>9, <1>10

LEMMA RespondPrepareStep ==
  ASSUME BridgeInv, NEW s \in Sessions, RespondPrepare(s)
  PROVE  /\ BridgeInv'
         /\ \A t \in Sessions : decision[t] = "open" /\ decision'[t] # "open"
              => decision'[t] # "dropped" /\ (s = t \/ req[s] # "asking")
<1> USE EventsDiffer, BridgeAssumption
<1> USE DEF BridgeInv, requests, channel
<1>1. /\ s \in dialogs /\ dialogs' = dialogs \ {s}
      /\ UNCHANGED <<requests, target, channel, pendingUploads, stream, todo, cancels, server>>
  BY DEF RespondPrepare
<1>2. \/ UNCHANGED <<pendingDecision, decision>>
      \/ /\ pendingDecision \in Sessions /\ pendingDecision' = None
         /\ \E d \in {"accept", "decline"} : decision' = [decision EXCEPT ![pendingDecision] = d]
  BY DEF RespondPrepare, TypeOK
<1>3. Waiting' = Waiting /\ Placed' = Placed
  BY <1>1 DEF Waiting, Placed
<1>4. TypeOK'
  BY <1>1, <1>2 DEF TypeOK
<1>5. PlacedOnce' /\ EventsTrue'
  BY <1>1, <1>3 DEF PlacedOnce, EventsTrue
<1>6. SlotOfOne' /\ TargetKept'
  BY <1>1 DEF SlotOfOne, TargetKept, Live
<1>7. ResponderKept'
  BY <1>1, <1>2, <1>3 DEF ResponderKept, TypeOK
<1>8. Prepared(s) \notin Waiting
  BY <1>1 DEF PlacedOnce, Placed
<1>9. req[s] = "asking" => pendingDecision \in {s, None}
  BY <1>8 DEF ResponderKept
<1>10. \A t \in Sessions : decision[t] = "open" /\ decision'[t] # "open"
          => decision'[t] # "dropped" /\ (s = t \/ req[s] # "asking")
  BY <1>2, <1>9 DEF TypeOK
<1> QED
  BY <1>4, <1>5, <1>6, <1>7, <1>10

LEMMA RespondUploadStep ==
  ASSUME BridgeInv, NEW u \in Uploads, RespondUpload(u)
  PROVE  BridgeInv'
<1> USE DEF BridgeInv, requests, channel, Waiting, Placed
<1>1. /\ u \in todo /\ todo' = todo \ {u} /\ pendingUploads' = pendingUploads \ {u}
      /\ target' \in [Uploads -> {"open", "sent", "dropped"}]
      /\ UNCHANGED <<requests, decision, channel, pendingDecision, stream, dialogs, cancels, server>>
  BY DEF RespondUpload, Resolved, TypeOK
<1>2. TypeOK'
  BY <1>1 DEF TypeOK
<1>3. PlacedOnce' /\ EventsTrue' /\ SlotOfOne' /\ ResponderKept'
  BY <1>1 DEF PlacedOnce, EventsTrue, SlotOfOne, ResponderKept
<1>4. TargetKept'
  BY <1>1 DEF TargetKept, Live, PlacedOnce
<1> QED
  BY <1>2, <1>3, <1>4

LEMMA CancelStep ==
  ASSUME BridgeInv, NEW s \in Sessions, CancelSession(s) \/ CancelDropsResponders(s)
  PROVE  BridgeInv'
<1> USE BridgeAssumption
<1> USE DEF BridgeInv, requests, channel, answers, kept, Waiting, Placed
<1>1. CASE CancelSession(s)
  <2>1. /\ \/ active /\ slot' = None /\ active' = FALSE
           \/ UNCHANGED <<slot, active>>
        /\ cancels' = [cancels EXCEPT ![s] = "cleared"]
        /\ UNCHANGED <<req, up, answers, channel, kept, stream, dialogs, todo, server>>
    BY <1>1 DEF CancelSession
  <2>2. TypeOK'
    BY <2>1 DEF TypeOK
  <2>3. PlacedOnce' /\ EventsTrue' /\ ResponderKept'
    BY <2>1 DEF PlacedOnce, EventsTrue, ResponderKept
  <2>4. SlotOfOne'
    BY <2>1 DEF SlotOfOne
  <2>5. TargetKept'
    BY <2>1 DEF TargetKept, Live, TypeOK, Uploads
  <2> QED
    BY <2>2, <2>3, <2>4, <2>5
<1>2. CASE CancelDropsResponders(s)
  <2>1. /\ cancels[s] = "cleared" /\ cancels' = [cancels EXCEPT ![s] = "done"]
        /\ todo' = todo \ OfSession(s) /\ pendingUploads' = pendingUploads \ OfSession(s)
        /\ target' \in [Uploads -> {"open", "sent", "dropped"}]
        /\ UNCHANGED <<requests, decision, channel, pendingDecision, stream, dialogs, server>>
    BY <1>2 DEF CancelDropsResponders, DropTargets, TypeOK
  <2>2. TypeOK'
    BY <2>1 DEF TypeOK
  <2>3. PlacedOnce' /\ EventsTrue' /\ SlotOfOne' /\ ResponderKept'
    BY <2>1 DEF PlacedOnce, EventsTrue, SlotOfOne, ResponderKept
  <2>4. TargetKept'
    BY <2>1 DEF TargetKept, Live, TypeOK, Uploads, OfSession
  <2> QED
    BY <2>2, <2>3, <2>4
<1> QED
  BY <1>1, <1>2

LEMMA StopStep ==
  ASSUME BridgeInv, Stop \/ ServerStops \/ UNCHANGED vars
  PROVE  BridgeInv'
<1> USE DEF BridgeInv, requests, answers, channel, kept, app, Waiting, Placed
<1>1. /\ UNCHANGED <<requests, answers, channel, kept, app>>
      /\ server' \in {"running", "stopping", "stopped"}
  BY DEF Stop, ServerStops, vars, TypeOK
<1>2. TypeOK' /\ TargetKept'
  BY <1>1 DEF TypeOK, TargetKept, Live
<1>3. PlacedOnce' /\ EventsTrue' /\ SlotOfOne' /\ ResponderKept'
  BY <1>1 DEF PlacedOnce, EventsTrue, SlotOfOne, ResponderKept
<1> QED
  BY <1>2, <1>3

-----------------------------------------------------------------------------
(* The theorems                                                            *)

\* Only listen and respond_prepare_upload answer a request.
LEMMA BridgeStep ==
  ASSUME BridgeInv, [Next]_vars
  PROVE  /\ BridgeInv'
         /\ \/ UNCHANGED decision
            \/ Listen
            \/ \E s \in Sessions : RespondPrepare(s)
<1>1. CASE \E s \in Sessions : Prepare(s) \/ Decided(s) \/ AbortPrepare(s) \/ SenderCancels(s)
  BY <1>1, PrepareStep, DecidedStep, AbortStep, SenderCancelsStep
     DEF Prepare, Decided, AbortPrepare, SenderCancels, answers
<1>2. CASE \E u \in Uploads : Upload(u) \/ GetTarget(u) \/ EndUpload(u) \/ RespondUpload(u)
  BY <1>2, UploadStep, GetTargetStep, EndUploadStep, RespondUploadStep
     DEF Upload, GetTarget, EndUpload, RespondUpload, answers
<1>3. CASE \/ \E e \in unsent : Enqueue(e)
           \/ \E s \in Sessions : CancelSession(s) \/ CancelDropsResponders(s)
  BY <1>3, EnqueueStep, CancelStep DEF Enqueue, CancelSession, CancelDropsResponders, answers
<1>4. CASE TakeEvent \/ Stop \/ ServerStops \/ UNCHANGED vars
  BY <1>4, TakeEventStep, StopStep DEF TakeEvent, Stop, ServerStops, vars, answers
<1>5. CASE Listen \/ \E s \in Sessions : RespondPrepare(s)
  BY <1>5, ListenStep, RespondPrepareStep
<1> QED
  BY <1>1, <1>2, <1>3, <1>4, <1>5 DEF Next, Server, Call

LEMMA BridgeAlways == Spec => []BridgeInv
  BY BridgeInit, BridgeStep, PTL DEF Spec

\* Every variable of the bridge has its type.
THEOREM BridgeTypeCorrect == Spec => []TypeOK
<1>1. BridgeInv => TypeOK
  BY DEF BridgeInv
<1> QED
  BY <1>1, BridgeAlways, PTL

\* When the application is asked about an upload that can still be answered,
\* its responder is kept (handle_server_event, cancel_session).
THEOREM AskedCanBeAnswered == Spec => []AskedUploadsCanBeAnswered
<1>1. BridgeInv => AskedUploadsCanBeAnswered
  BY DEF BridgeInv, TargetKept, Live, TypeOK, AskedUploadsCanBeAnswered
<1> QED
  BY <1>1, BridgeAlways, PTL

\* listen takes the responder only of requests that are over
\* (handle_server_event).
THEOREM OnlyDeadLoseResponder == Spec => OnlyDeadRequestsLoseTheirResponder
<1>1. BridgeInv /\ [Next]_vars =>
        [\A s \in Sessions :
           decision[s] = "open" /\ decision'[s] = "dropped" => req[s] # "asking"]_vars
  BY BridgeStep, ListenStep, RespondPrepareStep
<1> QED
  BY <1>1, BridgeAlways, PTL DEF Spec, OnlyDeadRequestsLoseTheirResponder

\* The answer of a dialog goes to another request only when its own is over
\* (respond_prepare_upload).
THEOREM AnswersStrayFromDead == Spec => AnswersStrayOnlyFromDeadRequests
<1>1. ASSUME BridgeInv, [Next]_vars,
             NEW s \in Sessions, NEW t \in Sessions, s \in dialogs \ dialogs',
             decision[t] = "open", decision'[t] \in {"accept", "decline"}
      PROVE  s = t \/ req[s] # "asking"
  <2>1. PICK r \in Sessions : RespondPrepare(r)
    BY <1>1, BridgeStep, ListenStep
  <2>2. r = s
    BY <1>1, <2>1 DEF RespondPrepare
  <2> QED
    BY <1>1, <2>1, <2>2, RespondPrepareStep
<1>2. BridgeInv /\ [Next]_vars =>
        [\A s, t \in Sessions :
           /\ s \in dialogs \ dialogs'
           /\ decision[t] = "open" /\ decision'[t] \in {"accept", "decline"}
           => s = t \/ req[s] # "asking"]_vars
  BY <1>1
<1> QED
  BY <1>2, BridgeAlways, PTL DEF Spec, AnswersStrayOnlyFromDeadRequests
=============================================================================
