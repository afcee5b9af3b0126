--------------------------- MODULE IsolateProofs ---------------------------
(***************************************************************************)
(* Proofs about the tasks of the isolates.                                 *)
(*                                                                         *)
(* FileUpload, for every number of files, every size, chunk and capacity:  *)
(* what a sender that is told of success knows, what the receiving         *)
(* application knows, and which files may end as cancelled.                *)
(*                                                                         *)
(* ServerLifecycle, for any number of starts, stops, connections and       *)
(* ports: no server runs that nobody can stop, and a stop that returns has *)
(* released what it stopped.                                               *)
(***************************************************************************)
EXTENDS FileUpload, ServerLifecycle, TLAPS

-----------------------------------------------------------------------------
(* The inductive invariant                                                 *)

\* The chunks are the bytes from + 1 to to of the file, in order: chunk i ends
\* at byte pos[i].
InOrder(chunks, from, to) ==
  \E pos \in [0..Len(chunks) -> Sizes] :
    /\ pos[0] = from /\ pos[Len(chunks)] = to
    /\ \A i \in 1..Len(chunks) : chunks[i] = Bytes(pos[i - 1] + 1, pos[i]) /\ pos[i - 1] <= pos[i]

\* The disk holds a prefix of the file.  As long as the writer goes on, the
\* bytes behind it are in the buffer, the ones behind those on the wire, and
\* as long as the request goes on the rest of what was read is in the channel.
StreamInv ==
  /\ disk = Bytes(1, Len(disk)) /\ Len(disk) \in Sizes
  /\ ~WriterGone =>
       \E b, w \in Sizes : /\ InOrder(buffer, Len(disk), b)
                           /\ InOrder(wire, b, w)
                           /\ client = "sending" => InOrder(channel, w, read)

\* Where the source is: bytes in memory have no reader.
SourceInv ==
  /\ dart \in {"adding", "closing"} => reader = "none" /\ ~eof
  /\ dart = "adding" => read = 0
  /\ dart = "failed" => client \in {"error", "cancelled"}

\* What the receiver's handler, writer and application know of each other.
ReceiverInv ==
  /\ app = IF WriterGone THEN writer ELSE "waiting"
  /\ writer = "ok" => closed /\ Len(disk) = promised
  /\ server = "reading" => ~closed
  /\ server \in {"result", "ok"} => eof
  /\ server = "ok" => writer = "ok"
  /\ server = "failing" \/ status = "Failed" => broken \/ writer = "error"
  /\ response # "none" => server = "over"
  /\ response = "200" => status = "Finished" /\ writer = "ok" /\ eof
  /\ client = "ok" => response = "200"

\* What may cancel an upload: the user, or a file that failed before.
Trouble == user \/ \E j \in DOMAIN outcome : outcome[j] # "ok"

TokenInv ==
  /\ token => Trouble \/ (dart = "failed" /\ client = "error")
  /\ client = "cancelled" => Trouble

\* None of the three invariants of the run is inductive: success is safe by way
\* of all that handler and writer know of each other, the bytes by way of the
\* chunks that are still under way, and the end of the task by way of who
\* cancels the token.
UploadInv ==
  /\ TypeOK /\ StreamInv /\ SourceInv /\ ReceiverInv /\ TokenInv
  /\ CancelledOnlyAfterTrouble

-----------------------------------------------------------------------------
(* Chunks in order                                                         *)

\* The empty sequence is in order.
LEMMA EmptyInOrder ==
  ASSUME NEW a \in Sizes
  PROVE  InOrder(<<>>, a, a)
<1> DEFINE pos == [i \in 0..0 |-> a]
<1>1. pos \in [0..Len(<<>>) -> Sizes] /\ pos[0] = a /\ pos[Len(<<>>)] = a
  OBVIOUS
<1>2. \A i \in 1..Len(<<>>) : FALSE
  OBVIOUS
<1> HIDE DEF pos
<1> QED
  BY <1>1, <1>2 DEF InOrder

\* The next bytes go behind the ones that are under way.
LEMMA AppendInOrder ==
  ASSUME NEW chunks \in Seq(Seq(Nat)), NEW a \in Sizes, NEW b \in Sizes, NEW c \in Sizes,
         InOrder(chunks, a, b), b <= c
  PROVE  InOrder(Append(chunks, Bytes(b + 1, c)), a, c)
<1> DEFINE n == Len(chunks)
           longer == Append(chunks, Bytes(b + 1, c))
<1>1. PICK pos \in [0..n -> Sizes] :
        /\ pos[0] = a /\ pos[n] = b
        /\ \A i \in 1..n : chunks[i] = Bytes(pos[i - 1] + 1, pos[i]) /\ pos[i - 1] <= pos[i]
  BY DEF InOrder
<1> DEFINE next == [i \in 0..(n + 1) |-> IF i = n + 1 THEN c ELSE pos[i]]
<1>2. n \in Nat /\ Len(longer) = n + 1
  OBVIOUS
<1>3. next \in [0..Len(longer) -> Sizes] /\ next[0] = a /\ next[Len(longer)] = c
  BY <1>1, <1>2
<1>4. ASSUME NEW i \in 1..Len(longer)
      PROVE  longer[i] = Bytes(next[i - 1] + 1, next[i]) /\ next[i - 1] <= next[i]
  <2>1. CASE i = n + 1
    <3>1. longer[i] = Bytes(b + 1, c)
      BY <2>1
    <3>2. next[i - 1] = b /\ next[i] = c
      BY <1>1, <1>2, <2>1
    <3> QED
      BY <3>1, <3>2
  <2>2. CASE i # n + 1
    <3>1. i \in 1..n
      BY <1>2, <2>2
    <3>2. longer[i] = chunks[i]
      BY <3>1
    <3>3. next[i - 1] = pos[i - 1] /\ next[i] = pos[i]
      BY <1>2, <3>1
    <3> QED
      BY <1>1, <3>1, <3>2, <3>3
  <2> QED
    BY <2>1, <2>2
<1> HIDE DEF next, longer
<1> QED
  BY <1>3, <1>4 DEF InOrder, longer

\* The first chunk continues what is before it, the others continue the first.
LEMMA HeadInOrder ==
  ASSUME NEW chunks \in Seq(Seq(Nat)), chunks # <<>>, NEW a \in Sizes, NEW c \in Sizes,
         InOrder(chunks, a, c)
  PROVE  \E b \in Sizes : Head(chunks) = Bytes(a + 1, b) /\ a <= b /\ InOrder(Tail(chunks), b, c)
<1> DEFINE n == Len(chunks)
           rest == Tail(chunks)
<1>1. PICK pos \in [0..n -> Sizes] :
        /\ pos[0] = a /\ pos[n] = c
        /\ \A i \in 1..n : chunks[i] = Bytes(pos[i - 1] + 1, pos[i]) /\ pos[i - 1] <= pos[i]
  BY DEF InOrder
<1>2. n \in Nat \ {0} /\ Len(rest) = n - 1
  OBVIOUS
<1>3. Head(chunks) = Bytes(a + 1, pos[1]) /\ a <= pos[1] /\ pos[1] \in Sizes
  <2>1. Head(chunks) = chunks[1] /\ 1 \in 1..n /\ 1 - 1 = 0
    BY <1>2
  <2>2. chunks[1] = Bytes(pos[1 - 1] + 1, pos[1]) /\ pos[1 - 1] <= pos[1]
    BY <1>1, <2>1
  <2>3. pos[1] \in Sizes
    BY <1>1, <1>2
  <2> QED
    BY <1>1, <2>1, <2>2, <2>3
<1> DEFINE next == [i \in 0..(n - 1) |-> pos[i + 1]]
<1>4. next \in [0..Len(rest) -> Sizes] /\ next[0] = pos[1] /\ next[Len(rest)] = c
  BY <1>1, <1>2
<1>5. ASSUME NEW i \in 1..Len(rest)
      PROVE  rest[i] = Bytes(next[i - 1] + 1, next[i]) /\ next[i - 1] <= next[i]
  <2>1. i + 1 \in 1..n /\ rest[i] = chunks[i + 1]
    BY <1>2
  <2>2. next[i - 1] = pos[i] /\ next[i] = pos[i + 1]
    BY <1>2
  <2> QED
    BY <1>1, <2>1, <2>2
<1> HIDE DEF next, rest
<1>6. InOrder(rest, pos[1], c)
  BY <1>4, <1>5 DEF InOrder
<1> QED
  BY <1>3, <1>6 DEF rest

\* The byte at each place.
LEMMA ByteAt ==
  \A first, last : \A i \in 1..(last - first + 1) : Bytes(first, last)[i] = first + i - 1
BY DEF Bytes

\* Bytes that follow each other are bytes in order.
LEMMA BytesFollow ==
  ASSUME NEW a \in Sizes, NEW b \in Sizes, a <= b
  PROVE  /\ Bytes(1, a) \o Bytes(a + 1, b) = Bytes(1, b)
         /\ Bytes(a + 1, b) \in Seq(Nat) /\ Len(Bytes(a + 1, b)) = b - a
<1>1. Bytes(1, a) \in Seq(Nat) /\ Len(Bytes(1, a)) = a
  BY FileUploadAssumption DEF Bytes, Sizes
<1>2. Bytes(a + 1, b) \in Seq(Nat) /\ Len(Bytes(a + 1, b)) = b - a
  BY FileUploadAssumption DEF Bytes, Sizes
<1>3. Bytes(1, b) \in Seq(Nat) /\ Len(Bytes(1, b)) = b
  BY FileUploadAssumption DEF Bytes, Sizes
<1>4. a \in Nat /\ b \in Nat
  BY FileUploadAssumption DEF Sizes
<1> DEFINE left == Bytes(1, a) \o Bytes(a + 1, b)
<1>5. left \in Seq(Nat) /\ Len(left) = b
  BY <1>1, <1>2, <1>4
<1>6. ASSUME NEW i \in 1..b
      PROVE  left[i] = Bytes(1, b)[i]
  <2>1. CASE i <= a
    <3>1. left[i] = Bytes(1, a)[i]
      BY <1>1, <1>2, <1>4, <2>1
    <3>2. i \in 1..(a - 1 + 1) /\ i \in 1..(b - 1 + 1)
      BY <1>4, <2>1
    <3>3. Bytes(1, a)[i] = 1 + i - 1 /\ Bytes(1, b)[i] = 1 + i - 1
      BY <3>2, ByteAt
    <3> QED
      BY <3>1, <3>3
  <2>2. CASE i > a
    <3>1. left[i] = Bytes(a + 1, b)[i - a]
      BY <1>1, <1>2, <1>4, <2>2
    <3>2. i - a \in 1..(b - (a + 1) + 1) /\ i \in 1..(b - 1 + 1)
      BY <1>4, <2>2
    <3>3. Bytes(a + 1, b)[i - a] = a + 1 + (i - a) - 1 /\ Bytes(1, b)[i] = 1 + i - 1
      BY <3>2, ByteAt
    <3>4. a + 1 + (i - a) - 1 = 1 + i - 1
      BY <1>4
    <3> QED
      BY <3>1, <3>3, <3>4
  <2>3. i <= a \/ i > a
    BY <1>4
  <2> QED
    BY <2>1, <2>2, <2>3
<1> HIDE DEF left
<1>7. left = Bytes(1, b)
  BY <1>3, <1>5, <1>6
<1> QED
  BY <1>2, <1>7 DEF left


-----------------------------------------------------------------------------
(* Types                                                                   *)

\* The invariant holds at the start.
LEMMA UploadInit == Init => UploadInv
<1> SUFFICES ASSUME Init PROVE UploadInv
  OBVIOUS
<1>1. TypeOK
  <2>1. SequencesOK
    BY FileUploadAssumption DEF Init, SequencesOK, IsQueue
  <2>2. FlagsOK
    BY DEF Init, FlagsOK
  <2> QED
    BY <2>1, <2>2, FileUploadAssumption DEF Init, TypeOK, Sizes
<1>2. Bytes(1, 0) = <<>> /\ 0 \in Sizes
  BY FileUploadAssumption DEF Bytes, Sizes
<1>3. StreamInv
  BY <1>2 DEF Init, StreamInv, WriterGone
<1>4. SourceInv /\ ReceiverInv /\ TokenInv
  BY <1>2 DEF Init, SourceInv, ReceiverInv, TokenInv, WriterGone
<1>5. CancelledOnlyAfterTrouble
  BY DEF Init, CancelledOnlyAfterTrouble
<1> QED
  BY <1>1, <1>3, <1>4, <1>5 DEF UploadInv

\* What a queue of chunks becomes.
LEMMA Queues ==
  ASSUME NEW chunks, IsQueue(chunks)
  PROVE  /\ IsQueue(<<>>)
         /\ chunks # <<>> => IsQueue(Tail(chunks)) /\ Head(chunks) \in Seq(Nat)
         /\ \A chunk \in Seq(Nat) :
              Len(chunks) < Capacity => IsQueue(Append(chunks, chunk))
<1> USE FileUploadAssumption DEF IsQueue
<1>1. IsQueue(<<>>)
  OBVIOUS
<1>2. ASSUME chunks # <<>>
      PROVE  IsQueue(Tail(chunks)) /\ Head(chunks) \in Seq(Nat)
  BY <1>2
<1>3. ASSUME NEW chunk \in Seq(Nat), Len(chunks) < Capacity
      PROVE  IsQueue(Append(chunks, chunk))
  BY <1>3
<1> QED
  BY <1>1, <1>2, <1>3

\* Every step keeps the types of the queues and of what was read.
LEMMA SequencesStep == TypeOK /\ [Next]_vars => SequencesOK'
<1> SUFFICES ASSUME TypeOK, [Next]_vars PROVE SequencesOK'
  OBVIOUS
<1> USE DEF SequencesOK, task, file, source, net, saving, result
<1>1. SequencesOK /\ read \in 0..size /\ size \in Sizes
  BY DEF TypeOK
<1>2. CASE StartAny
  BY <1>1, <1>2, Queues DEF StartAny, Start
<1>3. CASE Sender
  <2>1. CASE Add
    <3>1. Bytes(1, size) \in Seq(Nat)
      <4>1. 0 \in Sizes /\ 0 <= size /\ 0 + 1 = 1
        BY <1>1, FileUploadAssumption DEF Sizes
      <4> QED
        BY <1>1, <4>1, BytesFollow
    <3> QED
      BY <1>1, <2>1, <3>1, Queues DEF Add
  <2>2. CASE \E n \in 1..MaxChunk : ReadChunk(n)
    <3>1. PICK n \in 1..MaxChunk : ReadChunk(n)
      BY <2>2
    <3>2. read \in Sizes /\ read + n \in Sizes /\ read <= read + n
      BY <1>1, <3>1, FileUploadAssumption DEF ReadChunk, Sizes
    <3>3. Bytes(read + 1, read + n) \in Seq(Nat)
      BY <3>2, BytesFollow
    <3> QED
      BY <1>1, <3>1, <3>3, Queues DEF ReadChunk
  <2>3. CASE AddFails \/ Close \/ Report \/ Open \/ EndRead
    <3>1. CASE Report
      BY <1>1, <3>1 DEF Report, TypeOK
    <3> QED
      BY <1>1, <2>3, <3>1 DEF AddFails, Close, Open, EndRead
  <2> QED
    BY <1>3, <2>1, <2>2, <2>3 DEF Sender
<1>4. CASE Request
  <2>1. CASE SendChunk
    BY <1>1, <2>1, Queues DEF SendChunk
  <2>2. CASE EndBody
    BY <1>1, <2>2 DEF EndBody
  <2>3. CASE Answer \/ ConnectionLost \/ Cancelled
    BY <1>1, <2>3, Queues DEF Answer, Refused, ConnectionLost, Cancelled, EndRequest
  <2> QED
    BY <1>4, <2>1, <2>2, <2>3 DEF Request
<1>5. CASE Receiver
  <2>1. CASE Forward
    BY <1>1, <2>1, Queues DEF Forward
  <2>2. CASE ForwardFails \/ EndOfBody \/ TakeResult \/ Finish
    BY <1>1, <2>2 DEF ForwardFails, EndOfBody, TakeResult, Finish
  <2> QED
    BY <1>5, <2>1, <2>2 DEF Receiver
<1>6. CASE Writer
  <2>1. CASE OpenFile \/ Flush
    BY <1>1, <2>1 DEF OpenFile, Flush, EndWriter
  <2>2. CASE WriteChunk
    <3>1. Head(buffer) \in Seq(Nat) /\ IsQueue(Tail(buffer))
      BY <1>1, <2>2, Queues DEF WriteChunk
    <3>2. disk \o Head(buffer) \in Seq(Nat)
      BY <1>1, <3>1
    <3> QED
      BY <1>1, <2>2, <3>1, <3>2 DEF WriteChunk, EndWriter
  <2> QED
    BY <1>6, <2>1, <2>2 DEF Writer
<1>7. CASE UserCancels \/ Break \/ DropRequest \/ UNCHANGED vars
  BY <1>1, <1>7 DEF UserCancels, Break, DropRequest, vars
<1> QED
  BY <1>2, <1>3, <1>4, <1>5, <1>6, <1>7 DEF Next

\* Every step keeps the types of the flags.
LEMMA FlagsStep == FlagsOK /\ [Next]_vars => FlagsOK'
<1> SUFFICES ASSUME FlagsOK, [Next]_vars PROVE FlagsOK'
  OBVIOUS
<1> USE DEF FlagsOK, task, file, source, net, saving, result
<1>1. CASE StartAny
  BY <1>1 DEF StartAny, Start
<1>2. CASE Sender \/ UserCancels
  BY <1>2 DEF Sender, Add, AddFails, Close, Report, Open, EndRead, ReadChunk, UserCancels
<1>3. CASE Request \/ Break
  BY <1>3 DEF Request, Break, SendChunk, EndBody, Answer, Refused, ConnectionLost, Cancelled,
              EndRequest
<1>4. CASE Receiver \/ DropRequest
  BY <1>4 DEF Receiver, DropRequest, Forward, ForwardFails, EndOfBody, TakeResult, Finish
<1>5. CASE Writer
  BY <1>5 DEF Writer, OpenFile, WriteChunk, Flush, EndWriter
<1>6. CASE UNCHANGED vars
  BY <1>6 DEF vars
<1> QED
  BY <1>1, <1>2, <1>3, <1>4, <1>5, <1>6 DEF Next

\* Every step keeps the types.
LEMMA TypeStep == TypeOK /\ [Next]_vars => TypeOK'
<1> SUFFICES ASSUME TypeOK, [Next]_vars PROVE TypeOK'
  OBVIOUS
<1> USE FileUploadAssumption, SequencesStep, FlagsStep
<1> USE DEF TypeOK, task, file, source, net, saving, result
<1>1. CASE StartAny
  BY <1>1 DEF StartAny, Start, Sizes
<1>2. CASE Sender
  <2>1. CASE Add
    BY <2>1 DEF Add, Sizes
  <2>2. CASE \E n \in 1..MaxChunk : ReadChunk(n)
    BY <2>2 DEF ReadChunk, Sizes
  <2>3. CASE AddFails \/ Close \/ Open \/ EndRead
    BY <2>3 DEF AddFails, Close, Open, EndRead
  <2>4. CASE Report
    BY <2>4 DEF Report
  <2> QED
    BY <1>2, <2>1, <2>2, <2>3, <2>4 DEF Sender
<1>3. CASE UserCancels
  BY <1>3 DEF UserCancels
<1>4. CASE Request \/ Break
  BY <1>4 DEF Request, Break, SendChunk, EndBody, Answer, Refused, ConnectionLost, Cancelled,
              EndRequest
<1>5. CASE Receiver \/ DropRequest
  BY <1>5 DEF Receiver, DropRequest, Forward, ForwardFails, EndOfBody, TakeResult, Finish
<1>6. CASE Writer
  BY <1>6 DEF Writer, OpenFile, WriteChunk, Flush, EndWriter
<1>7. CASE UNCHANGED vars
  BY <1>7 DEF vars
<1> QED
  BY <1>1, <1>2, <1>3, <1>4, <1>5, <1>6, <1>7 DEF Next

-----------------------------------------------------------------------------
(* What the tasks know of each other                                       *)

\* Every step keeps what is known of the receiving end.
LEMMA ReceiverStep == TypeOK /\ ReceiverInv /\ [Next]_vars => ReceiverInv'
<1> SUFFICES ASSUME TypeOK, ReceiverInv, [Next]_vars PROVE ReceiverInv'
  OBVIOUS
<1> USE DEF ReceiverInv, WriterGone, task, file, source, net, saving, result
<1>1. /\ writer \in {"opening", "writing", "ok", "error"}
      /\ server \in {"reading", "result", "ok", "failing", "over", "dropped"}
  BY DEF TypeOK
<1>2. CASE StartAny
  BY <1>2 DEF StartAny, Start
<1>3. CASE Sender \/ UserCancels
  BY <1>3 DEF Sender, Add, AddFails, Close, Report, Open, EndRead, ReadChunk, UserCancels
<1>4. CASE Request \/ Break
  BY <1>4 DEF Request, Break, SendChunk, EndBody, Answer, Refused, ConnectionLost, Cancelled,
              EndRequest
<1>5. CASE Receiver \/ DropRequest
  BY <1>1, <1>5 DEF Receiver, DropRequest, Forward, ForwardFails, EndOfBody, TakeResult, Finish
<1>6. CASE Writer
  BY <1>1, <1>6 DEF Writer, OpenFile, WriteChunk, Flush, EndWriter
<1>7. CASE UNCHANGED vars
  BY <1>7 DEF vars
<1> QED
  BY <1>2, <1>3, <1>4, <1>5, <1>6, <1>7 DEF Next

\* Every step keeps what is known of the source of the bytes.
LEMMA SourceStep == ReceiverInv /\ SourceInv /\ TypeOK /\ [Next]_vars => SourceInv'
<1> SUFFICES ASSUME ReceiverInv, SourceInv, TypeOK, [Next]_vars PROVE SourceInv'
  OBVIOUS
<1> USE DEF SourceInv, task, file, source, net, saving, result
<1>1. CASE StartAny
  BY <1>1 DEF StartAny, Start
<1>2. CASE Sender
  <2>1. client \in {"sending", "ok", "error", "cancelled"} /\ (client = "ok" => eof)
    BY DEF TypeOK, ReceiverInv
  <2>2. CASE AddFails
    BY <2>1, <2>2 DEF AddFails
  <2>3. CASE Add \/ Close \/ Report \/ Open \/ EndRead
    BY <2>3 DEF Add, Close, Report, Open, EndRead
  <2>4. CASE \E n \in 1..MaxChunk : ReadChunk(n)
    BY <2>4 DEF ReadChunk
  <2> QED
    BY <1>2, <2>2, <2>3, <2>4 DEF Sender
<1>3. CASE Request \/ Break
  BY <1>3 DEF Request, Break, SendChunk, EndBody, SourceClosed, Answer, Refused, ConnectionLost,
              Cancelled, EndRequest
<1>4. CASE Receiver \/ DropRequest
  BY <1>4 DEF Receiver, DropRequest, Forward, ForwardFails, EndOfBody, TakeResult, Finish
<1>5. CASE Writer
  BY <1>5 DEF Writer, OpenFile, WriteChunk, Flush, EndWriter
<1>6. CASE UserCancels \/ UNCHANGED vars
  BY <1>6 DEF UserCancels, vars
<1> QED
  BY <1>1, <1>2, <1>3, <1>4, <1>5, <1>6 DEF Next

-----------------------------------------------------------------------------
(* The bytes                                                               *)

\* Every step keeps what is known of the stream between them.
LEMMA StreamStep == TypeOK /\ SourceInv /\ StreamInv /\ [Next]_vars => StreamInv'
<1> SUFFICES ASSUME TypeOK, SourceInv, StreamInv, [Next]_vars PROVE StreamInv'
  OBVIOUS
<1> USE DEF WriterGone, task, file, source, net, saving, result
<1>1. /\ IsQueue(channel) /\ IsQueue(wire) /\ IsQueue(buffer)
      /\ read \in Sizes /\ size \in Sizes /\ promised \in Sizes
  BY FileUploadAssumption DEF TypeOK, SequencesOK, Sizes
<1>2. channel \in Seq(Seq(Nat)) /\ wire \in Seq(Seq(Nat)) /\ buffer \in Seq(Seq(Nat))
  BY <1>1 DEF IsQueue
\* What is kept by a step that touches no chunk, and does not bring the writer
\* or the request back.
<1>3. ASSUME UNCHANGED <<disk, wire, buffer, read>>,
             WriterGone => WriterGone',
             client' = "sending" => client = "sending" /\ channel' = channel
      PROVE  StreamInv'
  BY <1>3 DEF StreamInv
<1>4. CASE StartAny
  <2>1. 0 \in Sizes /\ Bytes(1, 0) = <<>>
    BY FileUploadAssumption DEF Sizes, Bytes
  <2>2. InOrder(<<>>, 0, 0)
    BY <2>1, EmptyInOrder
  <2>3. UNCHANGED <<>> /\ disk' = <<>> /\ wire' = <<>> /\ buffer' = <<>> /\ channel' = <<>> /\ read' = 0
    BY <1>4 DEF StartAny, Start
  <2> QED
    BY <2>1, <2>2, <2>3 DEF StreamInv
<1>5. CASE Sender
  <2>1. ASSUME NEW last \in Sizes, read <= last, client = "sending",
               channel' = Append(channel, Bytes(read + 1, last)), read' = last,
               UNCHANGED <<disk, wire, buffer, writer, client>>
        PROVE  StreamInv'
    <3>1. CASE WriterGone
      BY <2>1, <3>1 DEF StreamInv
    <3>2. CASE ~WriterGone
      <4>1. PICK b \in Sizes, w \in Sizes :
              InOrder(buffer, Len(disk), b) /\ InOrder(wire, b, w) /\ InOrder(channel, w, read)
        BY <2>1, <3>2 DEF StreamInv
      <4>2. InOrder(channel', w, last)
        BY <1>1, <1>2, <2>1, <4>1, AppendInOrder
      <4> QED
        BY <2>1, <4>1, <4>2 DEF StreamInv
    <3> QED
      BY <3>1, <3>2
  <2>2. CASE Add
    <3>1. read = 0 /\ read' = size
      BY <2>2 DEF Add, SourceInv
    <3>2. CASE size = 0
      BY <1>3, <2>2, <3>1, <3>2 DEF Add
    <3>3. CASE size # 0
      <4>1. channel' = Append(channel, Bytes(read + 1, size)) /\ read <= size
        BY <1>1, <2>2, <3>1, <3>3 DEF Add, Sizes
      <4> QED
        BY <1>1, <2>1, <2>2, <3>1, <4>1 DEF Add
    <3> QED
      BY <3>2, <3>3
  <2>3. CASE \E n \in 1..MaxChunk : ReadChunk(n)
    <3>1. PICK n \in 1..MaxChunk : ReadChunk(n)
      BY <2>3
    <3>2. read + n \in Sizes /\ read <= read + n
      BY <1>1, <3>1, FileUploadAssumption DEF ReadChunk, Sizes
    <3> QED
      BY <2>1, <3>1, <3>2 DEF ReadChunk
  <2>4. CASE AddFails \/ Close \/ Report \/ Open \/ EndRead
    BY <1>3, <2>4 DEF AddFails, Close, Report, Open, EndRead
  <2> QED
    BY <1>5, <2>2, <2>3, <2>4 DEF Sender
<1>6. CASE Request
  <2>1. CASE SendChunk
    <3>1. CASE WriterGone
      BY <2>1, <3>1 DEF SendChunk, StreamInv
    <3>2. CASE ~WriterGone
      <4>1. PICK b \in Sizes, w \in Sizes :
              InOrder(buffer, Len(disk), b) /\ InOrder(wire, b, w) /\ InOrder(channel, w, read)
        BY <2>1, <3>2 DEF SendChunk, StreamInv
      <4>2. PICK v \in Sizes : /\ Head(channel) = Bytes(w + 1, v) /\ w <= v
                               /\ InOrder(Tail(channel), v, read)
        BY <1>1, <1>2, <2>1, <4>1, HeadInOrder DEF SendChunk
      <4>3. InOrder(Append(wire, Head(channel)), b, v)
        BY <1>2, <4>1, <4>2, AppendInOrder
      <4> QED
        BY <2>1, <4>1, <4>2, <4>3 DEF SendChunk, StreamInv
    <3> QED
      BY <3>1, <3>2
  <2>2. CASE EndBody \/ Answer \/ ConnectionLost \/ Cancelled
    BY <1>3, <2>2 DEF EndBody, Answer, Refused, ConnectionLost, Cancelled, EndRequest
  <2> QED
    BY <1>6, <2>1, <2>2 DEF Request
<1>7. CASE Receiver
  <2>1. CASE Forward
    <3>1. PICK b \in Sizes, w \in Sizes :
            /\ InOrder(buffer, Len(disk), b) /\ InOrder(wire, b, w)
            /\ client = "sending" => InOrder(channel, w, read)
      BY <2>1 DEF Forward, StreamInv
    <3>2. PICK v \in Sizes : Head(wire) = Bytes(b + 1, v) /\ b <= v /\ InOrder(Tail(wire), v, w)
      BY <1>2, <2>1, <3>1, HeadInOrder DEF Forward
    <3>3. Len(disk) \in Sizes
      BY DEF StreamInv
    <3>4. InOrder(Append(buffer, Head(wire)), Len(disk), v)
      BY <1>2, <3>1, <3>2, <3>3, AppendInOrder
    <3> QED
      BY <2>1, <3>1, <3>2, <3>4 DEF Forward, StreamInv
  <2>2. CASE ForwardFails \/ EndOfBody \/ TakeResult \/ Finish
    BY <1>3, <2>2 DEF ForwardFails, EndOfBody, TakeResult, Finish
  <2> QED
    BY <1>7, <2>1, <2>2 DEF Receiver
<1>8. CASE Writer
  <2>1. CASE OpenFile \/ Flush
    BY <1>3, <2>1 DEF OpenFile, Flush, EndWriter
  <2>2. CASE WriteChunk /\ WriterGone'
    BY <2>2 DEF WriteChunk, EndWriter, StreamInv
  <2>3. CASE WriteChunk /\ ~WriterGone'
    <3>1. /\ writer = "writing" /\ buffer # <<>> /\ buffer' = Tail(buffer)
          /\ Len(disk) + Len(Head(buffer)) <= promised
          /\ disk' = disk \o Head(buffer)
          /\ UNCHANGED <<client, channel, wire, read>>
      BY <2>3 DEF WriteChunk, EndWriter
    <3>2. PICK b \in Sizes, w \in Sizes :
            /\ InOrder(buffer, Len(disk), b) /\ InOrder(wire, b, w)
            /\ client = "sending" => InOrder(channel, w, read)
      BY <3>1 DEF StreamInv
    <3>3. disk = Bytes(1, Len(disk)) /\ Len(disk) \in Sizes
      BY DEF StreamInv
    <3>4. PICK v \in Sizes : /\ Head(buffer) = Bytes(Len(disk) + 1, v) /\ Len(disk) <= v
                             /\ InOrder(Tail(buffer), v, b)
      BY <1>2, <3>1, <3>2, <3>3, HeadInOrder
    <3>5. disk' = Bytes(1, v)
      BY <3>1, <3>3, <3>4, BytesFollow
    <3>6. Len(Bytes(1, v)) = v
      BY FileUploadAssumption DEF Bytes, Sizes
    <3> QED
      BY <3>1, <3>2, <3>4, <3>5, <3>6 DEF StreamInv
  <2> QED
    BY <1>8, <2>1, <2>2, <2>3 DEF Writer
<1>9. CASE UserCancels \/ Break \/ DropRequest \/ UNCHANGED vars
  BY <1>3, <1>9 DEF UserCancels, Break, DropRequest, vars
<1> QED
  BY <1>4, <1>5, <1>6, <1>7, <1>8, <1>9 DEF Next

-----------------------------------------------------------------------------
(* The token                                                               *)

\* A step cancels the token or a request only for a reason.
LEMMA TokenStep ==
  ASSUME TypeOK, SourceInv, ReceiverInv, TokenInv, CancelledOnlyAfterTrouble, [Next]_vars
  PROVE  TokenInv' /\ CancelledOnlyAfterTrouble'
<1> USE DEF task, file, source, net, saving, result
<1>1. /\ outcome \in Seq({"ok", "error", "cancelled"})
      /\ client \in {"sending", "ok", "error", "cancelled"}
  BY DEF TypeOK, SequencesOK
\* What is kept by a step that neither reports nor cancels.
<1>2. ASSUME UNCHANGED <<outcome, token, user>>, client' = "cancelled" => client = "cancelled",
             dart = "failed" /\ client = "error" => dart' = "failed" /\ client' = "error"
      PROVE  TokenInv' /\ CancelledOnlyAfterTrouble'
  BY <1>2 DEF TokenInv, Trouble, CancelledOnlyAfterTrouble
<1>3. CASE StartAny
  BY <1>2, <1>3 DEF StartAny, Start
<1>4. CASE Sender
  <2>1. CASE AddFails
    <3>1. client = "error" \/ client = "cancelled"
      BY <1>1, <2>1 DEF AddFails, SourceInv, ReceiverInv
    <3>2. UNCHANGED <<outcome, user, client>> /\ dart' = "failed"
      BY <2>1 DEF AddFails
    <3>3. TokenInv'
      BY <3>1, <3>2 DEF TokenInv, Trouble
    <3> QED
      BY <3>2, <3>3 DEF CancelledOnlyAfterTrouble
  <2>2. CASE Report
    <3>1. outcome' = Append(outcome, client) /\ UNCHANGED <<token, user, client>>
      BY <2>2 DEF Report
    <3>2. /\ DOMAIN outcome = 1..Len(outcome) /\ DOMAIN outcome' = 1..(Len(outcome) + 1)
          /\ Len(outcome) \in Nat
          /\ \A i \in 1..Len(outcome) : outcome'[i] = outcome[i]
          /\ outcome'[Len(outcome) + 1] = client
      BY <1>1, <3>1
    <3>3. Trouble => Trouble'
      BY <3>1, <3>2 DEF Trouble
    <3>4. client = "error" => Trouble'
      BY <3>2 DEF Trouble
    <3>5. TokenInv'
      BY <3>1, <3>3, <3>4 DEF TokenInv
    <3>6. ASSUME NEW i \in DOMAIN outcome', outcome'[i] = "cancelled"
          PROVE  user' \/ \E j \in 1..(i - 1) : outcome'[j] # "ok"
      <4>1. CASE i = Len(outcome) + 1
        <5>1. user \/ \E j \in 1..Len(outcome) : outcome[j] # "ok"
          BY <3>2, <3>6, <4>1 DEF TokenInv, Trouble
        <5> QED
          BY <3>1, <3>2, <4>1, <5>1
      <4>2. CASE i # Len(outcome) + 1
        <5>1. i \in 1..Len(outcome) /\ outcome[i] = "cancelled"
          BY <3>2, <3>6, <4>2
        <5>2. user \/ \E j \in 1..(i - 1) : outcome[j] # "ok"
          BY <3>2, <5>1 DEF CancelledOnlyAfterTrouble
        <5> QED
          BY <3>1, <3>2, <5>1, <5>2
      <4> QED
        BY <4>1, <4>2
    <3> QED
      BY <3>5, <3>6 DEF CancelledOnlyAfterTrouble
  <2>3. CASE Add \/ Close \/ Open \/ EndRead
    BY <1>2, <2>3 DEF Add, Close, Open, EndRead
  <2>4. CASE \E n \in 1..MaxChunk : ReadChunk(n)
    BY <1>2, <2>4 DEF ReadChunk
  <2> QED
    BY <1>4, <2>1, <2>2, <2>3, <2>4 DEF Sender
<1>5. CASE UserCancels
  BY <1>5 DEF UserCancels, TokenInv, Trouble, CancelledOnlyAfterTrouble
<1>6. CASE Request \/ Break
  <2>1. CASE Cancelled
    <3>1. token /\ client = "sending" /\ client' = "cancelled" /\ UNCHANGED <<outcome, token, user>>
      BY <2>1 DEF Cancelled, EndRequest
    <3>2. Trouble
      BY <3>1 DEF TokenInv
    <3> QED
      BY <3>1, <3>2 DEF TokenInv, Trouble, CancelledOnlyAfterTrouble
  <2>2. CASE SendChunk \/ EndBody \/ Answer \/ ConnectionLost \/ Break
    BY <1>2, <2>2 DEF SendChunk, EndBody, Answer, Refused, ConnectionLost, Break, EndRequest
  <2> QED
    BY <1>6, <2>1, <2>2 DEF Request
<1>7. CASE Receiver \/ DropRequest
  BY <1>2, <1>7 DEF Receiver, DropRequest, Forward, ForwardFails, EndOfBody, TakeResult, Finish
<1>8. CASE Writer
  BY <1>2, <1>8 DEF Writer, OpenFile, WriteChunk, Flush, EndWriter
<1>9. CASE UNCHANGED vars
  BY <1>2, <1>9 DEF vars
<1> QED
  BY <1>3, <1>4, <1>5, <1>6, <1>7, <1>8, <1>9 DEF Next

-----------------------------------------------------------------------------
(* The theorems                                                            *)

\* The invariant always holds.
LEMMA UploadAlways == Spec => []UploadInv
<1>1. UploadInv /\ [Next]_vars => UploadInv'
  BY TypeStep, StreamStep, SourceStep, ReceiverStep, TokenStep DEF UploadInv
<1> QED
  BY UploadInit, <1>1, PTL DEF Spec

\* The state of an upload is well typed (upload_isolate.dart, http_upload.dart,
\* transfer.rs, save.rs, server.rs).
THEOREM UploadTypeCorrect == Spec => []TypeOK
<1>1. UploadInv => TypeOK
  BY DEF UploadInv
<1> QED
  BY <1>1, UploadAlways, PTL

\* A sender that is told of success sent the promised bytes, and they are on
\* the disk of the receiver, whose application and session know: for every
\* size, chunking and capacity of the queues between them (save_req_to_target,
\* spawn_file_writer).
THEOREM SuccessIsSaved == Spec => []SuccessMeansSaved
<1>1. UploadInv => SuccessMeansSaved
  BY DEF UploadInv, ReceiverInv, StreamInv, SuccessMeansSaved, WriterGone
<1> QED
  BY <1>1, UploadAlways, PTL

\* The receiving application is told of success only when the promised bytes
\* are on the disk, and the session disagrees only when the connection broke
\* behind the last one (respond_file_upload, UploadGuard).
THEOREM ApplicationKnows == Spec => []ApplicationAgrees
<1>1. UploadInv => ApplicationAgrees
  BY DEF UploadInv, ReceiverInv, StreamInv, ApplicationAgrees, WriterGone
<1> QED
  BY <1>1, UploadAlways, PTL

\* Only the user, or a file that failed before, cancels an upload
\* (http_upload.dart, upload_isolate.dart).
THEOREM GoodFilesCancelNone == Spec => []CancelledOnlyAfterTrouble
<1>1. UploadInv => CancelledOnlyAfterTrouble
  BY DEF UploadInv
<1> QED
  BY <1>1, UploadAlways, PTL

-----------------------------------------------------------------------------
(* The server service: ServerLifecycle                                     *)

\* What a start has done to its server so far.
StartsInOrder ==
  \A s \in Starts :
    /\ startPc[s] \in {"idle", "called", "failed"} => running[s] = "none"
    /\ startPc[s] = "returned" => stopTx[s]
    /\ listener[s] # {} => running[s] = "serving"

\* The kept server has returned from its start, and no stop took it yet.
KeptCanBeStopped ==
  kept # None => startPc[kept] = "listening" /\ stopTx[kept]

\* Two starts that are open at once overlap, and so does a start that is open
\* while a server is kept with the start of that server.
OverlapsRecorded ==
  \A s \in Opening :
    /\ \A r \in Opening \ {s} : {r, s} \subseteq overlapped
    /\ kept # None => kept \in overlapped

\* A stop waits for a server, and is done with it when its task ended.
StopsInOrder ==
  \A t \in Stops :
    /\ stopPc[t] = "waiting" => stops[t] # None
    /\ stopPc[t] = "done" /\ stops[t] # None => running[stops[t]] = "ended"

\* A task that ended has no connections left.
ConnectionsServed ==
  \A c \in Connections : conn[c] # None => running[conn[c]] \in {"serving", "closing"}

\* The inductive invariant.  NoOrphan alone is not: when a start returns, what
\* becomes of the server that was kept before is the matter of
\* OverlapsRecorded, and when a stop takes the kept server without waiting for
\* it, of KeptCanBeStopped.
LifecycleInv ==
  /\ ServiceTypeOK
  /\ StartsInOrder
  /\ KeptCanBeStopped
  /\ OverlapsRecorded
  /\ StopsInOrder
  /\ ConnectionsServed
  /\ NoOrphan

\* Nothing runs yet, so every claim about calls, listeners and connections is
\* vacuous.
LEMMA LifecycleInit == ServiceInit => LifecycleInv
  BY DEF ServiceInit, LifecycleInv, ServiceTypeOK, StartsInOrder, KeptCanBeStopped, OverlapsRecorded,
         StopsInOrder, ConnectionsServed, NoOrphan, Opening

\* A start is called, binds or fails to, and returns with the handle of the
\* server it bound.
LEMMA StartingStep ==
  ASSUME LifecycleInv, NEW s \in Starts, CallStart(s) \/ BindFails(s) \/ Bind(s) \/ ReturnStart(s)
  PROVE  LifecycleInv'
<1> USE LifecycleAssumption
<1> USE DEF LifecycleInv, ServiceTypeOK, Opening
<1>1. CASE CallStart(s)
  <2>1. ServiceTypeOK'
    BY <1>1 DEF CallStart, stopping
  <2>2. StartsInOrder' /\ KeptCanBeStopped'
    BY <1>1 DEF CallStart, stopping, StartsInOrder, KeptCanBeStopped
  <2>3. OverlapsRecorded'
    BY <1>1 DEF CallStart, stopping, OverlapsRecorded
  <2>4. StopsInOrder' /\ ConnectionsServed'
    BY <1>1 DEF CallStart, stopping, StopsInOrder, ConnectionsServed
  <2>5. NoOrphan'
    BY <1>1 DEF CallStart, stopping, NoOrphan
  <2> QED
    BY <2>1, <2>2, <2>3, <2>4, <2>5
<1>2. CASE BindFails(s)
  <2>1. ServiceTypeOK'
    BY <1>2 DEF BindFails, stopping
  <2>2. StartsInOrder' /\ KeptCanBeStopped'
    BY <1>2 DEF BindFails, stopping, StartsInOrder, KeptCanBeStopped
  <2>3. OverlapsRecorded'
    BY <1>2 DEF BindFails, stopping, OverlapsRecorded
  <2>4. StopsInOrder' /\ ConnectionsServed'
    BY <1>2 DEF BindFails, stopping, StopsInOrder, ConnectionsServed
  <2>5. NoOrphan'
    BY <1>2 DEF BindFails, stopping, NoOrphan, StartsInOrder
  <2> QED
    BY <2>1, <2>2, <2>3, <2>4, <2>5
<1>3. CASE Bind(s)
  <2>1. ServiceTypeOK'
    BY <1>3 DEF Bind, Families
  <2>2. StartsInOrder' /\ KeptCanBeStopped'
    BY <1>3 DEF Bind, StartsInOrder, KeptCanBeStopped
  <2>3. OverlapsRecorded'
    BY <1>3 DEF Bind, OverlapsRecorded
  <2>4. StopsInOrder' /\ ConnectionsServed'
    BY <1>3 DEF Bind, StartsInOrder, StopsInOrder, ConnectionsServed
  <2>5. NoOrphan'
    BY <1>3 DEF Bind, NoOrphan
  <2> QED
    BY <2>1, <2>2, <2>3, <2>4, <2>5
<1>4. CASE ReturnStart(s)
  <2>1. ServiceTypeOK'
    BY <1>4 DEF ReturnStart, stopping
  <2>2. StartsInOrder' /\ KeptCanBeStopped'
    BY <1>4 DEF ReturnStart, stopping, StartsInOrder, KeptCanBeStopped
  <2>3. OverlapsRecorded'
    BY <1>4 DEF ReturnStart, stopping, OverlapsRecorded
  <2>4. StopsInOrder' /\ ConnectionsServed'
    BY <1>4 DEF ReturnStart, stopping, StopsInOrder, ConnectionsServed
  <2>5. NoOrphan'
    \* A server that was kept before belongs to a start that overlaps with s.
    BY <1>4 DEF ReturnStart, stopping, NoOrphan, OverlapsRecorded
  <2> QED
    BY <2>1, <2>2, <2>3, <2>4, <2>5
<1> QED
  BY <1>1, <1>2, <1>3, <1>4

\* A loop that fails or is told to stop winds down, and its task ends when both
\* loops are over and no connection is left.
LEMMA ServingStep ==
  ASSUME LifecycleInv, NEW s \in Starts,
         ReceiveStop(s) \/ EndTask(s) \/ \E f \in Families : LoopFails(s, f)
  PROVE  LifecycleInv'
<1> USE LifecycleAssumption
<1> USE DEF LifecycleInv, ServiceTypeOK, Opening, starting, stopping
<1>1. CASE ReceiveStop(s)
  <2>1. ServiceTypeOK' /\ StartsInOrder' /\ KeptCanBeStopped'
    BY <1>1 DEF ReceiveStop, Wind, StartsInOrder, KeptCanBeStopped
  <2>2. OverlapsRecorded' /\ StopsInOrder'
    BY <1>1 DEF ReceiveStop, Wind, OverlapsRecorded, StopsInOrder
  <2>3. ConnectionsServed' /\ NoOrphan'
    BY <1>1 DEF ReceiveStop, Wind, ConnectionsServed, NoOrphan
  <2> QED
    BY <2>1, <2>2, <2>3
<1>2. CASE EndTask(s)
  <2>1. ServiceTypeOK' /\ StartsInOrder' /\ KeptCanBeStopped'
    BY <1>2 DEF EndTask, StartsInOrder, KeptCanBeStopped
  <2>2. OverlapsRecorded' /\ StopsInOrder'
    BY <1>2 DEF EndTask, OverlapsRecorded, StopsInOrder
  <2>3. ConnectionsServed' /\ NoOrphan'
    BY <1>2 DEF EndTask, Connected, ConnectionsServed, NoOrphan
  <2> QED
    BY <2>1, <2>2, <2>3
<1>3. ASSUME NEW f \in Families, LoopFails(s, f)
      PROVE  LifecycleInv'
  <2>1. ServiceTypeOK' /\ StartsInOrder' /\ KeptCanBeStopped'
    BY <1>3 DEF LoopFails, Wind, StartsInOrder, KeptCanBeStopped
  <2>2. OverlapsRecorded' /\ StopsInOrder'
    BY <1>3 DEF LoopFails, Wind, OverlapsRecorded, StopsInOrder
  <2>3. ConnectionsServed' /\ NoOrphan'
    BY <1>3 DEF LoopFails, Wind, ConnectionsServed, NoOrphan
  <2> QED
    BY <2>1, <2>2, <2>3
<1> QED
  BY <1>1, <1>2, <1>3

\* A connection ends by itself or is dropped by the loop that accepted it.
LEMMA ConnectionStep ==
  ASSUME LifecycleInv, NEW c \in Connections,
         Accept(c) \/ EndConnection(c) \/ DropConnection(c)
  PROVE  LifecycleInv'
<1> USE LifecycleAssumption
<1> USE DEF LifecycleInv, starting, stopping
<1>1. UNCHANGED <<kept, starting, listener, running, stopping>>
  BY DEF Accept, EndConnection, DropConnection
<1>2. ServiceTypeOK'
  BY <1>1 DEF ServiceTypeOK, Accept, EndConnection, DropConnection
<1>3. ConnectionsServed'
  BY DEF ServiceTypeOK, ConnectionsServed, Accept, EndConnection, DropConnection
<1>4. StartsInOrder' /\ KeptCanBeStopped' /\ OverlapsRecorded' /\ StopsInOrder' /\ NoOrphan'
  BY <1>1 DEF StartsInOrder, KeptCanBeStopped, OverlapsRecorded, StopsInOrder, NoOrphan, Opening
<1> QED
  BY <1>2, <1>3, <1>4

\* The loop closes the listeners and drops its connections before it tells the
\* stop that waits for it.
LEMMA StoppingStep ==
  ASSUME LifecycleInv, NEW t \in Stops, CallStop(t) \/ ReturnStop(t)
  PROVE  LifecycleInv'
<1> USE LifecycleAssumption
<1> USE DEF LifecycleInv, ServiceTypeOK, Opening, starting
<1>1. CASE CallStop(t)
  <2>1. ServiceTypeOK'
    BY <1>1 DEF CallStop
  <2>2. StartsInOrder' /\ KeptCanBeStopped' /\ OverlapsRecorded'
    \* A kept server is listening, so no open start loses its stop channel.
    BY <1>1 DEF CallStop, StartsInOrder, KeptCanBeStopped, OverlapsRecorded
  <2>3. StopsInOrder' /\ ConnectionsServed'
    BY <1>1 DEF CallStop, KeptCanBeStopped, StopsInOrder, ConnectionsServed
  <2>4. NoOrphan'
    \* The server that was kept is waited for from now on.
    BY <1>1 DEF CallStop, KeptCanBeStopped, NoOrphan
  <2> QED
    BY <2>1, <2>2, <2>3, <2>4
<1>2. CASE ReturnStop(t)
  <2>1. ServiceTypeOK' /\ StartsInOrder' /\ KeptCanBeStopped' /\ OverlapsRecorded'
    BY <1>2 DEF ReturnStop, StartsInOrder, KeptCanBeStopped, OverlapsRecorded
  <2>2. StopsInOrder' /\ ConnectionsServed'
    BY <1>2 DEF ReturnStop, StopsInOrder, ConnectionsServed
  <2>3. NoOrphan'
    BY <1>2 DEF ReturnStop, NoOrphan
  <2> QED
    BY <2>1, <2>2, <2>3
<1> QED
  BY <1>1, <1>2

\* Each group of actions preserves the invariant.
LEMMA LifecycleInductive == LifecycleInv /\ [ServiceNext]_serviceVars => LifecycleInv'
<1> SUFFICES ASSUME LifecycleInv, [ServiceNext]_serviceVars
             PROVE  LifecycleInv'
  OBVIOUS
<1>1. CASE ServiceNext
  BY <1>1, StartingStep, ServingStep, ConnectionStep, StoppingStep DEF ServiceNext
<1>2. CASE UNCHANGED serviceVars
  BY <1>2 DEF serviceVars, starting, stopping, LifecycleInv, ServiceTypeOK, StartsInOrder, KeptCanBeStopped,
              OverlapsRecorded, StopsInOrder, ConnectionsServed, NoOrphan, Opening
<1> QED
  BY <1>1, <1>2

\* The state of the servers is well typed for any number of starts, stops, ports
\* and connections.
THEOREM ServiceTypeCorrect == ServiceSpec => []ServiceTypeOK
<1>1. LifecycleInv => ServiceTypeOK
  BY DEF LifecycleInv
<1> QED
  BY <1>1, LifecycleInit, LifecycleInductive, PTL DEF ServiceSpec

\* No server runs that nobody can stop, unless two starts overlapped
\* (HttpServerService of http_server.dart).
THEOREM NoServerOrphaned == ServiceSpec => []NoOrphan
<1>1. LifecycleInv => NoOrphan
  BY DEF LifecycleInv
<1> QED
  BY <1>1, LifecycleInit, LifecycleInductive, PTL DEF ServiceSpec

\* A stop that returned has released the port and the connections of the server
\* it found; who holds the port now can be stopped (wait_stopped of mod.rs).
THEOREM StopReleases == ServiceSpec => []StopMeansReleased
<1>1. LifecycleInv => StopMeansReleased
  <2> SUFFICES ASSUME LifecycleInv, NEW t \in Stops, stopPc[t] = "done", stops[t] # None
               PROVE  /\ listener[stops[t]] = {} /\ Connected(stops[t]) = {}
                      /\ Bound(port[stops[t]], "v4") =>
                           \E s \in Starts : /\ port[s] = port[stops[t]] /\ "v4" \in listener[s]
                                             /\ \/ s \in Opening \cup overlapped \cup {kept}
                                                \/ \E u \in Stops : stops[u] = s /\ stopPc[u] = "waiting"
    BY DEF StopMeansReleased
  <2>1. stops[t] \in Starts /\ running[stops[t]] = "ended"
    BY DEF LifecycleInv, ServiceTypeOK, StopsInOrder
  <2>2. listener[stops[t]] = {}
    BY <2>1 DEF LifecycleInv, StartsInOrder
  <2>3. Connected(stops[t]) = {}
    BY <2>1, LifecycleAssumption DEF Connected, LifecycleInv, ConnectionsServed
  <2>4. ASSUME NEW s \in Starts, "v4" \in listener[s]
        PROVE  \/ s \in Opening \cup overlapped \cup {kept}
               \/ \E u \in Stops : stops[u] = s /\ stopPc[u] = "waiting"
    \* An open listener is one of a server that runs, and that is no orphan.
    BY <2>4 DEF LifecycleInv, StartsInOrder, NoOrphan
  <2> QED
    BY <2>2, <2>3, <2>4 DEF Bound
<1> QED
  BY <1>1, LifecycleInit, LifecycleInductive, PTL DEF ServiceSpec
=============================================================================
