----------------------------- MODULE FileUpload -----------------------------
(***************************************************************************)
(* The bytes of a file on their way from one device to the other:          *)
(*                                                                         *)
(*   source -> channel -> wire -> buffer -> disk                           *)
(*                                                                         *)
(* The task of the sender (upload_isolate.dart, http_upload.dart) uploads  *)
(* its files one after the other with one cancellation token for all.  A   *)
(* file is read into a channel (transfer.rs, stream.rs), its chunks are    *)
(* the body of a request (http/client), the receiver's request handler     *)
(* (common/save.rs) forwards the body to a writer task, and the writer     *)
(* tells the handler and the application (respond_file_upload of           *)
(* api/server.rs) what became of it.                                       *)
(*                                                                         *)
(* The byte at position i of a file is the number i.  Uploads share        *)
(* nothing on the receiver, so the next one starts when all is quiet.      *)
(***************************************************************************)
EXTENDS Naturals, Sequences

CONSTANTS
  FileCount,   \* files of the task
  MaxSize,     \* largest size of a file
  MaxChunk,    \* largest chunk a reader makes
  Capacity     \* capacity of the channels, the buffer and the wire (16 and 1 in the code)

ASSUME FileUploadAssumption ==
  FileCount \in Nat /\ MaxSize \in Nat /\ MaxChunk \in Nat \ {0} /\ Capacity \in Nat \ {0}

VARIABLES
  current,    \* number of the file the task is at
  outcome,    \* what the task reported of each file before
  token,      \* is the cancellation token cancelled?
  user,       \* history: did the user cancel?
  promised,   \* size the receiver was told
  size,       \* size of the content that is there now
  dart,       \* "idle", or where upload() of http_upload.dart is
  reader,     \* "none", "opening", "reading" or "done": the task that reads a path
  read,       \* number of bytes taken from the source
  channel,    \* chunks between source and request
  client,     \* "idle", "sending", then "ok", "error" or "cancelled"
  wire,       \* chunks on the connection
  eof,        \* has the body ended?
  broken,     \* is the connection broken?
  server,     \* "reading", "result", "ok", "failing", "over" or "dropped"
  buffer,     \* chunks between handler and writer
  closed,     \* has the handler dropped its end of the buffer?
  writer,     \* "opening", "writing", "ok" or "error"
  disk,       \* what was written
  app,        \* "waiting", "ok" or "error": what respond_file_upload returns
  status,     \* status of the file in the session
  response    \* "none", "200" or "500"

task   == <<current, outcome, token, user>>
file   == <<promised, size>>
source == <<dart, reader, read>>
net    == <<wire, eof, broken>>
saving == <<buffer, closed>>
result == <<app, status, response>>
vars   == <<task, file, source, channel, client, net, server, saving, writer, disk, result>>

Bytes(first, last) == [i \in 1..(last - first + 1) |-> first + i - 1]

Quiet == client # "sending" /\ server \in {"over", "dropped"} /\ writer \in {"ok", "error"}

SourceClosed == dart \notin {"adding", "closing"} /\ reader \in {"none", "done"}

Init ==
  /\ current = 0 /\ outcome = <<>>
  /\ token = FALSE /\ user = FALSE
  /\ promised = 0 /\ size = 0
  /\ dart = "idle" /\ reader = "none" /\ read = 0
  /\ channel = <<>> /\ client = "ok"
  /\ wire = <<>> /\ eof = TRUE /\ broken = FALSE
  /\ server = "over" /\ buffer = <<>> /\ closed = TRUE
  /\ writer = "ok" /\ disk = <<>>
  /\ app = "ok" /\ status = "Finished" /\ response = "200"

-----------------------------------------------------------------------------
(* The task of the sender                                                  *)

\* The loop of the isolate takes the next file: bytes in memory through a
\* stream, or a path that Rust reads itself.  The file may have changed since
\* its size was promised.  After a cancel of the user the rest is left.
Start(fileSize, promise, inMemory) ==
  /\ dart = "idle" /\ current < FileCount /\ ~user /\ Quiet
  /\ current' = current + 1
  /\ promised' = promise /\ size' = fileSize
  /\ dart' = IF inMemory THEN "adding" ELSE "awaiting"
  /\ reader' = IF inMemory THEN "none" ELSE "opening"
  /\ read' = 0 /\ channel' = <<>> /\ client' = "sending"
  /\ wire' = <<>> /\ eof' = FALSE /\ broken' = FALSE
  /\ server' = "reading" /\ buffer' = <<>> /\ closed' = FALSE
  /\ writer' = "opening" /\ disk' = <<>>
  /\ app' = "waiting" /\ status' = "InProgress" /\ response' = "none"
  /\ UNCHANGED <<outcome, token, user>>

\* sink.add of the bytes in memory, which are one chunk.  An empty one is no
\* part of the body.
Add ==
  /\ dart = "adding" /\ client = "sending" /\ Len(channel) < Capacity
  /\ dart' = "closing"
  /\ channel' = IF size = 0 THEN channel ELSE Append(channel, Bytes(1, size))
  /\ read' = size
  /\ UNCHANGED <<task, file, reader, client, net, server, saving, writer, disk, result>>

\* The request is over before: add throws, and so does upload(), by way of
\* the handler for a source that fails, which cancels the token.
AddFails ==
  /\ dart = "adding" /\ client # "sending"
  /\ dart' = "failed"
  /\ token' = TRUE
  /\ UNCHANGED <<current, outcome, user, file, reader, read, channel, client, net, server, saving,
                 writer, disk, result>>

\* Mutant: the token is cancelled once the source is closed.
CloseCancels ==
  /\ dart = "closing"
  /\ dart' = "awaiting"
  /\ token' = TRUE
  /\ UNCHANGED <<current, outcome, user, file, reader, read, channel, client, net, server, saving,
                 writer, disk, result>>

Close ==
  /\ dart = "closing"
  /\ dart' = "awaiting"
  /\ UNCHANGED <<task, file, reader, read, channel, client, net, server, saving, writer, disk, result>>

\* The upload of the file ended.
Report ==
  /\ dart \in {"awaiting", "failed"} /\ client # "sending"
  /\ dart' = "idle"
  /\ outcome' = Append(outcome, client)
  /\ UNCHANGED <<current, token, user, file, reader, read, channel, client, net, server, saving,
                 writer, disk, result>>

\* HttpUploadCancelTask
UserCancels ==
  /\ dart # "idle" /\ ~user
  /\ token' = TRUE /\ user' = TRUE
  /\ UNCHANGED <<current, outcome, file, source, channel, client, net, server, saving, writer,
                 disk, result>>

-----------------------------------------------------------------------------
(* FileContent::into_receiver of a path                                    *)

Open ==
  /\ reader = "opening"
  /\ reader' \in {"reading", "done"}
  /\ UNCHANGED <<task, file, dart, read, channel, client, net, server, saving, writer, disk, result>>

\* read_file_into_sender: chunks until the end or an error of the file, or
\* until nobody listens.  All of them just close the channel.
ReadChunk(n) ==
  /\ reader = "reading" /\ client = "sending" /\ read + n <= size
  /\ Len(channel) < Capacity
  /\ channel' = Append(channel, Bytes(read + 1, read + n))
  /\ read' = read + n
  /\ UNCHANGED <<task, file, dart, reader, client, net, server, saving, writer, disk, result>>

EndRead ==
  /\ reader = "reading"
  /\ reader' = "done"
  /\ UNCHANGED <<task, file, dart, read, channel, client, net, server, saving, writer, disk, result>>

-----------------------------------------------------------------------------
(* The request of the client                                               *)

SendChunk ==
  /\ client = "sending" /\ channel # <<>> /\ ~broken /\ Len(wire) < Capacity
  /\ wire' = Append(wire, Head(channel))
  /\ channel' = Tail(channel)
  /\ UNCHANGED <<task, file, source, client, eof, broken, server, saving, writer, disk, result>>

EndBody ==
  /\ client = "sending" /\ channel = <<>> /\ SourceClosed /\ ~eof /\ ~broken
  /\ eof' = TRUE
  /\ UNCHANGED <<task, file, source, channel, client, wire, broken, server, saving, writer, disk, result>>

EndRequest(how) ==
  /\ client = "sending"
  /\ client' = how
  /\ channel' = <<>>
  /\ UNCHANGED <<task, file, source, wire, eof, server, saving, writer, disk, result>>

\* Mutant: any response is a success.
AnswerAnyStatus ==
  /\ ~broken /\ response # "none" /\ EndRequest("ok")
  /\ broken' = ~eof

\* Another status, or a certificate that is not valid, is an error.
Refused == response # "none" /\ EndRequest("error")

\* A response may come before the body is sent; the connection is closed then.
Answer ==
  /\ ~broken
  /\ \/ response = "200" /\ EndRequest("ok")
     \/ Refused
  /\ broken' = ~eof

ConnectionLost == broken /\ EndRequest("error") /\ UNCHANGED broken

\* The token wins the select; the request is dropped and with it its connection.
Cancelled == token /\ EndRequest("cancelled") /\ broken' = TRUE

Break ==
  /\ client = "sending" /\ ~broken
  /\ broken' = TRUE
  /\ UNCHANGED <<task, file, source, channel, client, wire, eof, server, saving, writer, disk, result>>

-----------------------------------------------------------------------------
(* The request on the receiver: save_req_to_target                         *)

WriterGone == writer \in {"ok", "error"}

\* A frame of the body goes to the writer.
Forward ==
  /\ server = "reading" /\ wire # <<>> /\ ~WriterGone /\ Len(buffer) < Capacity
  /\ buffer' = Append(buffer, Head(wire))
  /\ wire' = Tail(wire)
  /\ UNCHANGED <<task, file, source, channel, client, eof, broken, server, closed, writer, disk, result>>

\* Mutant: a writer that failed keeps its end of the buffer open.
ForwardFailsNever ==
  /\ server = "reading" /\ broken
  /\ server' = "failing" /\ closed' = TRUE
  /\ UNCHANGED <<task, file, source, channel, client, net, buffer, writer, disk, result>>

\* The writer is gone, or the body cannot be read.
ForwardFails ==
  /\ server = "reading"
  /\ (wire # <<>> /\ WriterGone) \/ broken
  /\ server' = "failing" /\ closed' = TRUE
  /\ UNCHANGED <<task, file, source, channel, client, net, buffer, writer, disk, result>>

EndOfBody ==
  /\ server = "reading" /\ wire = <<>> /\ eof
  /\ server' = "result" /\ closed' = TRUE
  /\ UNCHANGED <<task, file, source, channel, client, net, buffer, writer, disk, result>>

TakeResult ==
  /\ server = "result" /\ WriterGone
  /\ server' = IF writer = "ok" THEN "ok" ELSE "failing"
  /\ UNCHANGED <<task, file, source, channel, client, net, saving, writer, disk, result>>

\* UploadGuard::finish, then the response.
Finish ==
  /\ server \in {"ok", "failing"}
  /\ server' = "over"
  /\ status' = IF server = "ok" THEN "Finished" ELSE "Failed"
  /\ response' = IF server = "ok" THEN "200" ELSE "500"
  /\ UNCHANGED <<task, file, source, channel, client, net, saving, writer, disk, app>>

\* The future of the request is dropped with its connection.
DropRequest ==
  /\ broken /\ server \in {"reading", "result"}
  /\ server' = "dropped" /\ closed' = TRUE
  /\ status' = "Failed"
  /\ UNCHANGED <<task, file, source, channel, client, net, buffer, writer, disk, app, response>>

-----------------------------------------------------------------------------
(* The writer task: spawn_file_writer                                      *)

\* The result goes to the application and to the request.
EndWriter(how) ==
  /\ writer' = how
  /\ app' = how
  /\ UNCHANGED <<task, file, source, channel, client, net, server, closed, status, response>>

OpenFile ==
  \/ /\ writer = "opening" /\ writer' = "writing"
     /\ UNCHANGED <<task, file, source, channel, client, net, server, saving, disk, result>>
  \/ writer = "opening" /\ EndWriter("error") /\ UNCHANGED <<buffer, disk>>

\* More bytes than promised, or a write that fails, end the file.
WriteChunk ==
  /\ writer = "writing" /\ buffer # <<>>
  /\ buffer' = Tail(buffer)
  /\ \/ /\ Len(disk) + Len(Head(buffer)) <= promised
        /\ disk' = disk \o Head(buffer)
        /\ UNCHANGED <<task, file, source, channel, client, net, server, closed, writer, result>>
     \/ EndWriter("error") /\ UNCHANGED disk

\* Mutant: a short file is a success.
FlushShort ==
  /\ writer = "writing" /\ buffer = <<>> /\ closed
  /\ \/ EndWriter("ok")
     \/ EndWriter("error")
  /\ UNCHANGED <<buffer, disk>>

\* At the end of the file flushing may fail and bytes may be missing.
Flush ==
  /\ writer = "writing" /\ buffer = <<>> /\ closed
  /\ \/ Len(disk) = promised /\ EndWriter("ok")
     \/ EndWriter("error")
  /\ UNCHANGED <<buffer, disk>>

-----------------------------------------------------------------------------
Sizes == 0..MaxSize

Sender ==
  \/ Add \/ AddFails \/ Close \/ Report
  \/ Open \/ EndRead \/ \E n \in 1..MaxChunk : ReadChunk(n)
Request == SendChunk \/ EndBody \/ Answer \/ ConnectionLost \/ Cancelled
Receiver == Forward \/ ForwardFails \/ EndOfBody \/ TakeResult \/ Finish
Writer == OpenFile \/ WriteChunk \/ Flush
StartAny == \E s, p \in Sizes, m \in BOOLEAN : Start(s, p, m)

Next == StartAny \/ Sender \/ UserCancels \/ Request \/ Break \/ Receiver \/ DropRequest \/ Writer

Spec == Init /\ [][Next]_vars

\* Every task goes on while it can; nothing is assumed of the user, of the
\* connection, or of the moment a request is dropped.
FairSpec ==
  /\ Spec
  /\ WF_vars(StartAny) /\ WF_vars(Sender) /\ WF_vars(Request)
  /\ WF_vars(Receiver) /\ WF_vars(Writer)
-----------------------------------------------------------------------------
(* Properties                                                              *)

IsQueue(chunks) == chunks \in Seq(Seq(Nat)) /\ Len(chunks) <= Capacity

SequencesOK ==
  /\ IsQueue(channel) /\ IsQueue(wire) /\ IsQueue(buffer)
  /\ disk \in Seq(Nat) /\ outcome \in Seq({"ok", "error", "cancelled"})

FlagsOK == {token, user, eof, broken, closed} \subseteq BOOLEAN

TypeOK ==
  /\ SequencesOK /\ FlagsOK
  /\ current \in 0..FileCount
  /\ promised \in Sizes /\ size \in Sizes /\ read \in 0..size
  /\ dart \in {"idle", "adding", "closing", "awaiting", "failed"}
  /\ reader \in {"none", "opening", "reading", "done"}
  /\ client \in {"sending", "ok", "error", "cancelled"}
  /\ server \in {"reading", "result", "ok", "failing", "over", "dropped"}
  /\ writer \in {"opening", "writing", "ok", "error"}
  /\ app \in {"waiting", "ok", "error"}
  /\ status \in {"InProgress", "Finished", "Failed"} /\ response \in {"none", "200", "500"}

\* A sender that is told of success sent the promised bytes: they are on the
\* disk, in order, and the receiving application and its session know, though
\* a read error of the sender looks like the end of the file.
SuccessMeansSaved ==
  client = "ok" => /\ disk = Bytes(1, promised)
                   /\ app = "ok" /\ status = "Finished"

\* The application is told of success only when the disk holds the promised
\* bytes in order and none more, and the session disagrees only when the
\* connection broke behind the last one.
ApplicationAgrees ==
  app = "ok" => /\ disk = Bytes(1, promised)
                /\ status = "Failed" => broken

\* An upload that the user did not cancel ends as cancelled only when one of
\* the task before it ended without success: a failed file may take the rest of
\* the task along through the token they share (http_upload.dart,
\* upload_isolate.dart), a good one never does.
CancelledOnlyAfterTrouble ==
  \A i \in DOMAIN outcome :
    outcome[i] = "cancelled" => user \/ \E j \in 1..(i - 1) : outcome[j] # "ok"

\* The task comes to its end, and every file has a final result on both sides.
TaskEnds == <>[](dart = "idle" /\ Quiet /\ (current = FileCount \/ user))
=============================================================================
