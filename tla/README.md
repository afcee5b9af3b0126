# Hyperdrop: a TLA+ model of the transfer protocols

Hyperdrop is a fork of LocalSend: devices in one network find each other and
send files over HTTP (or WebRTC), and a device can offer files to web browsers.
This directory holds TLA+ modules for the parts of the code that several
requests, tasks or devices run through at once, the TLC configurations that
check them, and TLAPS proofs of what must hold for every number of requests.

Paths: `core/` is `src/native/packages/core/src/`, `isolates/` is
`src/native/packages/localsend_isolates/`, `v2.rs`, `v3.rs`, `web.rs`, `mod.rs`
and `internal.rs` alone are those of `core/http/server/`.

## 1. The system

| Component | Where | State | Operations | Modelled in |
|---|---|---|---|---|
| v2 upload server | `v2.rs`, `common/session.rs` | one session slot (`Mutex<Option<SessionStateV2>>`), file states, event channel | prepare-upload, upload, cancel; cleanup on drop; register, info | `UploadServer`, `HttpCalls` |
| Server and its handle | `mod.rs` | listeners, accept loops, connections, stop channel | start, accept, `cancel_v2_session`, stop | `ServerLifecycle`, `UploadServer` |
| PIN check | `common/pin.rs` | LRU cache of failed attempts per address | `check_pin` | `PinAttempts` |
| Web send server | `web.rs` | sessions by client address, event channel | prepare-download, download; cleanup on drop | `WebSend` |
| Saving of bodies | `common/save.rs`, `core/model/transfer.rs` | writer task, reader task, channels | open, read, forward, write, flush, report | `FileUpload` |
| v3 nonces and registration | `v3.rs`, `core/http/client/v3.rs` | two LRU caches at each end | nonce exchange, register | `NonceExchange`, `HttpCalls` |
| Identities | `core/crypto/`, `common/client_cert_verifier.rs` | none | certificate check, token check | `Identity` |
| Show endpoint | `internal.rs` | event channel | show | `HttpCalls` |
| HTTP client | `core/http/client/` | cancellation token | every call of both versions | `HttpCalls`, `FileUpload`, `WebSend`, `NonceExchange` |
| Bridge to Dart | `isolates/rust/src/api/` | responders of unanswered events, the server's handle | listen, respond, reject, cancel, stop | `ServerBridge`, `WebSend`, `ServerLifecycle` |
| Upload task, server service | `isolates/lib/src/` | cancellation tokens by task, the running server | upload, cancel, start, stop | `FileUpload`, `ServerLifecycle` |
| Signaling server | `src/signaling/src/controller/ws_controller.rs` | peers of an IP group and their message queues | join, update, offer, answer, leave, limits | `Signaling` |
| Signaling client | `core/webrtc/signaling.rs` | answer callbacks, one-message channels | connect, listen, send offer, on answer | `SignalingClient` |
| WebRTC transfer | `core/webrtc/webrtc.rs` | a task at each peer | nonces, tokens, PINs, file list, chunks, statuses | `RtcTransfer` |
| Dart receive, web send and send controllers | `src/native/app/lib/provider/network/` | sessions of the application | | not modelled |
| Discovery, persistence, UI, platform code | rest of `src/native/` | | I/O, layout | not modelled |

How they interact: the HTTP server of the core runs one task per connection.
A prepare-upload or download request sends an event with a one-shot responder
over a bounded channel and waits for the answer. The bridge receives the event,
keeps the responder in a map and forwards the event to Dart; Dart answers by
calling the bridge. The session slot is shared by all requests of all senders.
The future of a request is dropped at whatever `await` it stands when the peer
disconnects or the server stops, and guards spawn cleanup tasks on drop. A body
goes from the sender's disk through a reader task, a channel and a request to
the handler of the receiver, which forwards it to a writer task. Two WebRTC
peers meet through the signaling server and then talk to each other alone.

What is hard here: every `await` is an interleaving point between requests of
the same and of different senders; cleanup runs later, as a task of its own,
against a slot that carries no owner; the channels are bounded, so reporting
may block after the state already changed; decisions of the user carry no
session id and arrive long after the request they answer may have ended; the
end of a channel, of a body and of a connection look alike; a caller may be told
of a failure of something that succeeded.

What makes each component correct:

* upload server: one transfer at a time, no cleanup touches the claim of
  another request, a token admits one upload, file states match what their
  uploads did, each end is reported once, claims and files are released;
* PIN check: three guesses between successes;
* web send: a client downloads only after the application accepted it, a saved
  file is whole, an accepted client has a session;
* bridge: an answer reaches the request the user was asked about, and every
  request that waits is answered or ends;
* lifecycle: a stop releases the port and the connections and returns, and no
  server runs that nobody can stop;
* bodies: success at either end means that the promised bytes are on the disk;
* HTTP calls: what a caller is told agrees with what happened at the server;
* nonces: both ends hold the nonces of the same exchange;
* signaling: what a peer believes about its group converges to the group; its
  client shows every message once and in order;
* WebRTC: files arrive only after token and PIN checks of both sides, the peers
  stay in step, a status is about its file.

`PROJECT.json` lists the hazards of the code with their lines.


## 2. The modules

| Module | What it models | Composes |
|---|---|---|
| `PinAttempts` | `check_pin` and its LRU cache | |
| `UploadServer` | prepare-upload, upload, cancel, the application's side | EXTENDS `PinAttempts` |
| `TransferSlot` | what the receiver promises, without requests or locks | refined by `UploadServer` |
| `ServerBridge` | the bridge's responders between the server's requests and Dart | a smaller form of `UploadServer` |
| `WebSend` | prepare-download and download: browser or client, server, bridge, bytes | EXTENDS `PinAttempts` |
| `ServerLifecycle` | start, accept loops, connections and stop | |
| `FileUpload` | a task's files from source to disk, with cancel and I/O errors | |
| `Identity` | certificates and signed tokens | |
| `NonceExchange` | the caches of both ends of the v3 nonce exchange | EXTENDS `Identity` |
| `HttpCalls` | calls of both versions, routes, handlers, results | EXTENDS `Identity` |
| `Signaling` | connections, queues and views of one IP group | |
| `SignalingClient` | the client's tasks and channels, offers and answers | |
| `RtcTransfer` | both peers of a WebRTC transfer | EXTENDS `Identity` |
| `MC...` | instances for TLC | EXTEND the module they are about |
| `PinAttemptsProofs`, `UploadServerProofs`, `WebSendProofs`, `ServerBridgeProofs`, `RtcTransferProofs` | lemmas and theorems | EXTEND the module they are about |
| `IsolateProofs` | lemmas and theorems | EXTENDS `FileUpload`, `ServerLifecycle` |
| `SignalingProofs` | lemmas and theorems, both ends | EXTENDS `Signaling`, `SignalingClient` |
| `HttpProofs` | lemmas and theorems | EXTENDS `HttpCalls`, `NonceExchange` |

Two modules that share a module of proofs have different names for their state
and steps. That is why those of `SignalingClient` are called `Client...`, those
of `ServerLifecycle` `Service...`, and those of `NonceExchange` `Exchange...`
(with `phase` and `secure` where other modules say `pc` and `tls`).

### State and steps

**Requests are processes.** `hyper` runs a task per connection and a request is
a future in it. A process is an element of a constant set (`Requests`,
`Uploads`, `Cancels`, `Downloads`, `Calls`, `Exchanges`) with a control point
(`reqPc`, `upPc`, ...). A step is the code between two awaits. A critical section
of the session mutex contains no await, so taking the lock, working and
releasing is one step, and the control point before it is the await of the
lock. Each such await is a place where other requests run. Tasks and the two
ends of a channel are processes in the same sense.

**Drops.** A future may be dropped at every await: the peer hangs up, or the
server stops. `DropPrepare`, `DropUpload`, `DropCancel`, `DropRequest` and
`DropDownload` take a request from each of its awaits to where the code leaves
it. Where a guard is armed, its `Drop` spawns a cleanup task, which nobody
cancels ("cleanup", "notify", "taskEnd"). Where no guard is armed, the request
simply vanishes ("leaked", "stuck", "lost"). `UnguardedDrops` says whether the
second kind may happen: safety runs allow it, the liveness run does not.

**The session slot.** `slot` is `None`, `Pending` or the active session. A
prepare-upload makes a fresh session id, so a request names its session too,
and the token of file `f` is `<<r, f>>`. `files` are the states of the files of
the active session; `NoFiles` stands for the dropped `UploadSessionV2`.

**Channels.** An event channel is a sequence of at most `Capacity` events, and
a sender waits for room. A one-shot responder is a value (`decision`, `target`)
plus membership in a set while the application holds it; answering a request
that has ended has no effect. `AppClose` drops the receiver and every
responder, the queued ones included.

**The application** is unconstrained: it may answer, decline, drop a responder,
name files that were not offered, cancel the session or leave at any time.

**PIN check.** It runs under its mutex without an await: one step at the head of
`PrepareArrive`. The cache is a sequence, the least recently used first;
`LruCache::get` and `put` move an entry to the end. `wrong` is a history variable.

**The bridge.** `Listen` takes an event from the channel and keeps its
responder; `pendingDecision` holds one, a newer request replaces it.
`respond_prepare_upload` takes whatever is there. `cancel_session` is two steps:
it clears the server's slot, then drops the responders. In `WebSend` the
bridge keys the responders of prepare-download by the session, which is the
client's address, and those of downloads by session and file, and drops the
one it replaces.

**Web sessions** are keyed by the address of the client (the code uses it as the
session id), so requests of one client share an entry; each process has one
client for life (`from`). A request the PIN check refuses leaves only its
attempt, and its process stands for the client's next request. A download
streams chunks until its source ends, short or whole, and the client compares
what it wrote with the size it expects.

**Lifecycle.** A start is a task of the isolate: `CallStart` checks `_server`,
`Bind` opens the listeners, `ReturnStart` stores the server. A stop takes
`_server` out, signals the task and waits for it; the task cancels and awaits
all connections. The IPv6 listener is optional, an accept error ends the task.

**Bodies.** The byte at position i of a file is the number i, so that lost,
doubled or reordered bytes show. The path is source, channel, wire, buffer,
disk. A read error closes the channel just as the end of the file does. All
files of a task share one cancellation token, which a failed file may cancel.

**Identities.** A key names a key pair, a hash is the pair of its arguments and
a signature names its signer and what was signed. `VerifyCert` and
`VerifyTokenNonce` are the checks in the order of the code.

**Nonce exchange.** Each end keeps a cache of received and one of generated
nonces under the name it knows the other by: the key of its certificate, or its
address without TLS (several clients may share one). The server holds the first
lock while it awaits the second (`holder`). Histories: `halves`, requests dropped
between the writes, and `disturbed`, calls that overlapped or lost their entry.

**HTTP calls.** A call goes to the device that is at the address when it
arrives (`at` may change at any time), through the route table and the handler,
which may wait for a decision or for room in an event channel, and back. The
client checks the certificate of who answered after it sent its payload, then
the status, then the body. A call may fail on the way in either direction.

**Signaling.** A connection runs `Enter` (limits, snapshot and entry under the
lock), `SendNext` (one Join per member), `Greet` (its own Hello), and only then
its queue is drained (`Deliver`) and its socket read (`UpdateInfo`, `SendSdp`,
`Throttle`), by a task that tells others by itself (`Relay`). It ends when that
task does (`Disconnect`, `Throttle`) or when the draining task fails to write
(`DrainFails`), followed by `Leave` and one Left per remaining member. In the
last case the reading task is aborted, which on the multi-threaded runtime stops
it only where it waits: it may read and tell more until `Abort`, also beside the
handler's Left and after it. A sender that finds a full queue waits; a closed
queue refuses at once. `view` is what a client makes of the messages it was sent;
`early` and `belated` are history variables: whose messages were queued at p
before its Hello, and whose Update after their Left. Offers and answers
keep only their effect on the queues.

**Signaling client.** A message passes four hands: socket, reading task
(`reader`), `receive_tx` with room for one (`slot`), listener, application.
`connect` waits for Hello. `SendOffer` and `OnAnswer` are two steps: the callback
is registered after the offer left.

**WebRTC transfer.** Each peer is a task with a control point; `inbox` is the
data channel, reliable and ordered. The steps are nonces, tokens (signed over
both nonces), the receiver's PIN, the sender's PIN, the list, the selection,
then for each file a header and chunks. A file ends with the header of the next
or with the delimiter. Statuses come back while later files are being sent.
The receiving application may drop its controller (`Desert`): then files end as
failed without a report, and a chunk for a stream it dropped ends the task.
Each peer's function also waits for the loss of the connection; its task then
goes on by itself.

## 3. The runs

| Run | Instance | What it shows |
|---|---|---|
| `upload_server` | 2 prepare-uploads, 2 uploads, 1 cancel, 2 files, 2 addresses, channel of 1 | safety of the slot, the tokens, the files and the reports; every step is a step of `TransferSlot` or a stutter |
| `upload_server_fair` | 2 prepare-uploads, 1 upload, 1 cancel, a PIN, guarded drops | claims are released, uploads end, ends are reported |
| `server_bridge` | 2 sessions of 1 file, channel of 1 | responders are there when they are asked for, answers go astray only from dead requests, every request is answered or ends |
| `web_send` | 2 prepare-downloads, 2 downloads, 2 clients, a right and a wrong PIN | safety of the shared sessions and of the PIN limit; a saved file is whole |
| `web_send_list` | 2 requests of 1 client | an accepted client without a session (section 5) |
| `server_lifecycle` | 2 starts, 2 stops, 2 connections, 2 ports | a stop releases what it stops and returns; no orphans unless starts overlap |
| `file_upload` | 2 files of up to 3 bytes, chunks of up to 2, channels of 1 | success means saved at both ends; a task ends |
| `nonce_exchange` | 4 exchanges of 3 clients, 2 at one address, caches of 2, 1 restart | nonces of one exchange stay together, at each end and between the ends |
| `http_calls` | 2 calls, 2 devices, channels of 1, with TLS and without | a refused caller leaves no session, an answered one was heard, every call returns |
| `signaling` | 3 peers, 2 values of information, queues of 2, 1 request per hour, 2 clearings | views agree with the group, up to the races of Hello and of an aborted reading task; greeting, unless an undrained queue runs full |
| `signaling_client` | 2 offers, 2 further messages, listener channel of 2 | messages are shown once and in order; connect and answers arrive, with two named exceptions |
| `rtc_transfer` | 2 files of 1 chunk, up to 2 chunks sent, 2 PINs, 2 tries | no file before tokens and PINs, peers in step, statuses about their files; a function returns unless the other failed and left the connection open (section 5) |

Every property has a mutant in `PROJECT.json`: a definition changed the way a
plausible bug would change it (most stand beside the original, marked "Mutant"),
under which the run finds the property violated. The type invariants
are proved as theorems (that of `NonceExchange`, `ExchangeTypeOK`, within
`PairsStay`), so no run spends its time on them.

Why the bounds are enough. The slot is one, and every conflict about it is
between the request that has it and one that wants it or had it; an old and a
new session with the same file ids need two of each. Two uploads of one file
compete for its token, and with one file each they race to end the session; the
cancel joins that race. A channel of one event is full as soon as one event
waits, which is the interesting case of the real capacity (16). Two sessions at
the bridge are an old one whose events and answers are late and the one they may
hit. Two prepare-downloads of one client are an older and a newer request, two
clients move entries in the PIN cache; refused requests repeat, so the PIN limit
is reached. For `GuessesBounded` the cache must have room for all clients: with
more clients than entries `LruCache` evicts a blocked client, which the code
accepts. Two starts and two stops overlap in every way, on one port or on two.
Files of up to three bytes in chunks of one and two can be empty, shorter or
longer than promised, and fill channels of one chunk. Four exchanges overlap
under one name while a third client evicts an entry. Two calls and two devices
make one call change what the other finds, and the address move under a call.
Three peers let one join and one leave while a third is being greeted, and
queues of two fill up; three requests in all let one of two members update and
its reading task run on after an abort. An update among three members, some told
and some not, is beyond this run: the three safety properties are proved for all
numbers of peers and requests (section 4). Two messages ahead of Hello are what blocks the client.
With two files the chunks and statuses of one can be taken for the other's; two
chunks for a file of one make it oversized.

Bounds in guards: `MAX_REQUESTS` (a real limit, 1000 in the code), `Hours`
(clearings of the counts, only in `Signaling`), `MaxOthers` (messages of the
signaling server besides Hello and answers), `MaxChunks` (chunks an application
gives for a file), `MaxSize` and `MaxChunk` (`FileUpload`), `MaxRestarts`
(`NonceExchange`), and the finite sets of processes. `MAX_PIN_ATTEMPTS` is the
code's 3. No other counter needs a bound.

All runs disable the deadlock check: processes are finite in number and every
one of them ends, so a state in which all have ended is legal. That nobody waits
for ever is what the liveness properties check.

Symmetry is used in safety runs only (`upload_server`, `web_send`). No
definition names an element of the permuted sets.

### Fairness

`upload_server_fair` assumes weak fairness of the steps of every request, of the
cleanup tasks and of the application's reading and answering. The runtime polls
every future that can run; the lock is only held between awaits; the
application drains the event stream in a loop, and a dialog ends with an answer
or by being closed. Nothing is assumed about senders: no upload or cancel has to
arrive, and any request may be dropped where a guard is armed. A body that
arrives slowly for ever is excluded by the fairness of `SaveBody`: the transport
is assumed to fail in the end.

`server_bridge` assumes the same of the server's requests, of the loop of
`listen`, and of an application that takes its events and answers each question
once. `RequestsAnswered` is not what this fairness says: the answer may find no
responder, and a session that ended is never answered at all.

`signaling` assumes that handlers and draining tasks run and that sockets of
connected clients accept what is written; it assumes nothing about clients
joining or leaving. `GreetedUnlessOverrun` names the exception found while
checking the unconditional form: a queue that belongs to a connection which is
not greeted yet is drained by nobody, so once it is full, everybody who writes to
it waits, its own handler included.

`signaling_client` assumes that its tasks run and that the application returns
from its callback and takes what it is shown; nothing is assumed of the server,
which need not greet, answer or stay. `server_lifecycle` assumes that tasks run
and that a connection whose future is cancelled is dropped; nobody has to start,
stop or connect. `file_upload` assumes that tasks go on while they can; nothing
is assumed of the user, of the connection, which may break at any time, or of
the moment a request is dropped. `rtc_transfer` assumes that both tasks run,
that users answer a PIN prompt and a file list, and that the application reports
on each file or drops its controller; nothing of the network. `http_calls` assumes that requests arrive
or fail, that handlers run and that applications take their events and decide.
The safety runs (`upload_server`, `web_send`, `nonce_exchange`) assume nothing.

## 4. The proofs

Assumptions: only the named ones of the modules. `None` and `Pending` are not
sessions, capacities are positive, `NoPin` is not a PIN. The sets of requests,
files, addresses, starts, ports and connections are arbitrary, finite or not;
`PinLimit` alone assumes more (`RoomForAll`).

**`TypeCorrect`: `Spec => []TypeOK`.** One lemma per group of actions
(`PrepareTypeOK`, `UploadTypeOK`, `CancelTypeOK`, `AppTypeOK`), with one step
per action. Two things make it more than bookkeeping. The PIN cache is a
sequence that entries move in: `PinAttemptsProofs` shows that removal and
insertion keep it a sequence with one entry per address and within capacity
(`WithoutProperties`, `PutProperties`, `CheckPinTypeOK`). And an upload that
runs reads `upFile[u][1]` as a session, so `TypeOK` has the conjunct
`RequestsNamed`: whoever was let in names a session and a file. Without it
`Finalize` could write `ended` outside its domain and the type invariant would
not be inductive.

**`OneOwner`: `Spec => []PendingHasOneOwner`.** The mark in the slot carries no
id, yet each guard frees it as if it were its own. The argument: `Owners` are
the requests that hold a claim, also through a spawned task. `NextSlotStep`
shows that every step of the system is a `SlotStep`, one of five ways to change
slot and owners together: `Claim` (only an empty slot), `Release` and `Occupy`
(only by an owner), `Vacate` (an active session ends) and `Keep`.
`OneOwnerInductive` then is a short argument about `SlotStep` alone.

**`NeverReplaced`: `Spec => SessionNeverReplaced`.** The unconditional write of
the accepted session (`v2.rs:298`) is safe: it follows from `SlotStep` and
`OneOwner`, since only an owner occupies the slot and while there is an owner
the slot is `Pending`.

**`TokenOnce`: `Spec => []TokenUsedOnce`.** Not inductive alone: nothing in it
keeps a file of the active session pending once it has an upload. `TokenInv`
adds that (`UntouchedHaveNoUpload`), and that sessions in the slot and in uploads
belong to requests that created them (`SessionsCreated`), so that a session that
begins is new and has no uploads. `NextTokenStep` shows that every step admits
one upload to a pending file of the active session (`Admit`), begins a session
(`Begin`) or does neither and makes no file pending again (`Progress`);
`TokenInductive` then needs no action of the server. The proof uses neither the
sender check nor the token: the `InProgress` mark set under the lock
(`v2.rs:354`) and sessions that begin once are what make a token good for one
upload.

**`FilesTellUploads`: `Spec => []FileStatusMatchesUploads`.** Over `TokenInv`. An
unfinished upload of the session in the slot is the only one of its file, and
that file is in progress (`UnfinishedInProgress`); so `finalize_file` changes the
file of its own upload and no other, and the upload of an earlier session, whose
session is not in the slot, changes none (`FinalizeKeepsFiles`). All other steps
keep what uploads have done (`OutcomeKept`), admit one to a pending file, or begin
a session that has no uploads.

**`EndReportedOnce`: `Spec => []SessionEndReportedOnce`.** `EndInv` says the same
without counting (`OneReport`), and that a session has not ended while it is in
the slot or before it is created: that is what keeps an end from being
overwritten. Every step ends the session in the slot and becomes its reporter,
ends it for the application and has none, reports, or does nothing of the kind
(`NextEndStep`); `EndInductive` is about these four. A dropped reporter keeps its
place (control point "lost"): the theorem says that an end is never reported
twice or by nobody responsible, `SessionEndDelivered` that it is reported.

**`Implements`: `Spec => ImplementsTransferSlot`.** `SlotInv` is the conjunction of
the invariants above with `Granted`: a request goes on to activate its session
only with files granted. Under it the alternatives of `PhaseOf` exclude each
other (`PhaseTable`), so the phase of a session is read from its owner, the slot,
the way it ended or its request. `ClaimSlot` maps to `Offer`, `CreateSession` to
`Begin`, `RefuseRequest` and `CleanupPending` to `Refuse`, an allowed upload to
`Take`, `finalize_file` to `Settle` or `SettleLast`, both cancels to
`CancelRunning`, and everything else to a stutter (`NextImplements`).

**`PinLimit`: `RoomForAll` implies `Spec => []GuessesBounded` (`WebSend`).**
`RoomForAll` says that there are finitely many clients and that the cache has an
entry for each: with more, `LruCache` forgets a blocked client. The invariant is
`Remembered`: whoever guessed wrong has an entry that counts at least as much.
It rests on two facts about the sequence the cache is: removing one entry keeps
all others (`WithoutProperties`), and, because entries have different addresses,
without the entry of the client at hand there is room for one more
(`RoomForOneMore`, by counting), so that nothing is evicted.

**`OnlyAcceptedDownload`, `PendingNotLeftBehind`, `SavedIsWhole` (`WebSend`).**
`WebInv` is their conjunction with what they need. That a decision once given
stays (else a client could be admitted on an answer that was taken back) needs
that a responder is in one place, in the channel or at the bridge (`AskedOnce`),
and that it is unused there (`Unanswered`). That a pending session has its
request needs that the request which entered it is one of the same client
(`LatestOwn`): its last step then clears or accepts that very entry. Most steps
move one request or one download and touch nothing shared; `QuietRequest` and
`QuietDownload` say once what such a step preserves.

**`AskedCanBeAnswered`, `OnlyDeadLoseResponder`, `AnswersStrayFromDead`
(`ServerBridge`).** `BridgeInv` follows an event on its way from the request over
the channel and the stream to the dialog: it is in one place (`PlacedOnce`), what
it tells has happened (`EventsTrue`), and the slot belongs to one request
(`SlotOfOne`). Hence, while a request asks, no event of another one can be behind
its own: whoever enters the slot next does so after the first is over. That is
why the single place for a responder is enough for every request that still
asks (`ResponderKept`), although nothing in the code compares sessions. For
uploads, `TargetKept` says that the responder is at the bridge from the moment
the application can see the event, as long as the session lives and nobody
cancelled it: `SessionEnd` is sent only when the slot was cleared.

**`NoServerOrphaned`, `StopReleases` (`ServerLifecycle`).** `NoOrphan` alone is not
inductive: when a start returns and replaces the kept server, it must be known
that the replaced one overlapped (`OverlapsRecorded`), and when a stop takes the
kept server without waiting for it, that it has been there to be stopped
(`KeptCanBeStopped`). `StopMeansReleased` follows from the order of a stop
(`StopsInOrder`) and from the fact that a task that ended has no connections
(`ConnectionsServed`).

**`SuccessIsSaved`, `ApplicationKnows`, `GoodFilesCancelNone` (`FileUpload`).** The
bytes are in four places at once: on the disk, in the writer's buffer, on the
wire and in the reader's channel. `StreamInv` says that these follow each other:
the disk holds a prefix of the file and each further place continues the one
before, chunk by chunk (`InOrder`, with the positions at which chunks end as its
witness). Only `ReceiverInv` makes that useful: it lists what handler, writer and
application know of each other, so that a success the sender hears of (`200`)
means that the writer closed a file of the promised length and that the body had
ended. `TokenInv` tells who may have cancelled the shared token: the user, or a
file whose failure is recorded in `outcome` or about to be.

**`FilesAfterPins` (`RtcTransfer`).** `Knows`: what a side has verified and been
shown, by its control point and by the messages that are still on their way to
the other; a reply "ok" in an inbox is as good as the state of who sent it.

**`SidesInStep` (`RtcTransfer`).** By `Agreed`, at most one side has something to
do: whoever is about to send finds the other waiting at the point where that
message is expected, with an empty inbox (`SenderTurns`, `ReceiverTurns`), or
dead. The network may cut an inbox short or clear it at any time, which keeps
`Waiting`. The hypotheses of the property are needed: an empty PIN of the
receiver and a limit of zero tries break the turns.

**`StatusTellsOfItsFile` (`RtcTransfer`).** From the selection on the sender runs
ahead of the receiver, so turns no longer help. `Streams`, `Reported` and
`StreamOrder` say instead that what was read and what is in the inbox are one
sequence in which each chunk follows the chunk before it or the header of its file,
no header comes twice, and nothing follows the delimiter. `OfferInv` provides the
start: no data is on its way while the offer or the selection still is. All of
this is claimed while no file had too many bytes (`oversized = {}`), which is the
exception the property names.

**`MembersKnow`, `GhostsGo`, `InfoStaysCurrent` (`Signaling`).** The views are never
equal to the group, so the invariant is about what is on its way. `AllPutRight`:
whenever a view, a queued message or the list a joining peer has taken says
something outdated, its remedy (`Update` for a member, `Left` for one who is
gone) stands behind it in the queue or is still to be sent to that peer, or one of
that peer's messages overtook Hello or followed its Left. "Behind" matters: a remedy in front of a
stale message would be undone by it. `AllHeard` is what replaces `MembersKnown`:
of two members each is in the other's view, in its list, in its queue, its Join is
still to be sent, or the other's connection is closing. `Senders`, `Relays` and `Clients` bound who may be sending what,
which keeps the remedies of one peer in the order it sent them: a handler and a
reading task of one peer may send at once, but the Update that the latter has in
hand is always the last one (`RelaysOf`).

**`ClientShowsInOrder` (`SignalingClient`).** `OrderInv`: what the server sent is
what was shown, what stands in the client's five places and what is in the
socket, joined in this order, followed by what the end of the connection cut off.
Each task moves one message from one place to the next, which changes none of it
(`HeadMoves`, `HandMoves`).

**`PairsStay`, `EndsHoldTheSame` (`NonceExchange`).** That the two caches hold the same
pairs is not inductive. After a request was dropped between its puts, an entry is
in one cache only and the caches evict different names. `PairInv` claims the
order that survives this: an entry of `received` which is no half one has its
partner in `generated`, and every name newer than the partner there is newer than
the entry here as well. So the partner is no nearer to its eviction; that the one
cache evicts it implies, by counting names (`CacheSize` of them are newer), that
the other does. `LockInv` holds the two locks, `UndisturbedInv` that exchanges
under one name which overlap are recorded as disturbed, and that of all others the
server keeps the entry until the client has it. Clients, exchanges and restarts
are any number, and the capacity any positive one; the 200 of the code plays no
part.

**`RefusedHaveNoSession`, `AnsweredIsDelivered` (`HttpCalls`).** Both properties speak of
what a caller got; `CallInv` follows each call through its handler. `SlotOf`: a
slot is claimed by a handler that runs on that device and will offer, or holds
the session of a call answered with 200. `ResultOf`: a result that names a refusal
comes from a reply other than 200. `ReplyOf`: a reply of success to a call that has
to tell the application means that it was told, as long as it is there. A step of
one call preserves these for the others when it takes no claim of theirs away and
forgets nothing that was told (`StepOfCall`); an application that takes an event
moves it from the channel to what it has seen. That `cancel` names only sessions a
v2 server granted (`RequestOf`) is needed: where v2 is off it would be answered
404, which the client returns as success.

**Model-checked only.** Liveness: `ClaimReleased`, `UploadsEnd` and the other
properties of the runs that say that something happens under fairness; the prover
has no rule for fairness or `ENABLED`. Every invariant and every action property
of the passing runs is proved. `ListMeansSession` is violated (section 5).

## 5. Where code and comments disagree, and what else the models showed

Checked by a run:

* **A list without a session** (`web_send_list`). A dropped or undecided older
  request of a client removes the pending session of its newer one; accepted, the
  newer one gets the list, and its downloads get 403. `web.rs:235` says "a new
  request replaces any previous session of this client".

Against a comment, seen in the models but without a run of their own:

* **A leaked claim.** `PendingSessionGuard::clear` disarms the guard and then
  awaits the lock (`v2.rs:477`). A request dropped there leaves the slot claimed,
  although the guard exists "so the slot is not leaked" (`v2.rs:452`). The control
  point "leaked" of `UploadServer`.
* **A stuck file.** `UploadGuard::finish` does the same with its file
  (`v2.rs:530`, comment at 511). The control point "stuck".
* **A lost end of a session.** `cancel` clears the slot before it awaits room for
  the event (`v2.rs:414`); dropped there, the application is never told.
* **An answer for the newer session.** The session is looked up by address after
  the decision, so the answer to an older request accepts the entry of a newer
  one of the same client (`web.rs:277`).
* **Hello is not first.** Messages of others overtake "the initial message"
  (`webrtc/signaling.rs:22`), and two of them block the client's start
  (`SignalingClient`).
* **"Connection is closed."** The comments on the statuses `TooManyAttempts` and
  `Error` say so (`core/webrtc/webrtc.rs:151`, `163`). A task reports the first
  and returns an error after it; the second is reported for every error that
  `send_offer` or `accept_offer` returns (`isolates/rust/src/api/webrtc.rs:130`,
  `209`). But both return it before they come to the close
  (`core/webrtc/webrtc.rs:608`, `1054`): the connection stays open, and the other side's function, which waits
  for a message or for the end of the connection, may wait for ever.
  `EndsUnlessLeftOpen` names this case; without it, `rtc_transfer` is violated by
  a sender that rejects the receiver's token while the receiver waits for a PIN.
* **The next file is not uploaded.** `upload_isolate.dart:80` says of a failed
  file "The next file is still uploaded", but all files share one cancellation
  token, which a failure may have cancelled.
* **"Their requests already ended"** (`isolates/rust/src/api/server.rs:292`) is
  false when the sender cancels: its uploads may still wait for a target. They
  then end because their responder is dropped.
* **Until stopped.** The event stream goes on after `stop`
  (`isolates/rust/src/api/server.rs:206`) until the server object is dropped.
* **Not wired up?** `v3.rs:52` says so of a route that `mod.rs:468` serves.

Behaviour a reader may not expect, without a comment that denies it:

* Starts that overlap on different ports leave a server that nobody can stop
  (`ServerLifecycle`, `overlapped`). A second stop that overlaps the first
  returns at once. An accept error of the IPv4 listener ends the server
  silently, and starts are refused until somebody stops it.
* The bridge's `cancel_session` between the acceptance and the activation of a
  session has no effect.
* A caller whose accepted prepare-upload response is lost, or whose certificate
  check fails, leaves a session behind, and others get 409 until it is cancelled
  or finished. The payload is sent before the certificate is checked.
* v3 `prepare-upload`, `upload` and `cancel` of the client have no route at the
  server (404), and the client's `cancel` does not look at the status. A v2
  `cancel` without a session id does nothing.
* A cancelled upload task may report `cancelled` for files that were saved.
* A client may keep a peer that left in its list: when the peer's messages
  overtook its Hello, or when an Update of the peer's aborted reading task followed
  the Left (`Signaling`, `early` and `belated`).
* Nonce exchanges that overlap under one name may leave the ends with nonces of
  different exchanges; `EndsAgree` says when. No code reads them yet.

## 6. Not modelled

* *Inside a step:* HTTP parsing, TLS, routing details, JSON, file and socket I/O,
  SHA-256, signatures. A step takes their result as success or failure. File
  ids, addresses, names and keys are members of small sets. Query parameters
  are taken as they were meant; their encoding is not modelled.
* *Tokens:* the format and its parsing. Timestamp tokens are made, but only tests
  verify them.
* *WebRTC:* ICE and SDP, the branch of a sender that answers an offer to pair (no
  receiver of this code makes one), and the division of long strings into
  messages.
* *Dart application:* the receive, web send and send controllers. The first two
  are older implementations of what the Rust server does; the third keeps the
  sessions of the sending side above the modelled calls.
* Discovery, persistence, user interface, platform code and generated code: no
  shared state that several parties change, or nothing TLC could say about it.
* Memory ordering is not an issue: shared state is behind mutexes.

## 7. What could follow

1. `SendSession`: the send provider of the application over `HttpCalls` and
   `FileUpload`, with cancels while a call waits.
2. Two devices: `FileUpload` with several uploads over `TransferSlot`.
3. Proofs: the places where an exception is named (`early`, `belated`,
   `oversized`, `disturbed`, `overlapped`) could be narrowed to the shortest history that
   needs it, and `TransferSlot` could get theorems of its own, which `Implements`
   then carries over to `UploadServer`.
