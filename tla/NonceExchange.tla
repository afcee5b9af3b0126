---------------------------- MODULE NonceExchange ----------------------------
(***************************************************************************)
(* The nonce exchange of the v3 protocol: LsHttpClientV3::nonce            *)
(* (http/client/v3.rs) against nonce_exchange (http/server/v3.rs).         *)
(*                                                                         *)
(* Each end keeps two LRU caches, of the nonces it received and of those   *)
(* it generated, under the name it knows the other by: the key of its      *)
(* certificate, or its address without TLS.  Both are written one after    *)
(* the other, each under a lock of its own; the first lock is held to the  *)
(* end, and the second is awaited under it.                                *)
(*                                                                         *)
(* A nonce is named by the exchange it was generated in: what the client   *)
(* generated, and what the server did, is told apart by the cache.  Nobody *)
(* reads the caches yet; a token is to be checked against them.            *)
(***************************************************************************)
EXTENDS Identity, Sequences, FiniteSets, SequencesExt

CONSTANTS
  Exchanges,   \* calls of LsHttpClientV3::nonce
  Clients,
  ClientOf,    \* the client of an exchange
  IpOf,        \* the address of a client; several may share one
  Server,      \* the server's key
  Lengths,     \* lengths of the nonces clients send
  CacheSize,   \* entries of a cache: 200 in the code
  MaxRestarts, \* bound: restarts of the server
  NoExchange   \* no exchange

ASSUME ExchangeAssumption ==
  /\ ClientOf \in [Exchanges -> Clients] /\ DOMAIN IpOf = Clients
  /\ NoExchange \notin Exchanges
  /\ CacheSize \in Nat \ {0} /\ Lengths \subseteq Nat /\ MaxRestarts \in Nat

VARIABLES
  secure,     \* is the server run with TLS
  certOk,     \* is the certificate of a client, or of the server, valid
  phase,      \* where an exchange is
  len,        \* length of the nonce in the request, 0 when the server is through with it
  received,   \* received_nonce_map of the server: [id, nonce], least recently used first
  generated,  \* generated_nonce_map of the server
  holder,     \* the request that holds the lock of received_nonce_map
  mine,       \* both caches of each client; a client talks to one server here
  writer,     \* the call that holds the lock of the client's received_nonce_map
  restarts,
  halves,     \* history: requests dropped between the two caches
  disturbed   \* history: exchanges that overlapped with another of the same
              \* name, or with a restart, or whose entry was evicted

caches == <<received, generated, holder>>
clientSide == <<mine, writer>>
exchangeVars == <<secure, certOk, phase, len, caches, clientSide, restarts, halves, disturbed>>

ExchangeInit ==
  /\ secure \in BOOLEAN
  /\ certOk \in [Clients \cup {Server} -> BOOLEAN]
  /\ phase = [x \in Exchanges |-> "idle"]
  /\ len = [x \in Exchanges |-> 0]
  /\ received = <<>> /\ generated = <<>> /\ holder = NoExchange
  /\ mine = [c \in Clients |-> [received |-> NoExchange, generated |-> NoExchange]]
  /\ writer = [c \in Clients |-> NoExchange]
  /\ restarts = 0
  /\ halves = {} /\ disturbed = {}

CertOf(p) == Certificate(p, certOk[p], TRUE)

\* RequestClientInfo: the certificate the handshake verified, if any.
ClientInfo(c) == [ip |-> IpOf[c], cert |-> IF secure THEN CertOf(c) ELSE NoKey]
Id(x) == Identifier(ClientInfo(ClientOf[x]))

InFlight(x) == phase[x] \in {"sent", "half", "answered", "storing"}
Overlapping(x) == {y \in Exchanges \ {x} : InFlight(y) /\ Id(y) = Id(x)}

Goto(x, at) == phase' = [phase EXCEPT ![x] = at]

-----------------------------------------------------------------------------
(* An LRU cache: putting moves the entry to the end and evicts the first.  *)

Entry(x) == [id |-> Id(x), nonce |-> x]
Places(cache, x) == {i \in DOMAIN cache : cache[i].id = Id(x)}

\* A cache has at most one entry of a name.
Others(cache, x) ==
  IF Places(cache, x) = {} THEN cache ELSE RemoveAt(cache, CHOOSE i \in Places(cache, x) : TRUE)

Full(cache, x) == Len(Others(cache, x)) = CacheSize

LruPut(cache, x) ==
  Append(IF Full(cache, x) THEN Tail(Others(cache, x)) ELSE Others(cache, x), Entry(x))

\* What the put evicts from the cache, by its nonce.
Evicted(cache, x) == IF Full(cache, x) THEN {Head(Others(cache, x)).nonce} ELSE {}

-----------------------------------------------------------------------------
(* The client sends                                                        *)

ValidNonce(n) == 16 <= n /\ n <= 128

SendNonce(x) ==
  /\ phase[x] = "idle"
  /\ secure => VerifyCert(CertOf(ClientOf[x]), NoKey)
  /\ \E n \in Lengths : len' = [len EXCEPT ![x] = n]
  /\ Goto(x, "sent")
  /\ disturbed' = IF Overlapping(x) = {} THEN disturbed ELSE disturbed \cup Overlapping(x) \cup {x}
  /\ UNCHANGED <<secure, certOk, caches, clientSide, restarts, halves>>

\* The handshake refuses a client whose certificate does not verify.
RefuseClient(x) ==
  /\ phase[x] = "idle"
  /\ secure /\ ~VerifyCert(CertOf(ClientOf[x]), NoKey)
  /\ Goto(x, "failed")
  /\ UNCHANGED <<secure, certOk, len, caches, clientSide, restarts, halves, disturbed>>

-----------------------------------------------------------------------------
(* The server: nonce_exchange                                              *)

RefuseNonce(x) ==
  /\ phase[x] = "sent"
  /\ ~ValidNonce(len[x])
  /\ Goto(x, "failed")
  /\ len' = [len EXCEPT ![x] = 0]
  /\ UNCHANGED <<secure, certOk, caches, clientSide, restarts, halves, disturbed>>

\* Mutant: the lock is released before the other cache is locked.
StoreReceivedUnlocked(x) ==
  /\ phase[x] = "sent" /\ ValidNonce(len[x])
  /\ received' = LruPut(received, x)
  /\ disturbed' = disturbed \cup Evicted(received, x)
  /\ Goto(x, "half")
  /\ len' = [len EXCEPT ![x] = 0]
  /\ UNCHANGED <<secure, certOk, generated, holder, clientSide, restarts, halves>>

StoreReceived(x) ==
  /\ phase[x] = "sent" /\ ValidNonce(len[x])
  /\ holder = NoExchange
  /\ holder' = x
  /\ received' = LruPut(received, x)
  /\ disturbed' = disturbed \cup Evicted(received, x)
  /\ Goto(x, "half")
  /\ len' = [len EXCEPT ![x] = 0]
  /\ UNCHANGED <<secure, certOk, generated, clientSide, restarts, halves>>

\* Mutant: the cache keeps what it generated for a client first.
StoreGeneratedOnce(x) ==
  /\ phase[x] = "half"
  /\ holder' = NoExchange
  /\ generated' = IF Id(x) \in {e.id : e \in ToSet(generated)} THEN generated ELSE LruPut(generated, x)
  /\ Goto(x, "answered")
  /\ UNCHANGED <<secure, certOk, len, received, clientSide, restarts, halves, disturbed>>

StoreGenerated(x) ==
  /\ phase[x] = "half"
  /\ holder' = NoExchange
  /\ generated' = LruPut(generated, x)
  /\ Goto(x, "answered")
  /\ UNCHANGED <<secure, certOk, len, received, clientSide, restarts, halves, disturbed>>

\* The request is dropped, because its connection is: before it stored
\* anything, or where it awaits the second lock.
DropRequest(x) ==
  /\ phase[x] \in {"sent", "half"}
  /\ Goto(x, "failed")
  /\ holder' = IF holder = x THEN NoExchange ELSE holder
  /\ halves' = IF phase[x] = "half" THEN halves \cup {x} ELSE halves
  /\ len' = [len EXCEPT ![x] = 0]
  /\ UNCHANGED <<secure, certOk, received, generated, clientSide, restarts, disturbed>>

\* The server is stopped and started again: requests are dropped, and the
\* new AppState has empty caches.
Restart ==
  /\ restarts < MaxRestarts
  /\ restarts' = restarts + 1
  /\ received' = <<>> /\ generated' = <<>> /\ holder' = NoExchange
  /\ phase' = [x \in Exchanges |-> IF phase[x] \in {"sent", "half"} THEN "failed" ELSE phase[x]]
  /\ len' = [x \in Exchanges |-> 0]
  /\ halves' = {}
  /\ disturbed' = disturbed \cup {x \in Exchanges : InFlight(x)}
  /\ UNCHANGED <<secure, certOk, clientSide>>

-----------------------------------------------------------------------------
(* The client receives                                                     *)

LoseResponse(x) ==
  /\ phase[x] = "answered"
  /\ Goto(x, "failed")
  /\ UNCHANGED <<secure, certOk, len, caches, clientSide, restarts, halves, disturbed>>

\* The certificate of the server is checked when the response is there.
RefuseServer(x) ==
  /\ phase[x] = "answered"
  /\ secure /\ ~VerifyCert(CertOf(Server), NoKey)
  /\ Goto(x, "failed")
  /\ UNCHANGED <<secure, certOk, len, caches, clientSide, restarts, halves, disturbed>>

ReceiveNonce(x) ==
  LET c == ClientOf[x] IN
  /\ phase[x] = "answered"
  /\ secure => VerifyCert(CertOf(Server), NoKey)
  /\ writer[c] = NoExchange
  /\ writer' = [writer EXCEPT ![c] = x]
  /\ mine' = [mine EXCEPT ![c].received = x]
  /\ Goto(x, "storing")
  /\ UNCHANGED <<secure, certOk, len, caches, restarts, halves, disturbed>>

ReturnNonce(x) ==
  LET c == ClientOf[x] IN
  /\ phase[x] = "storing"
  /\ mine' = [mine EXCEPT ![c].generated = x]
  /\ writer' = [writer EXCEPT ![c] = NoExchange]
  /\ Goto(x, "ok")
  /\ UNCHANGED <<secure, certOk, len, caches, restarts, halves, disturbed>>

ExchangeNext ==
  \/ \E x \in Exchanges :
       \/ SendNonce(x) \/ RefuseClient(x) \/ RefuseNonce(x) \/ StoreReceived(x) \/ StoreGenerated(x)
       \/ DropRequest(x) \/ LoseResponse(x) \/ RefuseServer(x)
       \/ ReceiveNonce(x) \/ ReturnNonce(x)
  \/ Restart

ExchangeSpec == ExchangeInit /\ [][ExchangeNext]_exchangeVars

-----------------------------------------------------------------------------
\* The caches of the server, and of each client, are written as one though
\* each has its own lock: what a name's entry says was received and generated
\* comes from one exchange, whatever overlaps, is dropped or is evicted; only a
\* request dropped between its two writes leaves an entry without its partner.
PairsFromOneExchange ==
  /\ \A e \in ToSet(received) : e.nonce \notin halves \cup {holder} => e \in ToSet(generated)
  /\ \A c \in Clients : writer[c] = NoExchange => mine[c].received = mine[c].generated

\* When a call returns, both ends hold the nonces of this very exchange, unless
\* it overlapped with another of the same name, with a restart of the server,
\* or the server has evicted its entry.
EndsAgree ==
  [][\A x \in Exchanges : phase[x] # "ok" /\ phase'[x] = "ok" /\ x \notin disturbed =>
       /\ Entry(x) \in ToSet(received') \cap ToSet(generated')
       /\ mine'[ClientOf[x]] = [received |-> x, generated |-> x]]_exchangeVars
=============================================================================
