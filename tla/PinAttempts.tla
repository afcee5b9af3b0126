---------------------------- MODULE PinAttempts ----------------------------
(***************************************************************************)
(* The PIN check in front of prepare-upload and prepare-download           *)
(* (native/packages/core/src/http/server/common/pin.rs).                   *)
(*                                                                         *)
(* `attempts` is the LruCache<IpAddr, u32> of failed attempts: a sequence  *)
(* of entries, the least recently used first.  The whole check runs under  *)
(* the mutex of the cache without an await, so it is one atomic step.      *)
(***************************************************************************)
EXTENDS Naturals, Sequences

CONSTANTS
  Ips,           \* client addresses
  Pins,          \* PINs a client may send
  NoPin,         \* no PIN: not configured, or the parameter is missing
  RequiredPin,   \* the PIN of the server, NoPin when it has none
  CacheSize      \* capacity of the LRU cache (200 in the code)

ASSUME PinAssumption ==
  /\ NoPin \notin Pins
  /\ RequiredPin \in Pins \cup {NoPin}
  /\ CacheSize \in Nat \ {0}

VARIABLES
  attempts,
  wrong          \* history: wrong PINs of each client looked at since its last success

pinVars == <<attempts, wrong>>

MAX_PIN_ATTEMPTS == 3

Attempt == [ip : Ips, count : 1..MAX_PIN_ATTEMPTS]

Tracked(ip) == \E i \in DOMAIN attempts : attempts[i].ip = ip

IndexOf(ip) == CHOOSE i \in DOMAIN attempts : attempts[i].ip = ip

Count(ip) == IF Tracked(ip) THEN attempts[IndexOf(ip)].count ELSE 0

Without(ip) ==
  IF Tracked(ip)
    THEN SubSeq(attempts, 1, IndexOf(ip) - 1)
           \o SubSeq(attempts, IndexOf(ip) + 1, Len(attempts))
    ELSE attempts

\* LruCache::put evicts the least recently used entry of a full cache.
Put(ip, count) ==
  LET fresh == Append(Without(ip), [ip |-> ip, count |-> count])
  IN  IF Len(fresh) > CacheSize THEN Tail(fresh) ELSE fresh

\* Mutant: a fourth guess.
PinOutcomeOffByOne(ip, pin) ==
  IF RequiredPin = NoPin THEN "ok"
  ELSE IF Count(ip) > MAX_PIN_ATTEMPTS THEN "tooManyRequests"
  ELSE IF pin = RequiredPin THEN "ok"
  ELSE IF pin = NoPin THEN "pinRequired" ELSE "invalidPin"

PinOutcome(ip, pin) ==
  IF RequiredPin = NoPin               THEN "ok"
  ELSE IF Count(ip) >= MAX_PIN_ATTEMPTS THEN "tooManyRequests"
  ELSE IF pin = RequiredPin            THEN "ok"
  ELSE IF pin = NoPin                  THEN "pinRequired"
  ELSE "invalidPin"

\* The cache after the check.  LruCache::get makes a present entry the most
\* recently used one, also when the request is then refused.
AttemptsAfter(ip, pin) ==
  IF RequiredPin = NoPin THEN attempts
  ELSE IF PinOutcome(ip, pin) = "invalidPin" THEN Put(ip, Count(ip) + 1)
  ELSE IF PinOutcome(ip, pin) = "ok"         THEN Without(ip)
  ELSE IF Tracked(ip)                        THEN Put(ip, Count(ip))
  ELSE attempts

PinInit == attempts = <<>> /\ wrong = [ip \in Ips |-> 0]

CheckPin(ip, pin) ==
  /\ attempts' = AttemptsAfter(ip, pin)
  /\ wrong' = [wrong EXCEPT ![ip] = CASE PinOutcome(ip, pin) = "ok" -> 0
                                      [] PinOutcome(ip, pin) = "invalidPin" -> @ + 1
                                      [] OTHER -> @]

-----------------------------------------------------------------------------
\* The cache tracks an address at most once and stays within its capacity.
PinTypeOK ==
  /\ attempts \in Seq(Attempt)
  /\ Len(attempts) <= CacheSize
  /\ \A i, j \in DOMAIN attempts : attempts[i].ip = attempts[j].ip => i = j
  /\ wrong \in [Ips -> Nat]

\* "Maximum failed PIN attempts per IP before requests are blocked" (pin.rs:8):
\* however the attempts of several clients interleave and move in the cache,
\* a client gets to test three PINs between two successes, no more.  Needs a
\* cache with room for every client.
GuessesBounded == \A ip \in Ips : wrong[ip] <= MAX_PIN_ATTEMPTS
=============================================================================
