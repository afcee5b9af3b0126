----------------------------- MODULE HttpProofs -----------------------------
(***************************************************************************)
(* Proofs about what two devices tell each other over HTTP.                *)
(*                                                                         *)
(* NonceExchange, for any number of clients, exchanges and restarts and    *)
(* any capacity of the caches: the two caches of each end stay paired, and *)
(* a call that returns leaves both ends with the nonces of this exchange.  *)
(*                                                                         *)
(* HttpCalls, for any number of calls and devices and any capacity of the  *)
(* channels: a refused caller leaves no session behind, and what was       *)
(* answered with success was told to the application.                      *)
(***************************************************************************)
EXTENDS HttpCalls, NonceExchange, SequenceTheorems, FiniteSetTheorems, TLAPS

-----------------------------------------------------------------------------
(* An LRU cache                                                            *)

Entries == {Entry(x) : x \in Exchanges}

\* No name has two entries.
Cache ==
  {s \in Seq(Entries) :
     /\ Len(s) <= CacheSize
     /\ \A i, j \in DOMAIN s : s[i].id = s[j].id => i = j}

\* The names that were put after the entry.
Newer(cache, e) ==
  {cache[k].id : k \in {i \in DOMAIN cache : \E j \in DOMAIN cache : j < i /\ cache[j] = e}}

-----------------------------------------------------------------------------
(* The inductive invariant of the exchange                                 *)

ExchangeTypeOK ==
  /\ secure \in BOOLEAN
  /\ phase \in [Exchanges -> {"idle", "sent", "half", "answered", "storing", "ok", "failed"}]
  /\ received \in Cache /\ generated \in Cache
  /\ holder \in Exchanges \cup {NoExchange}
  /\ mine \in [Clients -> [received : Exchanges \cup {NoExchange},
                           generated : Exchanges \cup {NoExchange}]]
  /\ writer \in [Clients -> Exchanges \cup {NoExchange}]
  /\ halves \subseteq Exchanges
  /\ disturbed \subseteq Exchanges

\* The two locks: who holds the first one is between the two caches.
LockInv ==
  /\ \A x \in Exchanges : phase[x] = "half" <=> holder = x
  /\ \A x \in Exchanges : phase[x] = "storing" <=> writer[ClientOf[x]] = x
  /\ \A c \in Clients : writer[c] # NoExchange => /\ ClientOf[writer[c]] = c
                                                  /\ mine[c].received = writer[c]
  /\ \A x \in Exchanges :
       holder = x => received # <<>> /\ received[Len(received)] = Entry(x)
  /\ \A x \in halves : phase[x] = "failed"

\* An entry that is no half one has its partner, and the partner is no nearer
\* to its eviction: no name was generated for after it that was not received
\* from after it.
PairInv ==
  \A e \in ToSet(received) :
    e.nonce \notin halves \cup {holder} =>
      e \in ToSet(generated) /\ Newer(generated, e) \subseteq Newer(received, e)

\* Exchanges of one name that overlap are disturbed, and of the others the
\* server keeps the entry until the client has it.
UndisturbedInv ==
  /\ \A x, y \in Exchanges :
       x # y /\ InFlight(x) /\ InFlight(y) /\ Id(x) = Id(y) => {x, y} \subseteq disturbed
  /\ \A x \in Exchanges \ disturbed :
       phase[x] \in {"half", "answered", "storing"} => Entry(x) \in ToSet(received)

ClientInv ==
  \A c \in Clients : writer[c] = NoExchange => mine[c].received = mine[c].generated

\* That the caches pair up is not inductive: a request dropped between the two
\* puts leaves them in different orders, so that a later put evicts different
\* names from them.
ExchangeInv == ExchangeTypeOK /\ LockInv /\ PairInv /\ UndisturbedInv /\ ClientInv
-----------------------------------------------------------------------------
(* Lemmas about the cache                                                  *)

\* Removing an element shifts the ones behind it.
LEMMA RemoveAtProperties ==
  ASSUME NEW S, NEW s \in Seq(S), NEW p \in 1..Len(s)
  PROVE  /\ RemoveAt(s, p) \in Seq(S)
         /\ Len(RemoveAt(s, p)) = Len(s) - 1
         /\ \A k \in 1..(Len(s) - 1) : RemoveAt(s, p)[k] = IF k < p THEN s[k] ELSE s[k + 1]
<1> DEFINE a == SubSeq(s, 1, p - 1)
           b == SubSeq(s, p + 1, Len(s))
<1>1. Len(s) \in Nat /\ \A i \in 1..Len(s) : s[i] \in S
  OBVIOUS
<1>2. a \in Seq(S) /\ Len(a) = p - 1 /\ \A k \in 1..(p - 1) : a[k] = s[k]
  <2>1. \A i \in 1..(p - 1) : s[i] \in S
    BY <1>1
  <2>2. /\ a \in Seq(S) /\ Len(a) = IF 1 <= p - 1 THEN (p - 1) - 1 + 1 ELSE 0
        /\ \A i \in 1..((p - 1) - 1 + 1) : a[i] = s[1 + i - 1]
    BY <1>1, <2>1, SubSeqProperties
  <2> QED
    BY <1>1, <2>2
<1>3. b \in Seq(S) /\ Len(b) = Len(s) - p /\ \A k \in 1..(Len(s) - p) : b[k] = s[k + p]
  <2>1. \A i \in (p + 1)..Len(s) : s[i] \in S
    BY <1>1
  <2>2. /\ b \in Seq(S) /\ Len(b) = IF p + 1 <= Len(s) THEN Len(s) - (p + 1) + 1 ELSE 0
        /\ \A i \in 1..(Len(s) - (p + 1) + 1) : b[i] = s[(p + 1) + i - 1]
    BY <1>1, <2>1, SubSeqProperties
  <2> QED
    BY <1>1, <2>2
<1>4. RemoveAt(s, p) = a \o b
  BY DEF RemoveAt
<1> HIDE DEF a, b
<1>5. /\ a \o b \in Seq(S) /\ Len(a \o b) = Len(a) + Len(b)
      /\ \A i \in 1..(Len(a) + Len(b)) : (a \o b)[i] = IF i <= Len(a) THEN a[i] ELSE b[i - Len(a)]
  BY <1>2, <1>3, ConcatProperties
<1>6. ASSUME NEW k \in 1..(Len(s) - 1)
      PROVE  (a \o b)[k] = IF k < p THEN s[k] ELSE s[k + 1]
  <2>1. (a \o b)[k] = IF k <= Len(a) THEN a[k] ELSE b[k - Len(a)]
    BY <1>1, <1>2, <1>3, <1>5
  <2>2. CASE k < p
    BY <1>1, <1>2, <2>1, <2>2
  <2>3. CASE k >= p
    <3>1. (a \o b)[k] = b[k - (p - 1)] /\ k - (p - 1) \in 1..(Len(s) - p)
      BY <1>1, <1>2, <2>1, <2>3
    <3>2. b[k - (p - 1)] = s[(k - (p - 1)) + p] /\ (k - (p - 1)) + p = k + 1
      BY <1>1, <1>3, <3>1
    <3>3. (a \o b)[k] = s[k + 1]
      BY <3>1, <3>2
    <3> QED
      BY <1>1, <2>3, <3>3
  <2>4. k < p \/ k >= p
    BY <1>1
  <2> QED
    BY <2>2, <2>3, <2>4
<1>7. Len(a \o b) = Len(s) - 1
  BY <1>1, <1>2, <1>3, <1>5
<1> QED
  BY <1>4, <1>5, <1>6, <1>7

\* The cache t is s after a put of the entry of x: the entry at p is gone, if
\* there is one at p, and the entry of x comes last.
Put(s, x, p, t) ==
  /\ t \in Seq(Entries)
  /\ Len(t) = IF p <= Len(s) THEN Len(s) ELSE Len(s) + 1
  /\ \A k \in 1..(Len(t) - 1) : t[k] = IF k < p THEN s[k] ELSE s[k + 1]
  /\ t[Len(t)] = Entry(x)
  /\ \A k \in DOMAIN s : s[k].id = Id(x) => k = p
  /\ p > Len(s) => Len(s) < CacheSize
  /\ p <= Len(s) /\ s[p].id # Id(x) =>
       /\ p = 1 /\ Len(s) = CacheSize
       /\ Evicted(s, x) = {s[1].nonce}

\* A put takes out the old entry of the name or, from a full cache, the first.
LEMMA PutShape ==
  ASSUME NEW s \in Cache, NEW x \in Exchanges
  PROVE  \E p \in 1..(Len(s) + 1) : Put(s, x, p, LruPut(s, x))
<1>0. s \in Seq(Entries) /\ Len(s) \in Nat /\ Len(s) <= CacheSize /\ Entry(x) \in Entries
  BY DEF Cache, Entries
<1>1. /\ s \in Seq(Entries) /\ Len(s) \in Nat /\ Len(s) <= CacheSize /\ DOMAIN s = 1..Len(s)
      /\ \A i, j \in DOMAIN s : s[i].id = s[j].id => i = j
      /\ Entry(x) \in Entries
  BY DEF Cache, Entries
<1>2. CASE Places(s, x) # {}
  <2>1. PICK p \in Places(s, x) : p = CHOOSE i \in Places(s, x) : TRUE
    BY <1>2
  <2>2. p \in 1..Len(s) /\ s[p].id = Id(x)
    BY <1>1 DEF Places
  <2>3. PICK o \in Seq(Entries) :
          /\ o = Others(s, x) /\ Len(o) = Len(s) - 1
          /\ \A k \in 1..(Len(s) - 1) : o[k] = IF k < p THEN s[k] ELSE s[k + 1]
    <3>1. Others(s, x) = RemoveAt(s, p)
      BY <1>2, <2>1 DEF Others
    <3>2. /\ RemoveAt(s, p) \in Seq(Entries) /\ Len(RemoveAt(s, p)) = Len(s) - 1
          /\ \A k \in 1..(Len(s) - 1) : RemoveAt(s, p)[k] = IF k < p THEN s[k] ELSE s[k + 1]
      BY <1>0, <2>2, RemoveAtProperties
    <3> QED
      BY <3>1, <3>2
  <2>4. LruPut(s, x) = Append(o, Entry(x))
    <3>1. Len(Others(s, x)) # CacheSize
      BY <1>0, <2>3, ExchangeAssumption
    <3> QED
      BY <2>3, <3>1 DEF LruPut, Full
  <2>5. /\ LruPut(s, x) \in Seq(Entries) /\ Len(LruPut(s, x)) = Len(s)
        /\ LruPut(s, x)[Len(s)] = Entry(x)
        /\ \A k \in 1..(Len(s) - 1) : LruPut(s, x)[k] = o[k]
    <3>1. /\ Append(o, Entry(x)) \in Seq(Entries)
          /\ Len(Append(o, Entry(x))) = Len(o) + 1
          /\ \A i \in 1..Len(o) : Append(o, Entry(x))[i] = o[i]
          /\ Append(o, Entry(x))[Len(o) + 1] = Entry(x)
      BY <1>0, AppendProperties
    <3> QED
      BY <1>0, <2>3, <2>4, <3>1
  <2>6. /\ p <= Len(s)
        /\ \A k \in DOMAIN s : s[k].id = Id(x) => k = p
    BY <1>1, <2>2
  <2>7. Put(s, x, p, LruPut(s, x))
    BY <1>1, <2>2, <2>3, <2>5, <2>6 DEF Put
  <2> QED
    BY <1>1, <2>2, <2>7
<1>3. CASE Places(s, x) = {}
  <2>1. Others(s, x) = s /\ \A k \in DOMAIN s : s[k].id # Id(x)
    BY <1>3 DEF Others, Places
  <2>2. CASE Len(s) = CacheSize
    <3>1. LruPut(s, x) = Append(Tail(s), Entry(x)) /\ Evicted(s, x) = {Head(s).nonce}
      BY <2>1, <2>2 DEF LruPut, Full, Evicted
    <3>2. s # <<>> /\ Head(s) = s[1] /\ Len(s) >= 1
      BY <1>1, <2>2, ExchangeAssumption
    <3>3. PICK a \in Seq(Entries) :
            /\ a = Tail(s) /\ Len(a) = Len(s) - 1
            /\ \A k \in 1..Len(a) : a[k] = s[k + 1]
      <4>1. /\ Tail(s) \in Seq(Entries) /\ Len(Tail(s)) = Len(s) - 1
            /\ \A k \in 1..Len(Tail(s)) : Tail(s)[k] = s[k + 1]
        BY <1>0, <3>2, HeadTailProperties
      <4> QED
        BY <4>1
    <3>4. /\ LruPut(s, x) \in Seq(Entries) /\ Len(LruPut(s, x)) = Len(s)
          /\ LruPut(s, x)[Len(s)] = Entry(x)
          /\ \A k \in 1..(Len(s) - 1) : LruPut(s, x)[k] = s[k + 1]
      <4>1. /\ Append(a, Entry(x)) \in Seq(Entries)
            /\ Len(Append(a, Entry(x))) = Len(a) + 1
            /\ \A i \in 1..Len(a) : Append(a, Entry(x))[i] = a[i]
            /\ Append(a, Entry(x))[Len(a) + 1] = Entry(x)
        BY <1>0, AppendProperties
      <4> QED
        BY <1>0, <3>1, <3>3, <4>1
    <3>5. Put(s, x, 1, LruPut(s, x))
      BY <1>1, <2>1, <2>2, <3>1, <3>2, <3>4 DEF Put
    <3> QED
      BY <1>1, <3>5
  <2>3. CASE Len(s) # CacheSize
    <3>1. LruPut(s, x) = Append(s, Entry(x)) /\ Len(s) < CacheSize
      <4>1. Len(s) < CacheSize
        BY <1>0, <2>3, ExchangeAssumption
      <4> QED
        BY <2>1, <2>3, <4>1 DEF LruPut, Full
    <3>2. /\ LruPut(s, x) \in Seq(Entries) /\ Len(LruPut(s, x)) = Len(s) + 1
          /\ LruPut(s, x)[Len(s) + 1] = Entry(x)
          /\ \A k \in 1..Len(s) : LruPut(s, x)[k] = s[k]
      <4>1. /\ Append(s, Entry(x)) \in Seq(Entries)
            /\ Len(Append(s, Entry(x))) = Len(s) + 1
            /\ \A i \in 1..Len(s) : Append(s, Entry(x))[i] = s[i]
            /\ Append(s, Entry(x))[Len(s) + 1] = Entry(x)
        BY <1>0, AppendProperties
      <4> QED
        BY <3>1, <4>1
    <3>3. Put(s, x, Len(s) + 1, LruPut(s, x))
      BY <1>1, <2>1, <3>1, <3>2 DEF Put
    <3> QED
      BY <1>1, <3>3
  <2> QED
    BY <2>2, <2>3
<1> QED
  BY <1>2, <1>3

\* What holds of a cache after a put.
After(s, x, t) ==
  /\ t \in Cache
  /\ t # <<>> /\ t[Len(t)] = Entry(x)
  /\ Entry(x) \in ToSet(t) /\ Newer(t, Entry(x)) = {}
  /\ \A e \in ToSet(t) : e = Entry(x) \/ (e \in ToSet(s) /\ e.id # Id(x))
  /\ \A e \in ToSet(s) :
       e.id # Id(x) =>
         \/ e \in ToSet(t) /\ Newer(t, e) \ {Id(x)} = Newer(s, e) \ {Id(x)} /\ Id(x) \in Newer(t, e)
         \/ /\ Len(s) = CacheSize /\ e = s[1] /\ Evicted(s, x) = {e.nonce} /\ e \notin ToSet(t)
            /\ \A k \in DOMAIN s : s[k].id # Id(x)

\* The names put after an entry stand behind it.
LEMMA NewerIsBehind ==
  ASSUME NEW s \in Cache, NEW i \in DOMAIN s
  PROVE  \A n : n \in Newer(s, s[i]) <=> \E k \in DOMAIN s : i < k /\ s[k].id = n
<1>1. \A j \in DOMAIN s : s[j] = s[i] => j = i
  BY DEF Cache
<1> QED
  BY <1>1 DEF Newer

\* A put brings its entry to the end and disturbs no others but the one it
\* evicts.
LEMMA AfterPut ==
  ASSUME NEW s \in Cache, NEW x \in Exchanges
  PROVE  After(s, x, LruPut(s, x))
<1>1. PICK p \in 1..(Len(s) + 1), t \in Seq(Entries) : t = LruPut(s, x) /\ Put(s, x, p, t)
  <2>1. PICK p \in 1..(Len(s) + 1) : Put(s, x, p, LruPut(s, x))
    BY PutShape
  <2> QED
    BY <2>1 DEF Put
<1>2. /\ Len(s) \in Nat /\ Len(t) \in Nat \ {0} /\ DOMAIN s = 1..Len(s) /\ DOMAIN t = 1..Len(t)
      /\ Len(t) <= CacheSize /\ p \in Nat \ {0}
  <2>1. s \in Seq(Entries) /\ Len(s) <= CacheSize
    BY DEF Cache
  <2>2. Len(t) = (IF p <= Len(s) THEN Len(s) ELSE Len(s) + 1) /\ (p > Len(s) => Len(s) < CacheSize)
    BY <1>1 DEF Put
  <2> QED
    BY <2>1, <2>2, ExchangeAssumption
\* Where the entries of s went, and where those of t come from.
<1>3. \A k \in DOMAIN s : /\ k < p => k \in 1..(Len(t) - 1) /\ t[k] = s[k]
                          /\ k > p => k - 1 \in 1..(Len(t) - 1) /\ t[k - 1] = s[k]
  <2> TAKE k \in DOMAIN s
  <2>1. Len(t) = (IF p <= Len(s) THEN Len(s) ELSE Len(s) + 1)
        /\ \A l \in 1..(Len(t) - 1) : t[l] = IF l < p THEN s[l] ELSE s[l + 1]
    BY <1>1 DEF Put
  <2>2. CASE k < p
    BY <1>2, <2>1, <2>2
  <2>3. CASE k > p
    <3>1. k - 1 \in 1..(Len(t) - 1) /\ ~(k - 1 < p) /\ (k - 1) + 1 = k
      BY <1>2, <2>1, <2>3
    <3> QED
      BY <1>2, <2>1, <2>3, <3>1
  <2> QED
    BY <2>2, <2>3
<1>4. \A k \in 1..(Len(t) - 1) : /\ k < p => k \in DOMAIN s /\ t[k] = s[k]
                                 /\ k >= p => k + 1 \in DOMAIN s /\ t[k] = s[k + 1]
  BY <1>1, <1>2 DEF Put
<1>5. /\ t[Len(t)] = Entry(x) /\ Entry(x).id = Id(x)
      /\ \A k \in DOMAIN s : k # p => s[k].id # Id(x)
  BY <1>1 DEF Put, Entry
<1>6. \A k \in 1..(Len(t) - 1) : t[k].id # Id(x)
  BY <1>2, <1>4, <1>5
<1>7. \A i, j \in DOMAIN s : s[i].id = s[j].id => i = j
  BY DEF Cache
<1>8. ASSUME NEW i \in DOMAIN t, NEW j \in DOMAIN t, t[i].id = t[j].id
      PROVE  i = j
  <2>1. CASE i = Len(t) \/ j = Len(t)
    BY <1>2, <1>5, <1>6, <1>8, <2>1
  <2>2. CASE i # Len(t) /\ j # Len(t)
    <3>1. i \in 1..(Len(t) - 1) /\ j \in 1..(Len(t) - 1)
      BY <1>2, <2>2
    <3>2. CASE i < p /\ j < p
      BY <1>4, <1>7, <1>8, <3>1, <3>2
    <3>3. CASE i < p /\ j >= p
      <4>1. i \in DOMAIN s /\ t[i] = s[i]
        BY <1>4, <3>1, <3>3
      <4>2. j + 1 \in DOMAIN s /\ t[j] = s[j + 1]
        BY <1>4, <3>1, <3>3
      <4>3. i = j + 1
        BY <1>7, <1>8, <4>1, <4>2
      <4> QED
        BY <1>2, <3>3, <4>3
    <3>4. CASE i >= p /\ j < p
      <4>1. i + 1 \in DOMAIN s /\ t[i] = s[i + 1]
        BY <1>4, <3>1, <3>4
      <4>2. j \in DOMAIN s /\ t[j] = s[j]
        BY <1>4, <3>1, <3>4
      <4>3. i + 1 = j
        BY <1>7, <1>8, <4>1, <4>2
      <4> QED
        BY <1>2, <3>4, <4>3
    <3>5. CASE i >= p /\ j >= p
      <4>1. i + 1 \in DOMAIN s /\ t[i] = s[i + 1]
        BY <1>4, <3>1, <3>5
      <4>2. j + 1 \in DOMAIN s /\ t[j] = s[j + 1]
        BY <1>4, <3>1, <3>5
      <4>3. s[i + 1].id = s[j + 1].id
        BY <1>8, <4>1, <4>2
      <4>4. i + 1 = j + 1
        BY <1>7, <4>1, <4>2, <4>3
      <4> QED
        BY <1>2, <4>4
    <3> QED
      BY <1>2, <3>2, <3>3, <3>4, <3>5
  <2> QED
    BY <2>1, <2>2
<1>9. t \in Cache
  BY <1>2, <1>8 DEF Cache
<1>10. t # <<>> /\ Entry(x) \in ToSet(t) /\ Newer(t, Entry(x)) = {}
  <2>1. Len(t) \in DOMAIN t
    BY <1>2
  <2>2. \A n : n \notin Newer(t, t[Len(t)])
    BY <1>2, <1>9, <2>1, NewerIsBehind
  <2> QED
    BY <1>2, <1>5, <2>1, <2>2 DEF ToSet
<1>11. ASSUME NEW e \in ToSet(t)
       PROVE  e = Entry(x) \/ (e \in ToSet(s) /\ e.id # Id(x))
  <2>1. PICK k \in DOMAIN t : e = t[k]
    BY DEF ToSet
  <2>2. CASE k = Len(t)
    BY <1>5, <2>1, <2>2
  <2>3. CASE k # Len(t)
    <3>1. k \in 1..(Len(t) - 1)
      BY <1>2, <2>3
    <3>2. \E l \in DOMAIN s : t[k] = s[l]
      BY <1>2, <1>4, <3>1
    <3> QED
      BY <1>6, <2>1, <3>1, <3>2 DEF ToSet
  <2> QED
    BY <2>2, <2>3
<1>12. ASSUME NEW i \in DOMAIN s, i # p
       PROVE  /\ s[i] \in ToSet(t) /\ Id(x) \in Newer(t, s[i])
              /\ Newer(t, s[i]) \ {Id(x)} = Newer(s, s[i]) \ {Id(x)}
  <2>1. PICK q \in 1..(Len(t) - 1) : t[q] = s[i] /\ q = IF i < p THEN i ELSE i - 1
    BY <1>2, <1>3, <1>12
  <2>2. q \in DOMAIN t /\ Len(t) \in DOMAIN t /\ q < Len(t)
    BY <1>2
  <2>3. \A n : n \in Newer(t, s[i]) <=> \E k \in DOMAIN t : q < k /\ t[k].id = n
    BY <1>9, <2>1, <2>2, NewerIsBehind
  <2>4. \A n : n \in Newer(s, s[i]) <=> \E k \in DOMAIN s : i < k /\ s[k].id = n
    BY NewerIsBehind
  <2>5. s[i] \in ToSet(t) /\ Id(x) \in Newer(t, s[i])
    BY <1>5, <2>1, <2>2, <2>3 DEF ToSet
  <2>6. ASSUME NEW k \in DOMAIN s, i < k, s[k].id # Id(x)
        PROVE  \E l \in DOMAIN t : q < l /\ t[l].id = s[k].id
    <3>1. k # p
      <4>1. k = p => p = 1
        BY <1>1, <1>2, <2>6 DEF Put
      <4> QED
        BY <1>2, <2>6, <4>1
    <3>2. PICK l \in 1..(Len(t) - 1) : t[l] = s[k] /\ l = IF k < p THEN k ELSE k - 1
      BY <1>2, <1>3, <3>1
    <3>3. l \in DOMAIN t /\ q < l
      BY <1>2, <1>12, <2>1, <2>6, <3>1, <3>2
    <3> QED
      BY <3>2, <3>3
  <2>7. ASSUME NEW k \in DOMAIN t, q < k, t[k].id # Id(x)
        PROVE  \E l \in DOMAIN s : i < l /\ s[l].id = t[k].id
    <3>1. k \in 1..(Len(t) - 1)
      BY <1>2, <1>5, <2>7
    <3>2. PICK l \in DOMAIN s : t[k] = s[l] /\ l = IF k < p THEN k ELSE k + 1
      BY <1>2, <1>4, <3>1
    <3>3. i < l
      BY <1>2, <1>12, <2>1, <2>7, <3>1, <3>2
    <3> QED
      BY <3>2, <3>3
  <2>8. Newer(t, s[i]) \ {Id(x)} = Newer(s, s[i]) \ {Id(x)}
    BY <2>3, <2>4, <2>6, <2>7
  <2> QED
    BY <2>5, <2>8
<1>13. ASSUME p \in DOMAIN s, s[p].id # Id(x)
       PROVE  /\ Len(s) = CacheSize /\ s[p] = s[1] /\ Evicted(s, x) = {s[p].nonce}
              /\ s[p] \notin ToSet(t)
              /\ \A k \in DOMAIN s : s[k].id # Id(x)
  <2>1. ASSUME NEW k \in DOMAIN t
        PROVE  t[k] # s[p]
    <3>1. CASE k = Len(t)
      BY <1>5, <1>13, <3>1
    <3>2. CASE k \in 1..(Len(t) - 1) /\ k < p
      BY <1>2, <1>4, <1>7, <1>13, <3>2
    <3>3. CASE k \in 1..(Len(t) - 1) /\ k >= p
      <4>1. k + 1 \in DOMAIN s /\ t[k] = s[k + 1]
        BY <1>4, <3>3
      <4>2. k + 1 # p
        BY <1>2, <3>3
      <4> QED
        BY <1>7, <1>13, <4>1, <4>2
    <3> QED
      BY <1>2, <3>1, <3>2, <3>3
  <2>2. s[p] \notin ToSet(t)
    BY <2>1 DEF ToSet
  <2> QED
    BY <1>1, <1>2, <1>5, <1>13, <2>2 DEF Put
<1>14. ASSUME NEW e \in ToSet(s), e.id # Id(x)
       PROVE  \/ /\ e \in ToSet(t) /\ Id(x) \in Newer(t, e)
                 /\ Newer(t, e) \ {Id(x)} = Newer(s, e) \ {Id(x)}
              \/ /\ Len(s) = CacheSize /\ e = s[1] /\ Evicted(s, x) = {e.nonce} /\ e \notin ToSet(t)
                 /\ \A k \in DOMAIN s : s[k].id # Id(x)
  <2>1. PICK i \in DOMAIN s : e = s[i]
    BY DEF ToSet
  <2> QED
    BY <1>12, <1>13, <1>14, <2>1
<1> QED
  BY <1>1, <1>5, <1>9, <1>10, <1>11, <1>14 DEF After

\* More numbers than places: two share one.
LEMMA TooFewPlaces ==
  ASSUME NEW a \in Int, NEW b \in Int, NEW n \in Nat \ {0}, b - a + 1 < n,
         NEW f \in [1..n -> a..b]
  PROVE  \E k, l \in 1..n : k # l /\ f[k] = f[l]
<1>1. IsFiniteSet(a..b) /\ Cardinality(a..b) = IF a > b THEN 0 ELSE b - a + 1
  BY FS_Interval
<1>2. IsFiniteSet(1..n) /\ Cardinality(1..n) = IF 1 > n THEN 0 ELSE n - 1 + 1
  BY FS_Interval
<1>3. Cardinality(a..b) < Cardinality(1..n)
  BY <1>1, <1>2
<1> QED
  BY <1>1, <1>2, <1>3, FS_PigeonHole

\* A request that has put its name into the one cache does not evict, from the
\* other, the partner of an entry the first still holds: that holds one name
\* more behind it.
LEMMA PartnerStays ==
  ASSUME NEW r \in Cache, NEW g \in Cache, NEW x \in Exchanges,
         r # <<>>, r[Len(r)] = Entry(x),
         NEW e \in ToSet(r), e # Entry(x), e \in ToSet(g), Newer(g, e) \subseteq Newer(r, e)
  PROVE  e \in ToSet(LruPut(g, x)) /\ Newer(LruPut(g, x), e) \subseteq Newer(r, e)
<1>1. /\ Len(r) \in Nat /\ Len(r) <= CacheSize /\ DOMAIN r = 1..Len(r)
      /\ Len(g) \in Nat /\ Len(g) <= CacheSize /\ DOMAIN g = 1..Len(g)
      /\ CacheSize \in Nat \ {0}
  BY ExchangeAssumption DEF Cache
<1>2. Len(r) \in DOMAIN r /\ Len(r) >= 1
  <2>1. r \in Seq(Entries)
    BY DEF Cache
  <2>2. Len(r) # 0
    BY <2>1, EmptySeq
  <2> QED
    BY <1>1, <2>2
<1>3. PICK i \in DOMAIN r : e = r[i]
  BY DEF ToSet
<1>4. i < Len(r)
  BY <1>1, <1>2, <1>3
<1>5. \A n : n \in Newer(r, e) <=> \E k \in DOMAIN r : i < k /\ r[k].id = n
  BY <1>3, NewerIsBehind
<1>6. Id(x) \in Newer(r, e) /\ e.id # Id(x)
  <2>1. r[Len(r)].id = Id(x)
    BY DEF Entry
  <2>2. Id(x) \in Newer(r, e)
    BY <1>2, <1>4, <1>5, <2>1
  <2>3. e.id = Id(x) => i = Len(r)
    BY <1>2, <1>3, <2>1 DEF Cache
  <2> QED
    BY <1>1, <1>4, <2>2, <2>3
<1>7. ~(Len(g) = CacheSize /\ e = g[1] /\ \A k \in DOMAIN g : g[k].id # Id(x))
  <2> SUFFICES ASSUME Len(g) = CacheSize, e = g[1], \A k \in DOMAIN g : g[k].id # Id(x)
               PROVE  FALSE
    OBVIOUS
  <2>1. 1 \in DOMAIN g
    BY <1>1
  <2>2. \A n : n \in Newer(g, e) <=> \E k \in DOMAIN g : 1 < k /\ g[k].id = n
    BY <2>1, NewerIsBehind
  \* Where the names behind e in g, and x, stand in r.
  <2> DEFINE name(k) == IF k = 1 THEN Id(x) ELSE g[k].id
             f == [k \in 1..CacheSize |-> CHOOSE m \in (i + 1)..Len(r) : r[m].id = name(k)]
  <2>3. ASSUME NEW k \in 1..CacheSize
        PROVE  \E m \in (i + 1)..Len(r) : r[m].id = name(k)
    <3>1. name(k) \in Newer(r, e)
      <4>1. CASE k = 1
        BY <1>6, <4>1
      <4>2. CASE k # 1
        <5>1. k \in DOMAIN g /\ 1 < k
          BY <1>1, <4>2
        <5>2. g[k].id \in Newer(g, e)
          BY <2>2, <5>1
        <5> QED
          BY <4>2, <5>2
      <4> QED
        BY <4>1, <4>2
    <3>2. PICK m \in DOMAIN r : i < m /\ r[m].id = name(k)
      BY <1>5, <3>1
    <3>3. m \in (i + 1)..Len(r)
      BY <1>1, <3>2
    <3> QED
      BY <3>2, <3>3
  <2> HIDE DEF name
  <2>4. \A k \in 1..CacheSize : f[k] \in (i + 1)..Len(r) /\ r[f[k]].id = name(k)
    BY <2>3
  <2>5. f \in [1..CacheSize -> (i + 1)..Len(r)]
    BY <2>4
  <2> HIDE DEF f
  <2>6. PICK lo \in Int : lo = i + 1
    <3>1. i + 1 \in Int
      BY <1>1
    <3> QED
      BY <3>1
  <2>7. PICK k, l \in 1..CacheSize : k # l /\ f[k] = f[l]
    <3>1. f \in [1..CacheSize -> lo..Len(r)]
      BY <2>5, <2>6
    <3>2. Len(r) - lo + 1 < CacheSize
      BY <1>1, <2>6
    <3>3. Len(r) \in Int /\ CacheSize \in Nat \ {0}
      BY <1>1
    <3>4. \A h \in [1..CacheSize -> lo..Len(r)] : \E k, l \in 1..CacheSize : k # l /\ h[k] = h[l]
      BY <3>2, <3>3, TooFewPlaces
    <3> QED
      BY <3>1, <3>4
  <2>8. name(k) = name(l)
    BY <2>4, <2>7
  <2>9. k \in DOMAIN g /\ l \in DOMAIN g
    BY <1>1
  <2> QED
    BY <2>7, <2>8, <2>9 DEF Cache, name
<1>8. After(g, x, LruPut(g, x))
  BY AfterPut
<1>9. /\ e \in ToSet(LruPut(g, x))
      /\ Newer(LruPut(g, x), e) \ {Id(x)} = Newer(g, e) \ {Id(x)}
  BY <1>6, <1>7, <1>8 DEF After
<1> QED
  BY <1>6, <1>9

\* An entry is the one of the exchange whose nonce it holds.
LEMMA NonceOfEntry ==
  ASSUME NEW s \in Cache, NEW e \in ToSet(s)
  PROVE  e.nonce \in Exchanges /\ e = Entry(e.nonce)
<1>1. e \in Entries
  BY DEF Cache, ToSet
<1>2. PICK x \in Exchanges : e = Entry(x)
  BY <1>1 DEF Entries
<1>3. e.nonce = x
  BY <1>2 DEF Entry
<1> QED
  BY <1>2, <1>3

\* Only exchanges are evicted.
LEMMA EvictedIsExchange ==
  ASSUME NEW s \in Cache, NEW x \in Exchanges
  PROVE  Evicted(s, x) \subseteq Exchanges
<1>1. s \in Seq(Entries) /\ DOMAIN s = 1..Len(s)
  BY DEF Cache
<1>2. Others(s, x) \in Seq(Entries)
  <2>1. CASE Places(s, x) = {}
    BY <1>1, <2>1 DEF Others
  <2>2. CASE Places(s, x) # {}
    <3>1. PICK p \in Places(s, x) : p = CHOOSE i \in Places(s, x) : TRUE
      BY <2>2
    <3>2. Others(s, x) = RemoveAt(s, p) /\ p \in 1..Len(s)
      BY <1>1, <2>2, <3>1 DEF Others, Places
    <3> QED
      BY <1>1, <3>2, RemoveAtProperties
  <2> QED
    BY <2>1, <2>2
<1>3. CASE Full(s, x)
  <2>1. Others(s, x) # <<>>
    BY <1>2, <1>3, ExchangeAssumption, EmptySeq DEF Full
  <2>2. Head(Others(s, x)) \in Entries
    BY <1>2, <2>1, HeadTailProperties
  <2>3. PICK y \in Exchanges : Head(Others(s, x)) = Entry(y)
    BY <2>2 DEF Entries
  <2>4. Head(Others(s, x)).nonce \in Exchanges
    BY <2>3 DEF Entry
  <2> QED
    BY <1>3, <2>4 DEF Evicted
<1>4. CASE ~Full(s, x)
  BY <1>4 DEF Evicted
<1> QED
  BY <1>3, <1>4

-----------------------------------------------------------------------------
(* The nonce exchange: its steps                                           *)

\* What names are made of never changes.
LEMMA NamesStay ==
  ASSUME UNCHANGED <<secure, certOk>>
  PROVE  /\ Cache' = Cache
         /\ \A x \in Exchanges : Id(x)' = Id(x) /\ Entry(x)' = Entry(x)
<1>1. \A x \in Exchanges : Id(x)' = Id(x)
  BY DEF Id, ClientInfo, CertOf
<1>2. \A x \in Exchanges : Entry(x)' = Entry(x)
  BY <1>1 DEF Entry
<1>3. Entries' = Entries
  BY <1>2 DEF Entries
<1> QED
  BY <1>1, <1>2, <1>3 DEF Cache

\* Nobody has sent anything.
LEMMA ExchangeStarts == ExchangeInit => ExchangeInv
<1> SUFFICES ASSUME ExchangeInit PROVE ExchangeInv
  OBVIOUS
<1> USE ExchangeAssumption DEF ExchangeInit
<1>1. <<>> \in Cache
  BY DEF Cache
<1>2. ToSet(received) = {}
  BY DEF ToSet
<1>3. ExchangeTypeOK
  BY <1>1 DEF ExchangeTypeOK
<1>4. LockInv
  BY DEF LockInv
<1>5. PairInv
  BY <1>2 DEF PairInv
<1>6. UndisturbedInv
  BY DEF UndisturbedInv, InFlight
<1>7. ClientInv
  BY DEF ClientInv
<1> QED
  BY <1>3, <1>4, <1>5, <1>6, <1>7 DEF ExchangeInv

\* Nothing but the place of an exchange changes, and what is disturbed.
LEMMA QuietStep ==
  ASSUME ExchangeInv, NEW x \in Exchanges,
         \/ SendNonce(x) \/ RefuseClient(x) \/ RefuseNonce(x)
         \/ LoseResponse(x) \/ RefuseServer(x)
  PROVE  ExchangeInv'
<1> USE ExchangeAssumption
<1>1. /\ UNCHANGED <<secure, certOk, caches, clientSide, halves>>
      /\ \/ /\ phase[x] = "idle" /\ phase' = [phase EXCEPT ![x] = "sent"]
            /\ disturbed' = IF Overlapping(x) = {} THEN disturbed
                            ELSE disturbed \cup Overlapping(x) \cup {x}
         \/ /\ phase[x] \in {"idle", "sent", "answered"} /\ phase' = [phase EXCEPT ![x] = "failed"]
            /\ disturbed' = disturbed
  BY DEF SendNonce, RefuseClient, RefuseNonce, LoseResponse, RefuseServer, Goto
<1>2. UNCHANGED <<secure, certOk, received, generated, holder, mine, writer, halves>>
  BY <1>1 DEF caches, clientSide
<1>3. Cache' = Cache /\ \A y \in Exchanges : Id(y)' = Id(y) /\ Entry(y)' = Entry(y)
  BY <1>1, NamesStay
<1>4. ExchangeTypeOK /\ ExchangeTypeOK'
  BY <1>1, <1>2, <1>3 DEF ExchangeInv, ExchangeTypeOK, Overlapping
<1>5. \A y \in Exchanges : \/ phase'[y] = phase[y]
                           \/ y = x /\ /\ phase[y] \in {"idle", "sent", "answered"}
                                       /\ phase'[y] \in {"sent", "failed"}
  BY <1>1, <1>4 DEF ExchangeTypeOK
<1>6. LockInv'
  <2>1. LockInv
    BY DEF ExchangeInv
  <2>2. \A y \in halves : y \in Exchanges /\ phase'[y] = "failed"
    BY <1>4, <1>5, <2>1 DEF LockInv, ExchangeTypeOK
  <2>3. \A y \in Exchanges : /\ phase'[y] = "half" <=> phase[y] = "half"
                             /\ phase'[y] = "storing" <=> phase[y] = "storing"
    BY <1>5
  <2> QED
    BY <1>2, <1>3, <2>1, <2>2, <2>3 DEF LockInv
<1>7. PairInv'
  BY <1>2 DEF ExchangeInv, PairInv
<1>8. UndisturbedInv'
  <2>1. UndisturbedInv
    BY DEF ExchangeInv
  <2>2. disturbed \subseteq disturbed'
    BY <1>1
  <2>3. ASSUME NEW y \in Exchanges, NEW z \in Exchanges, y # z,
               InFlight(y)', InFlight(z)', Id(y)' = Id(z)'
        PROVE  {y, z} \subseteq disturbed'
    <3>1. Id(y) = Id(z)
      BY <1>3, <2>3
    <3>2. CASE InFlight(y) /\ InFlight(z)
      BY <2>1, <2>2, <2>3, <3>1, <3>2 DEF UndisturbedInv
    <3>3. CASE ~InFlight(y) \/ ~InFlight(z)
      <4>1. /\ disturbed' = IF Overlapping(x) = {} THEN disturbed
                            ELSE disturbed \cup Overlapping(x) \cup {x}
            /\ \/ x = y /\ InFlight(z)
               \/ x = z /\ InFlight(y)
        BY <1>1, <1>4, <1>5, <2>3, <3>3 DEF InFlight, ExchangeTypeOK
      <4>2. CASE x = y /\ InFlight(z)
        <5>1. z \in Overlapping(x)
          BY <2>3, <3>1, <4>2 DEF Overlapping
        <5> QED
          BY <4>1, <4>2, <5>1
      <4>3. CASE x = z /\ InFlight(y)
        <5>1. y \in Overlapping(x)
          BY <2>3, <3>1, <4>3 DEF Overlapping
        <5> QED
          BY <4>1, <4>3, <5>1
      <4> QED
        BY <4>1, <4>2, <4>3
    <3> QED
      BY <3>2, <3>3
  <2>4. ASSUME NEW y \in Exchanges \ disturbed', phase'[y] \in {"half", "answered", "storing"}
        PROVE  Entry(y)' \in ToSet(received')
    <3>1. y \in Exchanges \ disturbed /\ phase[y] \in {"half", "answered", "storing"}
      BY <1>5, <2>2, <2>4
    <3>2. Entry(y) \in ToSet(received)
      BY <2>1, <3>1 DEF UndisturbedInv
    <3> QED
      BY <1>2, <1>3, <3>2
  <2> QED
    BY <2>3, <2>4 DEF UndisturbedInv
<1>9. ClientInv'
  BY <1>2 DEF ExchangeInv, ClientInv
<1> QED
  BY <1>4, <1>6, <1>7, <1>8, <1>9 DEF ExchangeInv

\* The name moves to the end of what was received, and may push out another.
LEMMA StoreReceivedStep ==
  ASSUME ExchangeInv, NEW x \in Exchanges, StoreReceived(x)
  PROVE  ExchangeInv'
<1> USE ExchangeAssumption
<1>1. /\ phase[x] = "sent" /\ phase' = [phase EXCEPT ![x] = "half"]
      /\ holder = NoExchange /\ holder' = x
      /\ received' = LruPut(received, x)
      /\ disturbed' = disturbed \cup Evicted(received, x)
      /\ UNCHANGED <<secure, certOk, generated, mine, writer, halves>>
  BY DEF StoreReceived, Goto, clientSide
<1>2. /\ ExchangeTypeOK /\ LockInv /\ PairInv /\ UndisturbedInv /\ ClientInv
      /\ received \in Cache /\ generated \in Cache
  BY DEF ExchangeInv, ExchangeTypeOK
<1>3. Cache' = Cache /\ \A y \in Exchanges : Id(y)' = Id(y) /\ Entry(y)' = Entry(y)
  BY <1>1, NamesStay
<1>4. After(received, x, received')
  BY <1>1, <1>2, AfterPut
<1>5. Evicted(received, x) \subseteq Exchanges
  BY <1>2, EvictedIsExchange
<1>6. ExchangeTypeOK'
  <2>1. received' \in Cache' /\ generated' \in Cache'
    BY <1>1, <1>2, <1>3, <1>4 DEF After
  <2> QED
    BY <1>1, <1>2, <1>5, <2>1 DEF ExchangeTypeOK
<1>7. /\ phase'[x] = "half"
      /\ \A y \in Exchanges : y # x => phase'[y] = phase[y]
  BY <1>1, <1>2 DEF ExchangeTypeOK
<1>8. x \notin halves /\ \A y \in Exchanges : phase[y] # "half"
  BY <1>1, <1>2 DEF LockInv
<1>9. LockInv'
  <2>1. \A y \in Exchanges : phase'[y] = "half" <=> holder' = y
    BY <1>1, <1>7, <1>8
  <2>2. \A y \in Exchanges : phase'[y] = "storing" <=> writer'[ClientOf[y]] = y
    BY <1>1, <1>2, <1>7 DEF LockInv
  <2>3. \A y \in Exchanges : holder' = y => received' # <<>> /\ received'[Len(received')] = Entry(y)'
    BY <1>1, <1>3, <1>4 DEF After
  <2>4. \A y \in halves' : phase'[y] = "failed"
    BY <1>1, <1>2, <1>7, <1>8 DEF LockInv, ExchangeTypeOK
  <2>5. \A c \in Clients : writer'[c] # NoExchange => /\ ClientOf[writer'[c]] = c
                                                      /\ mine'[c].received = writer'[c]
    BY <1>1, <1>2 DEF LockInv
  <2> QED
    BY <2>1, <2>2, <2>3, <2>4, <2>5 DEF LockInv
<1>10. PairInv'
  <2>1. ASSUME NEW e \in ToSet(received'), e.nonce \notin halves' \cup {holder'}
        PROVE  e \in ToSet(generated') /\ Newer(generated', e) \subseteq Newer(received', e)
    <3>1. e # Entry(x)
      BY <1>1, <2>1 DEF Entry
    <3>2. e \in ToSet(received) /\ e.id # Id(x)
      BY <1>4, <2>1, <3>1 DEF After
    <3>3. e.nonce \notin halves \cup {holder}
      <4>1. e.nonce \in Exchanges
        BY <1>2, <3>2, NonceOfEntry
      <4> QED
        BY <1>1, <2>1, <4>1
    <3>4. e \in ToSet(generated) /\ Newer(generated, e) \subseteq Newer(received, e)
      BY <1>2, <3>2, <3>3 DEF PairInv
    <3>5. Newer(received, e) \subseteq Newer(received', e)
      <4>1. \/ Newer(received', e) \ {Id(x)} = Newer(received, e) \ {Id(x)} /\ Id(x) \in Newer(received', e)
            \/ e \notin ToSet(received')
        BY <1>4, <3>2 DEF After
      <4> QED
        BY <2>1, <3>2, <4>1
    <3> QED
      BY <1>1, <3>4, <3>5
  <2> QED
    BY <2>1 DEF PairInv
<1>11. UndisturbedInv'
  <2>1. ASSUME NEW y \in Exchanges, NEW z \in Exchanges, y # z,
               InFlight(y)', InFlight(z)', Id(y)' = Id(z)'
        PROVE  {y, z} \subseteq disturbed'
    <3>1. InFlight(y) /\ InFlight(z) /\ Id(y) = Id(z)
      BY <1>1, <1>3, <1>7, <2>1 DEF InFlight
    <3> QED
      BY <1>1, <1>2, <2>1, <3>1 DEF UndisturbedInv
  <2>2. ASSUME NEW y \in Exchanges \ disturbed', phase'[y] \in {"half", "answered", "storing"}
        PROVE  Entry(y)' \in ToSet(received')
    <3>1. CASE y = x
      BY <1>3, <1>4, <3>1 DEF After
    <3>2. CASE y # x
      <4>1. phase[y] \in {"half", "answered", "storing"} /\ y \notin disturbed
        BY <1>1, <1>7, <2>2, <3>2
      <4>2. Entry(y) \in ToSet(received)
        BY <1>2, <4>1 DEF UndisturbedInv
      <4>3. Id(y) # Id(x)
        BY <1>1, <1>2, <3>2, <4>1 DEF UndisturbedInv, InFlight
      <4>4. Entry(y).id = Id(y) /\ Entry(y).nonce = y
        BY DEF Entry
      <4>5. Entry(y) \in ToSet(received') \/ Evicted(received, x) = {y}
        BY <1>4, <4>2, <4>3, <4>4 DEF After
      <4> QED
        BY <1>1, <1>3, <2>2, <4>5
    <3> QED
      BY <3>1, <3>2
  <2> QED
    BY <2>1, <2>2 DEF UndisturbedInv
<1>12. ClientInv'
  BY <1>1, <1>2 DEF ClientInv
<1> QED
  BY <1>6, <1>9, <1>10, <1>11, <1>12 DEF ExchangeInv

\* The request that holds the lock completes its pair: nothing it evicts from
\* what was generated still has a partner.
LEMMA StoreGeneratedStep ==
  ASSUME ExchangeInv, NEW x \in Exchanges, StoreGenerated(x)
  PROVE  ExchangeInv'
<1> USE ExchangeAssumption
<1>1. /\ phase[x] = "half" /\ phase' = [phase EXCEPT ![x] = "answered"]
      /\ holder' = NoExchange
      /\ generated' = LruPut(generated, x)
      /\ UNCHANGED <<secure, certOk, received, mine, writer, halves, disturbed>>
  BY DEF StoreGenerated, Goto, clientSide
<1>2. /\ ExchangeTypeOK /\ LockInv /\ PairInv /\ UndisturbedInv /\ ClientInv
      /\ received \in Cache /\ generated \in Cache
  BY DEF ExchangeInv, ExchangeTypeOK
<1>3. Cache' = Cache /\ \A y \in Exchanges : Id(y)' = Id(y) /\ Entry(y)' = Entry(y)
  BY <1>1, NamesStay
<1>4. After(generated, x, generated')
  BY <1>1, <1>2, AfterPut
<1>5. holder = x /\ received # <<>> /\ received[Len(received)] = Entry(x)
  BY <1>1, <1>2 DEF LockInv
<1>6. ExchangeTypeOK'
  <2>1. received' \in Cache' /\ generated' \in Cache'
    BY <1>1, <1>2, <1>3, <1>4 DEF After
  <2> QED
    BY <1>1, <1>2, <2>1 DEF ExchangeTypeOK
<1>7. /\ phase'[x] = "answered"
      /\ \A y \in Exchanges : y # x => phase'[y] = phase[y]
  BY <1>1, <1>2 DEF ExchangeTypeOK
<1>8. LockInv'
  <2>1. \A y \in Exchanges : phase'[y] = "half" <=> holder' = y
    BY <1>1, <1>2, <1>5, <1>7 DEF LockInv
  <2>2. \A y \in Exchanges : phase'[y] = "storing" <=> writer'[ClientOf[y]] = y
    BY <1>1, <1>2, <1>7 DEF LockInv
  <2>3. \A y \in Exchanges : holder' = y => received' # <<>> /\ received'[Len(received')] = Entry(y)'
    BY <1>1
  <2>4. \A y \in halves' : phase'[y] = "failed"
    BY <1>1, <1>2, <1>7 DEF LockInv, ExchangeTypeOK
  <2>5. \A c \in Clients : writer'[c] # NoExchange => /\ ClientOf[writer'[c]] = c
                                                      /\ mine'[c].received = writer'[c]
    BY <1>1, <1>2 DEF LockInv
  <2> QED
    BY <2>1, <2>2, <2>3, <2>4, <2>5 DEF LockInv
<1>9. PairInv'
  <2>1. ASSUME NEW e \in ToSet(received'), e.nonce \notin halves' \cup {holder'}
        PROVE  e \in ToSet(generated') /\ Newer(generated', e) \subseteq Newer(received', e)
    <3>1. e \in ToSet(received) /\ e.nonce \notin halves
      BY <1>1, <2>1
    <3>2. CASE e = Entry(x)
      BY <1>4, <3>2 DEF After
    <3>3. CASE e # Entry(x)
      <4>1. e.nonce # x
        BY <1>2, <3>1, <3>3, NonceOfEntry
      <4>2. e \in ToSet(generated) /\ Newer(generated, e) \subseteq Newer(received, e)
        BY <1>2, <1>5, <3>1, <4>1 DEF PairInv
      <4>3. /\ e \in ToSet(LruPut(generated, x))
            /\ Newer(LruPut(generated, x), e) \subseteq Newer(received, e)
        BY <1>2, <1>5, <3>1, <3>3, <4>2, PartnerStays
      <4> QED
        BY <1>1, <4>3
    <3> QED
      BY <3>2, <3>3
  <2> QED
    BY <2>1 DEF PairInv
<1>10. UndisturbedInv'
  <2>1. ASSUME NEW y \in Exchanges, NEW z \in Exchanges, y # z,
               InFlight(y)', InFlight(z)', Id(y)' = Id(z)'
        PROVE  {y, z} \subseteq disturbed'
    <3>1. InFlight(y) /\ InFlight(z) /\ Id(y) = Id(z)
      BY <1>1, <1>3, <1>7, <2>1 DEF InFlight
    <3> QED
      BY <1>1, <1>2, <2>1, <3>1 DEF UndisturbedInv
  <2>2. ASSUME NEW y \in Exchanges \ disturbed', phase'[y] \in {"half", "answered", "storing"}
        PROVE  Entry(y)' \in ToSet(received')
    <3>1. phase[y] \in {"half", "answered", "storing"} /\ y \notin disturbed
      BY <1>1, <1>7, <2>2
    <3>2. Entry(y) \in ToSet(received)
      BY <1>2, <3>1 DEF UndisturbedInv
    <3> QED
      BY <1>1, <1>3, <3>2
  <2> QED
    BY <2>1, <2>2 DEF UndisturbedInv
<1>11. ClientInv'
  BY <1>1, <1>2 DEF ClientInv
<1> QED
  BY <1>6, <1>8, <1>9, <1>10, <1>11 DEF ExchangeInv

\* A dropped request leaves its place, and its half pair is remembered.
LEMMA DropRequestStep ==
  ASSUME ExchangeInv, NEW x \in Exchanges, DropRequest(x)
  PROVE  ExchangeInv'
<1> USE ExchangeAssumption
<1>1. /\ phase[x] \in {"sent", "half"} /\ phase' = [phase EXCEPT ![x] = "failed"]
      /\ holder' = IF holder = x THEN NoExchange ELSE holder
      /\ halves' = IF phase[x] = "half" THEN halves \cup {x} ELSE halves
      /\ UNCHANGED <<secure, certOk, received, generated, mine, writer, disturbed>>
  BY DEF DropRequest, Goto, clientSide
<1>2. ExchangeTypeOK /\ LockInv /\ PairInv /\ UndisturbedInv /\ ClientInv
  BY DEF ExchangeInv
<1>3. Cache' = Cache /\ \A y \in Exchanges : Id(y)' = Id(y) /\ Entry(y)' = Entry(y)
  BY <1>1, NamesStay
<1>4. ExchangeTypeOK'
  BY <1>1, <1>2, <1>3 DEF ExchangeTypeOK
<1>5. /\ phase'[x] = "failed"
      /\ \A y \in Exchanges : y # x => phase'[y] = phase[y]
  BY <1>1, <1>2 DEF ExchangeTypeOK
<1>6. holder = x <=> phase[x] = "half"
  BY <1>2 DEF LockInv
<1>7. LockInv'
  <2>1. \A y \in Exchanges : phase'[y] = "half" <=> holder' = y
    BY <1>1, <1>2, <1>5, <1>6 DEF LockInv
  <2>2. \A y \in Exchanges : phase'[y] = "storing" <=> writer'[ClientOf[y]] = y
    BY <1>1, <1>2, <1>5 DEF LockInv
  <2>3. \A y \in Exchanges : holder' = y => received' # <<>> /\ received'[Len(received')] = Entry(y)'
    BY <1>1, <1>2, <1>3 DEF LockInv
  <2>4. \A y \in halves' : phase'[y] = "failed"
    BY <1>1, <1>2, <1>5 DEF LockInv, ExchangeTypeOK
  <2>5. \A c \in Clients : writer'[c] # NoExchange => /\ ClientOf[writer'[c]] = c
                                                      /\ mine'[c].received = writer'[c]
    BY <1>1, <1>2 DEF LockInv
  <2> QED
    BY <2>1, <2>2, <2>3, <2>4, <2>5 DEF LockInv
<1>8. PairInv'
  <2>1. ASSUME NEW e \in ToSet(received'), e.nonce \notin halves' \cup {holder'}
        PROVE  e \in ToSet(generated') /\ Newer(generated', e) \subseteq Newer(received', e)
    <3>1. e.nonce \notin halves \cup {holder}
      BY <1>1, <1>6, <2>1
    <3> QED
      BY <1>1, <1>2, <2>1, <3>1 DEF PairInv
  <2> QED
    BY <2>1 DEF PairInv
<1>9. UndisturbedInv'
  <2>1. ASSUME NEW y \in Exchanges, NEW z \in Exchanges, y # z,
               InFlight(y)', InFlight(z)', Id(y)' = Id(z)'
        PROVE  {y, z} \subseteq disturbed'
    <3>1. InFlight(y) /\ InFlight(z) /\ Id(y) = Id(z)
      BY <1>3, <1>5, <2>1 DEF InFlight
    <3> QED
      BY <1>1, <1>2, <2>1, <3>1 DEF UndisturbedInv
  <2>2. ASSUME NEW y \in Exchanges \ disturbed', phase'[y] \in {"half", "answered", "storing"}
        PROVE  Entry(y)' \in ToSet(received')
    <3>1. phase[y] \in {"half", "answered", "storing"} /\ y \notin disturbed
      BY <1>1, <1>5, <2>2
    <3>2. Entry(y) \in ToSet(received)
      BY <1>2, <3>1 DEF UndisturbedInv
    <3> QED
      BY <1>1, <1>3, <3>2
  <2> QED
    BY <2>1, <2>2 DEF UndisturbedInv
<1>10. ClientInv'
  BY <1>1, <1>2 DEF ClientInv
<1> QED
  BY <1>4, <1>7, <1>8, <1>9, <1>10 DEF ExchangeInv

\* A restart empties both caches and disturbs whatever is under way.
LEMMA RestartStep ==
  ASSUME ExchangeInv, Restart
  PROVE  ExchangeInv'
<1> USE ExchangeAssumption
<1>1. /\ received' = <<>> /\ generated' = <<>> /\ holder' = NoExchange
      /\ phase' = [x \in Exchanges |-> IF phase[x] \in {"sent", "half"} THEN "failed" ELSE phase[x]]
      /\ halves' = {}
      /\ disturbed' = disturbed \cup {x \in Exchanges : InFlight(x)}
      /\ UNCHANGED <<secure, certOk, mine, writer>>
  BY DEF Restart, clientSide
<1>2. ExchangeTypeOK /\ LockInv /\ PairInv /\ UndisturbedInv /\ ClientInv
  BY DEF ExchangeInv
<1>3. Cache' = Cache /\ <<>> \in Cache
  <2>1. Cache' = Cache
    BY <1>1, NamesStay
  <2>2. <<>> \in Cache
    BY DEF Cache
  <2> QED
    BY <2>1, <2>2
<1>4. ExchangeTypeOK'
  BY <1>1, <1>2, <1>3 DEF ExchangeTypeOK
<1>5. \A x \in Exchanges : /\ phase'[x] # "half"
                           /\ phase'[x] = "storing" <=> phase[x] = "storing"
                           /\ InFlight(x)' => x \in disturbed'
  BY <1>1, <1>2 DEF ExchangeTypeOK, InFlight
<1>6. LockInv'
  BY <1>1, <1>2, <1>5 DEF LockInv
<1>7. PairInv'
  <2>1. ToSet(received') = {}
    BY <1>1 DEF ToSet
  <2> QED
    BY <2>1 DEF PairInv
<1>8. UndisturbedInv'
  BY <1>1, <1>5 DEF UndisturbedInv, InFlight
<1>9. ClientInv'
  BY <1>1, <1>2 DEF ClientInv
<1> QED
  BY <1>4, <1>6, <1>7, <1>8, <1>9 DEF ExchangeInv

\* The client writes its two caches under the lock of the first.
LEMMA ClientStep ==
  ASSUME ExchangeInv, NEW x \in Exchanges, ReceiveNonce(x) \/ ReturnNonce(x)
  PROVE  ExchangeInv'
<1> USE ExchangeAssumption
<1>1. UNCHANGED <<secure, certOk, received, generated, holder, halves, disturbed>>
  BY DEF ReceiveNonce, ReturnNonce, caches
<1>2. ExchangeTypeOK /\ LockInv /\ PairInv /\ UndisturbedInv /\ ClientInv
  BY DEF ExchangeInv
<1>3. Cache' = Cache /\ \A y \in Exchanges : Id(y)' = Id(y) /\ Entry(y)' = Entry(y)
  BY <1>1, NamesStay
<1>4. PICK c \in Clients : c = ClientOf[x]
  OBVIOUS
<1>5. \/ /\ phase[x] = "answered" /\ phase' = [phase EXCEPT ![x] = "storing"]
         /\ writer[c] = NoExchange /\ writer' = [writer EXCEPT ![c] = x]
         /\ mine' = [mine EXCEPT ![c].received = x]
      \/ /\ phase[x] = "storing" /\ phase' = [phase EXCEPT ![x] = "ok"]
         /\ writer' = [writer EXCEPT ![c] = NoExchange]
         /\ mine' = [mine EXCEPT ![c].generated = x]
  BY <1>4 DEF ReceiveNonce, ReturnNonce, Goto
<1>6. ExchangeTypeOK'
  <2>1. /\ mine \in [Clients -> [received : Exchanges \cup {NoExchange},
                                 generated : Exchanges \cup {NoExchange}]]
        /\ writer \in [Clients -> Exchanges \cup {NoExchange}]
    BY <1>2 DEF ExchangeTypeOK
  <2>2. writer' \in [Clients -> Exchanges \cup {NoExchange}]
    BY <1>5, <2>1
  <2>3. mine' \in [Clients -> [received : Exchanges \cup {NoExchange},
                              generated : Exchanges \cup {NoExchange}]]
    <3>1. CASE mine' = [mine EXCEPT ![c].received = x]
      BY <2>1, <3>1
    <3>2. CASE mine' = [mine EXCEPT ![c].generated = x]
      BY <2>1, <3>2
    <3> QED
      BY <1>5, <3>1, <3>2
  <2>4. phase' \in [Exchanges -> {"idle", "sent", "half", "answered", "storing", "ok", "failed"}]
    BY <1>2, <1>5 DEF ExchangeTypeOK
  <2> QED
    BY <1>1, <1>2, <1>3, <2>2, <2>3, <2>4 DEF ExchangeTypeOK
<1>7. \A y \in Exchanges : y # x => phase'[y] = phase[y]
  BY <1>2, <1>5 DEF ExchangeTypeOK
<1>8. \A d \in Clients : d # c => writer'[d] = writer[d] /\ mine'[d] = mine[d]
  BY <1>2, <1>5 DEF ExchangeTypeOK
<1>9. \/ /\ phase[x] = "answered" /\ phase'[x] = "storing"
         /\ writer[c] = NoExchange /\ writer'[c] = x /\ mine'[c].received = x
      \/ /\ phase[x] = "storing" /\ phase'[x] = "ok"
         /\ writer[c] = x /\ writer'[c] = NoExchange
         /\ mine[c].received = x
         /\ mine'[c].received = mine[c].received /\ mine'[c].generated = x
  BY <1>2, <1>4, <1>5 DEF ExchangeTypeOK, LockInv
<1>10. LockInv'
  <2>1. \A y \in Exchanges : phase'[y] = "half" <=> holder' = y
    BY <1>1, <1>2, <1>7, <1>9 DEF LockInv
  <2>2. ASSUME NEW y \in Exchanges
        PROVE  phase'[y] = "storing" <=> writer'[ClientOf[y]] = y
    <3>1. phase[y] = "storing" <=> writer[ClientOf[y]] = y
      BY <1>2 DEF LockInv
    <3>2. CASE y = x
      BY <1>4, <1>9, <3>2
    <3>3. CASE y # x
      BY <1>7, <1>8, <1>9, <3>1, <3>3
    <3> QED
      BY <3>2, <3>3
  <2>3. \A y \in Exchanges : holder' = y => received' # <<>> /\ received'[Len(received')] = Entry(y)'
    BY <1>1, <1>2, <1>3 DEF LockInv
  <2>4. \A y \in halves' : phase'[y] = "failed"
    BY <1>1, <1>2, <1>7, <1>9 DEF LockInv, ExchangeTypeOK
  <2>5. \A d \in Clients : writer'[d] # NoExchange => /\ ClientOf[writer'[d]] = d
                                                      /\ mine'[d].received = writer'[d]
    BY <1>2, <1>4, <1>8, <1>9 DEF LockInv
  <2> QED
    BY <2>1, <2>2, <2>3, <2>4, <2>5 DEF LockInv
<1>11. PairInv'
  BY <1>1, <1>2 DEF PairInv
<1>12. UndisturbedInv'
  <2>1. \A y \in Exchanges : InFlight(y)' => InFlight(y)
    BY <1>7, <1>9 DEF InFlight
  <2>2. \A y \in Exchanges : phase'[y] \in {"half", "answered", "storing"}
                               => phase[y] \in {"half", "answered", "storing"}
    BY <1>7, <1>9
  <2>3. \A y, z \in Exchanges :
          y # z /\ InFlight(y)' /\ InFlight(z)' /\ Id(y)' = Id(z)' => {y, z} \subseteq disturbed'
    BY <1>1, <1>2, <1>3, <2>1 DEF UndisturbedInv
  <2>4. \A y \in Exchanges \ disturbed' :
          phase'[y] \in {"half", "answered", "storing"} => Entry(y)' \in ToSet(received')
    BY <1>1, <1>2, <1>3, <2>2 DEF UndisturbedInv
  <2> QED
    BY <2>3, <2>4 DEF UndisturbedInv
<1>13. ClientInv'
  BY <1>2, <1>8, <1>9 DEF ClientInv
<1> QED
  BY <1>6, <1>10, <1>11, <1>12, <1>13 DEF ExchangeInv

\* Every step of the exchange preserves the invariant.
LEMMA ExchangeInductive == ExchangeInv /\ [ExchangeNext]_exchangeVars => ExchangeInv'
<1> SUFFICES ASSUME ExchangeInv, [ExchangeNext]_exchangeVars
             PROVE  ExchangeInv'
  OBVIOUS
<1>1. CASE ExchangeNext
  BY <1>1, QuietStep, StoreReceivedStep, StoreGeneratedStep, DropRequestStep, RestartStep, ClientStep
     DEF ExchangeNext
<1>2. CASE UNCHANGED exchangeVars
  <2>1. UNCHANGED <<secure, certOk, phase, received, generated, holder, mine, writer, halves, disturbed>>
    BY <1>2 DEF exchangeVars, caches, clientSide
  <2>2. Cache' = Cache /\ \A y \in Exchanges : Id(y)' = Id(y) /\ Entry(y)' = Entry(y)
    BY <2>1, NamesStay
  <2>3. ExchangeTypeOK'
    BY <2>1, <2>2 DEF ExchangeInv, ExchangeTypeOK
  <2>4. LockInv' /\ PairInv' /\ ClientInv'
    BY <2>1, <2>2 DEF ExchangeInv, LockInv, PairInv, ClientInv
  <2>5. UndisturbedInv'
    BY <2>1, <2>2 DEF ExchangeInv, UndisturbedInv, InFlight
  <2> QED
    BY <2>3, <2>4, <2>5 DEF ExchangeInv
<1> QED
  BY <1>1, <1>2

-----------------------------------------------------------------------------
(* What the exchange promises                                              *)

\* The two caches of each end move as one, for any number of clients, exchanges
\* and restarts and any capacity: an entry of nonce_exchange's received nonces
\* is there without its partner only for a request dropped between the puts.
THEOREM PairsStay == ExchangeSpec => []PairsFromOneExchange
<1>1. ExchangeInv => PairsFromOneExchange
  BY DEF ExchangeInv, PairInv, ClientInv, PairsFromOneExchange
<1> QED
  BY <1>1, ExchangeStarts, ExchangeInductive, PTL DEF ExchangeSpec

\* When LsHttpClientV3::nonce returns, both ends hold the nonces of this
\* exchange, save the named disturbances.
THEOREM EndsHoldTheSame == ExchangeSpec => EndsAgree
<1> DEFINE Agreement ==
      \A x \in Exchanges : phase[x] # "ok" /\ phase'[x] = "ok" /\ x \notin disturbed =>
        /\ Entry(x) \in ToSet(received') \cap ToSet(generated')
        /\ mine'[ClientOf[x]] = [received |-> x, generated |-> x]
<1>1. ASSUME ExchangeInv, ExchangeNext, NEW x \in Exchanges,
             phase[x] # "ok", phase'[x] = "ok", x \notin disturbed
      PROVE  /\ Entry(x) \in ToSet(received') \cap ToSet(generated')
             /\ mine'[ClientOf[x]] = [received |-> x, generated |-> x]
  <2>1. ExchangeTypeOK /\ LockInv /\ PairInv /\ UndisturbedInv /\ ClientInv
    BY <1>1 DEF ExchangeInv
  <2>2. ReturnNonce(x)
    BY <1>1, <2>1 DEF ExchangeNext, SendNonce, RefuseClient, RefuseNonce, StoreReceived, StoreGenerated,
                      DropRequest, LoseResponse, RefuseServer, ReceiveNonce, ReturnNonce, Restart, Goto,
                      ExchangeTypeOK
  <2>3. PICK c \in Clients : c = ClientOf[x]
    BY ExchangeAssumption
  <2>4. /\ phase[x] = "storing" /\ mine' = [mine EXCEPT ![c].generated = x]
        /\ UNCHANGED <<received, generated>>
    BY <2>2, <2>3 DEF ReturnNonce, caches
  <2>5. writer[c] = x /\ mine[c].received = x
    BY <2>1, <2>3, <2>4, ExchangeAssumption DEF LockInv
  <2>6. mine'[c] = [received |-> x, generated |-> x]
    BY <2>1, <2>4, <2>5 DEF ExchangeTypeOK
  <2>7. Entry(x) \in ToSet(received) /\ Entry(x).nonce = x
    BY <1>1, <2>1, <2>4 DEF UndisturbedInv, Entry
  <2>8. x \notin halves \cup {holder}
    BY <2>1, <2>4 DEF LockInv
  <2>9. Entry(x) \in ToSet(generated)
    BY <2>1, <2>7, <2>8 DEF PairInv
  <2> QED
    BY <2>3, <2>4, <2>6, <2>7, <2>9
<1>2. ExchangeInv /\ [ExchangeNext]_exchangeVars => [Agreement]_exchangeVars
  BY <1>1
<1> QED
  BY <1>2, ExchangeStarts, ExchangeInductive, PTL DEF ExchangeSpec, EndsAgree

-----------------------------------------------------------------------------
(* The inductive invariant of the calls                                    *)

Events ==
  [type : {"register"}, info : [fingerprint : {Me, NoKey}, download : BOOLEAN]]
    \cup [type : {"prepare", "sessionEnd", "cancelReceived"}, session : Calls]
    \cup [type : {"show"}, args : Calls]

CallTypeOK ==
  /\ TypeOK
  /\ DOMAIN req = Calls /\ DOMAIN reply = Calls /\ DOMAIN result = Calls
  /\ emitting \in [Calls -> Events \cup {None}]
  /\ events \in [Devices -> Seq(Events)]
  /\ seen \in [Devices -> SUBSET Events]
  /\ \A c \in Calls : pc[c] \in {"emit", "decide", "replied", "over"} => by[c] \in Devices

IsCall(c, version, path) == req[c].url.version = version /\ req[c].url.path = path

\* What is asked for: only a session that a v2 server created is cancelled.
RequestOf(c) ==
  pc[c] # "idle" =>
    /\ IsCall(c, "v2", "register") => req[c].body \in [fingerprint : {Me, NoKey}, download : BOOLEAN]
    /\ req[c].url.path = "cancel" => req[c].url.params[1] \in Calls /\ V2On

Claim(c) == [call |-> c, active |-> FALSE]

\* What a handler is about to send, and its claim of the slot.
HandlerOf(c) ==
  /\ pc[c] \in {"emit", "decide"} => emitting[c] \in Events
  /\ pc[c] = "decide" => emitting[c] = Offer(c)
  /\ pc[c] \in {"emit", "decide"} /\ req[c].url.path = "prepare-upload" => emitting[c].type = "prepare"
  /\ pc[c] \in {"emit", "decide"} /\ emitting[c].type = "prepare" =>
       /\ emitting[c] = Offer(c) /\ IsCall(c, "v2", "prepare-upload") /\ V2On
       /\ slot[by[c]] = Claim(c)

\* The slot is claimed by a handler that runs, or holds the session of an
\* answer that grants it.
SlotOf(d) ==
  slot[d] # None =>
    /\ by[slot[d].call] = d
    /\ ~slot[d].active => /\ pc[slot[d].call] \in {"emit", "decide"}
                          /\ emitting[slot[d].call] = Offer(slot[d].call)
    /\ slot[d].active => /\ pc[slot[d].call] \in {"replied", "over"}
                         /\ req[slot[d].call].url.path = "prepare-upload"
                         /\ reply[slot[d].call].status = 200

\* Does the handler of the call have to tell the application?
Tells(c) ==
  /\ req[c].url.version = "v2"
  /\ \/ req[c].url.path \in {"show", "cancel"}
     \/ req[c].url.path = "register" /\ (tls => req[c].body.fingerprint = Me)

Told(c) == emitting[c] \in seen[by[c]] \cup {events[by[c]][i] : i \in DOMAIN events[by[c]]}

\* What was answered: a session only by a v2 server, and a success only after
\* the application was told.
ReplyOf(c) ==
  pc[c] \in {"replied", "over"} =>
    /\ reply[c].status \in Nat
    /\ req[c].url.path = "prepare-upload" /\ reply[c].status < 400 => V2On
    /\ IsCall(c, "v2", "cancel") => reply[c].status = 200
    /\ Tells(c) /\ reply[c].status = 200 /\ by[c] \in appOpen => Told(c)

\* What a result says of the reply, unless the call failed.
ResultOf(c) ==
  result[c] # None /\ result[c].kind # "failed" =>
    /\ pc[c] = "over"
    /\ req[c].url.path = "prepare-upload" /\ result[c].kind \in {"status", "nothing"}
         => reply[c].status # 200
    /\ result[c].kind = "session" => V2On
    /\ Tells(c) /\ result[c].kind = "ok" => reply[c].status = 200

CallOK(c) == RequestOf(c) /\ HandlerOf(c) /\ ReplyOf(c) /\ ResultOf(c)

\* The two invariants of the run speak of results; what makes them hold is what
\* every handler on its way to a reply has done to the slot and the channel.
CallInv ==
  /\ CallTypeOK
  /\ \A c \in Calls : CallOK(c)
  /\ \A d \in Devices : SlotOf(d)

-----------------------------------------------------------------------------
(* The calls: what a step leaves alone                                     *)

Same(d) ==
  /\ pc'[d] = pc[d] /\ req'[d] = req[d] /\ by'[d] = by[d]
  /\ emitting'[d] = emitting[d] /\ reply'[d] = reply[d] /\ result'[d] = result[d]

\* A slot that is held is not free.
LEMMA ClaimIsSomething ==
  ASSUME NEW c \in Calls
  PROVE  Claim(c) # None /\ [call |-> c, active |-> TRUE] # None
<1>1. /\ Claim(c) \in [call : Calls, active : BOOLEAN]
      /\ [call |-> c, active |-> TRUE] \in [call : Calls, active : BOOLEAN]
  BY DEF Claim
<1> QED
  BY <1>1, HttpCallsAssumption

\* What was told stays told: it moves from the channel to the application.
Remembers(d) == by[d] \in appOpen' /\ Told(d) => Told(d)'

KeepsClaim(d) == by[d] \in Devices /\ slot[by[d]] = Claim(d) => slot'[by[d]] = Claim(d)

\* A call that a step does not touch keeps its invariants when its claim of the
\* slot stays and what was told is not forgotten.
LEMMA UntouchedCall ==
  ASSUME NEW d \in Calls, CallOK(d), Same(d), tls' = tls, appOpen' \subseteq appOpen,
         Remembers(d), KeepsClaim(d), pc[d] \in {"emit", "decide"} => by[d] \in Devices
  PROVE  CallOK(d)'
<1>1. RequestOf(d)'
  BY DEF CallOK, RequestOf, Same, IsCall
<1>2. HandlerOf(d)'
  BY DEF CallOK, HandlerOf, Same, IsCall, KeepsClaim
<1>3. Tells(d)' <=> Tells(d)
  BY DEF Tells, Same
<1>4. ReplyOf(d)'
  BY <1>3 DEF CallOK, ReplyOf, Same, IsCall, Remembers
<1>5. ResultOf(d)'
  BY <1>3 DEF CallOK, ResultOf, Same
<1> QED
  BY <1>1, <1>2, <1>4, <1>5 DEF CallOK

\* A slot keeps its invariant when its call is untouched.
LEMMA UntouchedSlot ==
  ASSUME NEW d \in Devices, SlotOf(d),
         slot'[d] = None \/ (slot'[d] = slot[d] /\ (slot[d] # None => Same(slot[d].call)))
  PROVE  SlotOf(d)'
<1>1. CASE slot'[d] = None
  BY <1>1 DEF SlotOf
<1>2. CASE slot'[d] = slot[d] /\ slot[d] # None /\ Same(slot[d].call)
  BY <1>2 DEF SlotOf, Same
<1>3. CASE slot'[d] = slot[d] /\ slot[d] = None
  BY <1>3 DEF SlotOf
<1> QED
  BY <1>1, <1>2, <1>3

\* The steps of a call: the others, and the slots of the others, are untouched.
LEMMA StepOfCall ==
  ASSUME CallInv, NEW c \in Calls,
         \A d \in Calls \ {c} : Same(d) /\ Remembers(d) /\ KeepsClaim(d),
         \A d \in Devices :
           \/ slot'[d] = None
           \/ slot'[d] = slot[d] /\ (slot[d] # None => slot[d].call # c)
           \/ SlotOf(d)',
         tls' = tls, appOpen' \subseteq appOpen,
         CallTypeOK', CallOK(c)'
  PROVE  CallInv'
<1>1. \A d \in Calls \ {c} : CallOK(d)'
  BY UntouchedCall DEF CallInv, CallTypeOK
<1>2. ASSUME NEW d \in Devices
      PROVE  SlotOf(d)'
  <2>1. slot[d] # None => slot[d].call \in Calls
    BY DEF CallInv, CallTypeOK, TypeOK
  <2>2. CASE slot'[d] = None
    BY <2>2, UntouchedSlot DEF CallInv
  <2>3. CASE slot'[d] = slot[d] /\ (slot[d] # None => slot[d].call # c)
    <3>1. slot[d] # None => Same(slot[d].call)
      BY <2>1, <2>3
    <3> QED
      BY <2>3, <3>1, UntouchedSlot DEF CallInv
  <2> QED
    BY <2>2, <2>3
<1> QED
  BY <1>1, <1>2 DEF CallInv

\* Nothing has been called.
LEMMA CallsStart == Init => CallInv
<1> SUFFICES ASSUME Init PROVE CallInv
  OBVIOUS
<1> USE HttpCallsAssumption DEF Init
<1>1. CallTypeOK
  <2>1. <<>> \in Seq(Events)
    BY EmptySeq
  <2>2. \A d \in Devices : Len(events[d]) <= Capacity
    BY EmptySeq
  <2> QED
    BY <2>1, <2>2 DEF CallTypeOK, TypeOK
<1>2. \A c \in Calls : CallOK(c)
  BY DEF CallOK, RequestOf, HandlerOf, ReplyOf, ResultOf
<1>3. \A d \in Devices : SlotOf(d)
  BY DEF SlotOf
<1> QED
  BY <1>1, <1>2, <1>3 DEF CallInv

-----------------------------------------------------------------------------
(* The calls: sending                                                      *)

\* A request is on its way; nobody has handled it.
LEMMA SendStep ==
  ASSUME CallInv, NEW c \in Calls, NEW url, NEW body, NEW expected, Send(c, url, body, expected),
         url.version = "v2" /\ url.path = "register"
           => body \in [fingerprint : {Me, NoKey}, download : BOOLEAN],
         url.path = "cancel" => url.params[1] \in Calls /\ V2On
  PROVE  CallInv'
<1>1. /\ pc[c] = "idle" /\ pc' = [pc EXCEPT ![c] = "sent"]
      /\ req' = [req EXCEPT ![c] = [url |-> url, body |-> body, expected |-> expected]]
      /\ UNCHANGED <<tls, at, known, result, by, emitting, reply, slot, events, seen, appOpen>>
  BY DEF Send, server, app
<1>2. CallTypeOK /\ CallOK(c) /\ \A d \in Devices : SlotOf(d)
  BY DEF CallInv
<1>3. /\ pc \in [Calls -> {"idle", "sent", "emit", "decide", "replied", "over", "dropped"}]
      /\ DOMAIN req = Calls
  BY <1>2 DEF CallTypeOK, TypeOK
<1>4. pc'[c] = "sent" /\ req'[c].url = url /\ req'[c].body = body
  BY <1>1, <1>3
<1>5. \A d \in Calls \ {c} : Same(d) /\ Remembers(d) /\ KeepsClaim(d)
  BY <1>1, <1>3 DEF Same, Remembers, Told, KeepsClaim
<1>6. CallTypeOK'
  BY <1>1, <1>2, <1>3 DEF CallTypeOK, TypeOK
<1>7. CallOK(c)'
  <2>1. RequestOf(c)'
    BY <1>4 DEF RequestOf, IsCall
  <2>2. HandlerOf(c)' /\ ReplyOf(c)'
    BY <1>4 DEF HandlerOf, ReplyOf
  <2>3. ResultOf(c)'
    BY <1>1, <1>2, <1>4 DEF ResultOf, CallOK
  <2> QED
    BY <2>1, <2>2, <2>3 DEF CallOK
<1>8. \A d \in Devices : slot'[d] = slot[d] /\ (slot[d] # None => slot[d].call # c)
  BY <1>1, <1>2 DEF SlotOf, CallTypeOK, TypeOK
<1> QED
  BY <1>1, <1>5, <1>6, <1>7, <1>8, StepOfCall

\* The calls of the client, and of another instance of the application.
LEMMA CallingStep ==
  ASSUME CallInv, NEW c \in Calls,
         Register(c) \/ PrepareUpload(c) \/ Cancel(c) \/ Info(c) \/ Show(c)
  PROVE  CallInv'
<1>1. CASE Register(c)
  <2>1. PICK info : /\ \E token \in {Me, NoKey} : info = [token |-> token, web |-> FALSE]
                    /\ RegisterV2(c, info) \/ RegisterV3(c, info)
    BY <1>1 DEF Register
  <2>2. RegisterDtoV2(info) \in [fingerprint : {Me, NoKey}, download : BOOLEAN]
    BY <2>1 DEF RegisterDtoV2
  <2>3. CASE RegisterV2(c, info)
    BY <2>2, <2>3, SendStep DEF RegisterV2, TargetUrl
  <2>4. CASE RegisterV3(c, info)
    BY <2>4, SendStep DEF RegisterV3, TargetUrl
  <2> QED
    BY <2>1, <2>3, <2>4
<1>2. CASE PrepareUpload(c)
  BY <1>2, SendStep DEF PrepareUpload, PrepareUploadV2, PrepareUploadV3, TargetUrl
<1>3. CASE Cancel(c)
  <2>1. PICK s \in Calls : /\ result[s] # None /\ result[s].kind = "session"
                           /\ CancelV2(c, s) \/ CancelV3(c, s)
    BY <1>3 DEF Cancel
  <2>2. V2On
    BY <2>1 DEF CallInv, CallOK, ResultOf
  <2> QED
    BY <2>1, <2>2, SendStep DEF CancelV2, CancelV3, TargetUrl
<1>4. CASE Info(c)
  BY <1>4, SendStep DEF Info, TargetUrl
<1>5. CASE Show(c)
  BY <1>5, SendStep DEF Show, TargetUrl
<1> QED
  BY <1>1, <1>2, <1>3, <1>4, <1>5

-----------------------------------------------------------------------------
(* The calls: handling                                                     *)

\* A handler that answers at once: it tells nothing and grants nothing.
LEMMA AnswerStep ==
  ASSUME CallInv, NEW c \in Calls, NEW status \in Nat, NEW body,
         pc[c] = "sent", Take(c), Reply(c, status, body),
         req[c].url.path = "prepare-upload" /\ status < 400 => V2On,
         ~IsCall(c, "v2", "cancel"),
         status = 200 => ~Tells(c)
  PROVE  CallInv'
<1>1. /\ by' = [by EXCEPT ![c] = at] /\ pc' = [pc EXCEPT ![c] = "replied"]
      /\ reply' = [reply EXCEPT ![c] = [status |-> status, body |-> body]]
      /\ UNCHANGED <<tls, at, known, req, result, emitting, slot, events, seen, appOpen>>
  BY DEF Take, Reply, Respond, caller, app
<1>2. CallTypeOK /\ CallOK(c) /\ \A d \in Devices : SlotOf(d)
  BY DEF CallInv
<1>3. /\ pc \in [Calls -> {"idle", "sent", "emit", "decide", "replied", "over", "dropped"}]
      /\ by \in [Calls -> Devices \cup {None}] /\ at \in Devices
      /\ DOMAIN reply = Calls
  BY <1>2 DEF CallTypeOK, TypeOK
<1>4. pc'[c] = "replied" /\ by'[c] = at /\ reply'[c].status = status
  BY <1>1, <1>3
<1>5. \A d \in Calls \ {c} : Same(d) /\ Remembers(d) /\ KeepsClaim(d)
  BY <1>1, <1>3 DEF Same, Remembers, Told, KeepsClaim
<1>6. CallTypeOK'
  BY <1>1, <1>2, <1>3 DEF CallTypeOK, TypeOK
<1>7. CallOK(c)'
  <2>1. RequestOf(c)'
    BY <1>1, <1>2 DEF CallOK, RequestOf, IsCall
  <2>2. HandlerOf(c)'
    BY <1>4 DEF HandlerOf
  <2>3. Tells(c)' <=> Tells(c)
    BY <1>1 DEF Tells
  <2>4. ReplyOf(c)'
    BY <1>1, <1>4, <2>3 DEF ReplyOf, IsCall
  <2>5. ResultOf(c)'
    BY <1>1, <1>2 DEF CallOK, ResultOf
  <2> QED
    BY <2>1, <2>2, <2>4, <2>5 DEF CallOK
<1>8. \A d \in Devices : slot'[d] = slot[d] /\ (slot[d] # None => slot[d].call # c)
  BY <1>1, <1>2 DEF SlotOf, CallTypeOK, TypeOK
<1> QED
  BY <1>1, <1>5, <1>6, <1>7, <1>8, StepOfCall

\* A handler that goes on to tell the application; prepare-upload has claimed
\* the free slot, and cancel has freed the one of a session.
LEMMA AnnounceStep ==
  ASSUME CallInv, NEW c \in Calls, NEW event \in Events,
         pc[c] = "sent", Take(c), Announce(c, event),
         req[c].url.path = "prepare-upload" => event.type = "prepare",
         \/ /\ event = Offer(c) /\ IsCall(c, "v2", "prepare-upload") /\ V2On
            /\ slot[at] = None /\ slot' = [slot EXCEPT ![at] = Claim(c)]
         \/ event.type # "prepare" /\ slot' = slot
         \/ event.type # "prepare" /\ slot[at].active /\ slot[at] # None
              /\ slot' = [slot EXCEPT ![at] = None]
  PROVE  CallInv'
<1>1. /\ by' = [by EXCEPT ![c] = at] /\ pc' = [pc EXCEPT ![c] = "emit"]
      /\ emitting' = [emitting EXCEPT ![c] = event]
      /\ UNCHANGED <<tls, at, known, req, result, reply, events, seen, appOpen>>
  BY DEF Take, Announce, caller, app
<1>2. CallTypeOK /\ CallOK(c) /\ \A d \in Devices : SlotOf(d)
  BY DEF CallInv
<1>3. /\ pc \in [Calls -> {"idle", "sent", "emit", "decide", "replied", "over", "dropped"}]
      /\ by \in [Calls -> Devices \cup {None}] /\ at \in Devices
      /\ emitting \in [Calls -> Events \cup {None}]
      /\ slot \in [Devices -> {None} \cup [call : Calls, active : BOOLEAN]]
  BY <1>2 DEF CallTypeOK, TypeOK
<1>4. pc'[c] = "emit" /\ by'[c] = at /\ emitting'[c] = event
  BY <1>1, <1>3
<1>5. \A d \in Calls \ {c} : Same(d) /\ Remembers(d)
  BY <1>1, <1>3 DEF Same, Remembers, Told
<1>6. slot' \in [Devices -> {None} \cup [call : Calls, active : BOOLEAN]]
  <2>1. Claim(c) \in [call : Calls, active : BOOLEAN]
    BY DEF Claim
  <2> QED
    BY <1>3, <2>1
<1>7. CallTypeOK'
  BY <1>1, <1>2, <1>3, <1>6 DEF CallTypeOK, TypeOK
<1>8. CallOK(c)'
  <2>1. RequestOf(c)'
    BY <1>1, <1>2 DEF CallOK, RequestOf, IsCall
  <2>2. HandlerOf(c)'
    <3>1. event.type = "prepare" => slot'[at] = Claim(c)
      BY <1>3
    <3> QED
      BY <1>1, <1>4, <3>1 DEF HandlerOf, IsCall
  <2>3. ReplyOf(c)'
    BY <1>4 DEF ReplyOf
  <2>4. ResultOf(c)'
    BY <1>1, <1>2 DEF CallOK, ResultOf
  <2> QED
    BY <2>1, <2>2, <2>3, <2>4 DEF CallOK
<1>9. \A d \in Devices : slot[d] # None => slot[d].call # c
  BY <1>2, <1>3 DEF SlotOf
<1>10. ASSUME NEW d \in Devices
       PROVE  \/ slot'[d] = None
              \/ slot'[d] = slot[d] /\ (slot[d] # None => slot[d].call # c)
              \/ SlotOf(d)'
  <2>1. CASE slot'[d] = Claim(c) /\ d = at /\ event = Offer(c)
    BY <1>4, <2>1 DEF SlotOf, Claim
  <2> QED
    BY <1>3, <1>9, <2>1
<1>11. ASSUME NEW d \in Calls \ {c}
       PROVE  KeepsClaim(d)
  <2> SUFFICES ASSUME by[d] \in Devices, slot[by[d]] = Claim(d)
               PROVE  slot'[by[d]] = Claim(d)
    BY DEF KeepsClaim
  <2>1. Claim(d) # None /\ ~Claim(d).active
    BY ClaimIsSomething DEF Claim
  <2>2. by[d] # at \/ slot' = slot
    BY <2>1
  <2> QED
    BY <1>3, <2>2
<1> QED
  BY <1>1, <1>5, <1>7, <1>8, <1>10, <1>11, StepOfCall

\* The routes, and what the handlers do before they tell the application.
LEMMA HandlingStep ==
  ASSUME CallInv, NEW c \in Calls,
         \/ NotFound(c) \/ HandleRegisterV2(c) \/ HandleRegisterV3(c) \/ HandleInfo(c)
         \/ HandleShow(c) \/ HandlePrepareUpload(c) \/ HandleCancel(c)
  PROVE  CallInv'
<1>1. RequestOf(c) /\ at \in Devices
  BY DEF CallInv, CallOK, CallTypeOK, TypeOK
<1>2. CASE NotFound(c)
  <2>1. pc[c] = "sent" /\ Take(c) /\ Reply(c, 404, None)
    BY <1>2 DEF NotFound
  <2>2. ~IsCall(c, "v2", "cancel")
    BY <1>1, <1>2 DEF NotFound, RequestOf, IsCall
  <2> QED
    BY <2>1, <2>2, AnswerStep
<1>3. CASE HandleRegisterV2(c)
  <2>1. /\ pc[c] = "sent" /\ Take(c) /\ IsCall(c, "v2", "register")
        /\ req[c].url.path # "prepare-upload"
    BY <1>3 DEF HandleRegisterV2, Is, IsCall
  <2>2. CASE tls /\ req[c].body.fingerprint # Me
    <3>1. Reply(c, 200, InfoBody(at))
      BY <1>3, <2>2 DEF HandleRegisterV2
    <3>2. ~Tells(c) /\ ~IsCall(c, "v2", "cancel") /\ req[c].url.path # "prepare-upload"
      BY <2>1, <2>2 DEF Tells, IsCall
    <3> QED
      BY <2>1, <3>1, <3>2, AnswerStep
  <2>3. CASE ~(tls /\ req[c].body.fingerprint # Me)
    <3>1. PICK event : event = Registration(req[c].body)
      OBVIOUS
    <3>2. Announce(c, event) /\ slot' = slot
      BY <1>3, <2>3, <3>1 DEF HandleRegisterV2
    <3>3. event \in Events /\ event.type # "prepare"
      BY <1>1, <2>1, <3>1 DEF RequestOf, Events, Registration
    <3> QED
      BY <2>1, <3>2, <3>3, AnnounceStep
  <2> QED
    BY <2>2, <2>3
<1>4. CASE HandleRegisterV3(c)
  <2>1. /\ pc[c] = "sent" /\ Take(c) /\ IsCall(c, "v3", "register")
        /\ Reply(c, 200, [token |-> at, web |-> WebOn])
    BY <1>4 DEF HandleRegisterV3, Is, IsCall
  <2>2. ~Tells(c) /\ ~IsCall(c, "v2", "cancel") /\ req[c].url.path # "prepare-upload"
    BY <2>1 DEF Tells, IsCall
  <2> QED
    BY <2>1, <2>2, AnswerStep
<1>5. CASE HandleInfo(c)
  <2>1. /\ pc[c] = "sent" /\ Take(c) /\ IsCall(c, "v2", "info")
        /\ Reply(c, 200, InfoBody(at))
    BY <1>5 DEF HandleInfo, Is, IsCall
  <2>2. ~Tells(c) /\ ~IsCall(c, "v2", "cancel") /\ req[c].url.path # "prepare-upload"
    BY <2>1 DEF Tells, IsCall
  <2> QED
    BY <2>1, <2>2, AnswerStep
<1>6. CASE HandleShow(c)
  <2>1. pc[c] = "sent" /\ Take(c) /\ IsCall(c, "v2", "show")
    BY <1>6 DEF HandleShow, Is, IsCall
  <2>2. ~IsCall(c, "v2", "cancel") /\ req[c].url.path # "prepare-upload"
    BY <2>1 DEF IsCall
  <2>3. CASE Announce(c, ShowRequest(c)) /\ slot' = slot
    <3>1. PICK event : event = ShowRequest(c)
      OBVIOUS
    <3>2. event \in Events /\ event.type # "prepare"
      BY <3>1 DEF Events, ShowRequest
    <3> QED
      BY <2>1, <2>2, <2>3, <3>1, <3>2, AnnounceStep
  <2>4. CASE Reply(c, 403, None) \/ Reply(c, 400, None)
    BY <2>1, <2>2, <2>4, AnswerStep
  <2> QED
    BY <1>6, <2>3, <2>4 DEF HandleShow
<1>7. CASE HandlePrepareUpload(c)
  <2>1. pc[c] = "sent" /\ Take(c) /\ IsCall(c, "v2", "prepare-upload") /\ V2On
    BY <1>7 DEF HandlePrepareUpload, Is, IsCall
  <2>2. ~IsCall(c, "v2", "cancel")
    BY <2>1 DEF IsCall
  <2>3. CASE \/ Reply(c, 401, None) \/ Reply(c, 429, None) \/ Reply(c, 409, None)
    BY <2>1, <2>2, <2>3, AnswerStep
  <2>4. CASE slot[at] = None /\ slot' = [slot EXCEPT ![at] = Claim(c)] /\ Announce(c, Offer(c))
    <3>1. PICK event : event = Offer(c)
      OBVIOUS
    <3>2. event \in Events /\ event.type = "prepare"
      BY <3>1 DEF Events, Offer
    <3> QED
      BY <2>1, <2>4, <3>1, <3>2, AnnounceStep
  <2> QED
    BY <1>7, <2>3, <2>4 DEF HandlePrepareUpload, Claim
<1>8. CASE HandleCancel(c)
  <2>1. PICK s \in Calls : /\ s = req[c].url.params[1]
                           /\ \/ /\ Holds(at, s) /\ slot' = [slot EXCEPT ![at] = None]
                                 /\ Announce(c, SessionEnd(s))
                              \/ slot' = slot /\ Announce(c, CancelReceived(s))
    BY <1>1, <1>8 DEF HandleCancel, RequestOf, Is
  <2>2. pc[c] = "sent" /\ Take(c) /\ req[c].url.path # "prepare-upload"
    BY <1>8 DEF HandleCancel, Is
  <2>3. CASE Holds(at, s) /\ slot' = [slot EXCEPT ![at] = None] /\ Announce(c, SessionEnd(s))
    <3>1. PICK event : event = SessionEnd(s)
      OBVIOUS
    <3>2. event \in Events /\ event.type # "prepare"
      BY <3>1 DEF Events, SessionEnd
    <3>3. slot[at].active /\ slot[at] # None
      BY <2>3, ClaimIsSomething DEF Holds
    <3> QED
      BY <2>2, <2>3, <3>1, <3>2, <3>3, AnnounceStep
  <2>4. CASE slot' = slot /\ Announce(c, CancelReceived(s))
    <3>1. PICK event : event = CancelReceived(s)
      OBVIOUS
    <3>2. event \in Events /\ event.type # "prepare"
      BY <3>1 DEF Events, CancelReceived
    <3> QED
      BY <2>2, <2>4, <3>1, <3>2, AnnounceStep
  <2> QED
    BY <2>1, <2>3, <2>4
<1> QED
  BY <1>2, <1>3, <1>4, <1>5, <1>6, <1>7, <1>8

-----------------------------------------------------------------------------
(* The calls: telling the application and deciding                         *)

\* What an append adds and keeps.
LEMMA Appended ==
  ASSUME NEW S, NEW s \in Seq(S), NEW e \in S
  PROVE  /\ Append(s, e) \in Seq(S) /\ Len(Append(s, e)) = Len(s) + 1
         /\ \A v : v \in {Append(s, e)[i] : i \in DOMAIN Append(s, e)}
                     <=> v = e \/ v \in {s[i] : i \in DOMAIN s}
<1>1. /\ Append(s, e) \in Seq(S) /\ Len(Append(s, e)) = Len(s) + 1
      /\ \A i \in 1..Len(s) : Append(s, e)[i] = s[i]
      /\ Append(s, e)[Len(s) + 1] = e
  BY AppendProperties
<1>2. /\ Len(s) \in Nat /\ DOMAIN s = 1..Len(s)
      /\ DOMAIN Append(s, e) = 1..(Len(s) + 1)
  BY <1>1
<1>3. \A i : i \in 1..(Len(s) + 1) <=> i \in 1..Len(s) \/ i = Len(s) + 1
  BY <1>2
<1> QED
  BY <1>1, <1>2, <1>3

\* An event goes into the channel of the device that handles the call.
LEMMA EmitRemembers ==
  ASSUME CallInv, NEW c \in Calls, by[c] \in Devices, emitting[c] \in Events,
         events' = [events EXCEPT ![by[c]] = Append(@, emitting[c])],
         Len(events[by[c]]) < Capacity,
         UNCHANGED <<by, emitting, seen>>
  PROVE  /\ events' \in [Devices -> Seq(Events)]
         /\ \A d \in Devices : Len(events'[d]) <= Capacity
         /\ \A d \in Calls : Remembers(d)
         /\ Told(c)'
<1>1. /\ events \in [Devices -> Seq(Events)] /\ \A d \in Devices : Len(events[d]) <= Capacity
      /\ Capacity \in Nat \ {0} /\ appOpen \subseteq Devices
  BY HttpCallsAssumption DEF CallInv, CallTypeOK, TypeOK
<1>2. PICK d \in Devices, e \in Events : d = by[c] /\ e = emitting[c]
  OBVIOUS
<1>3. PICK s \in Seq(Events) : s = events[d]
  BY <1>1
<1>4. /\ Append(s, e) \in Seq(Events) /\ Len(Append(s, e)) = Len(s) + 1
      /\ \A v : v \in {Append(s, e)[i] : i \in DOMAIN Append(s, e)}
                  <=> v = e \/ v \in {s[i] : i \in DOMAIN s}
  BY Appended
<1>5. events' = [events EXCEPT ![d] = Append(s, e)]
  BY <1>2, <1>3
<1>6. events' \in [Devices -> Seq(Events)]
  BY <1>1, <1>4, <1>5
<1>7. ASSUME NEW x \in Devices
      PROVE  Len(events'[x]) <= Capacity
  <2>1. CASE x = d
    <3>1. Len(events'[x]) = Len(s) + 1
      BY <1>1, <1>4, <1>5, <2>1
    <3>2. Len(s) \in Nat /\ Len(s) < Capacity
      BY <1>2, <1>3
    <3> QED
      BY <1>1, <3>1, <3>2
  <2>2. CASE x # d
    BY <1>1, <1>5, <2>2
  <2> QED
    BY <2>1, <2>2
<1>8. \A v : v \in {s[i] : i \in DOMAIN s} \cup {e} => v \in {events'[d][i] : i \in DOMAIN events'[d]}
  <2>1. events'[d] = Append(s, e)
    BY <1>1, <1>5
  <2> QED
    BY <1>4, <2>1
<1>9. ASSUME NEW x \in Calls
      PROVE  Remembers(x)
  <2> SUFFICES ASSUME by[x] \in appOpen', Told(x)
               PROVE  Told(x)'
    BY DEF Remembers
  <2>1. CASE by[x] = d
    BY <1>3, <1>8, <2>1 DEF Told
  <2>2. CASE by[x] # d
    <3>1. events'[by[x]] = events[by[x]]
      BY <1>1, <1>5, <2>2
    <3> QED
      BY <3>1 DEF Told
  <2> QED
    BY <2>1, <2>2
<1>10. Told(c)'
  BY <1>2, <1>8 DEF Told
<1> QED
  BY <1>6, <1>7, <1>9, <1>10

\* A prepare-upload that is refused gives its claim up.
LEMMA RefuseStep ==
  ASSUME CallInv, NEW c \in Calls, NEW status \in Nat, NEW body, status # 200,
         pc[c] \in {"emit", "decide"}, emitting[c].type = "prepare",
         Respond(c, status, body), Free(by[c]),
         UNCHANGED <<tls, at, caller, by, emitting, events, app>>
  PROVE  CallInv'
<1>1. /\ pc' = [pc EXCEPT ![c] = "replied"]
      /\ reply' = [reply EXCEPT ![c] = [status |-> status, body |-> body]]
      /\ slot' = [slot EXCEPT ![by[c]] = None]
      /\ UNCHANGED <<tls, at, known, req, result, by, emitting, events, seen, appOpen>>
  BY DEF Respond, Free, caller, app
<1>2. CallTypeOK /\ CallOK(c) /\ \A d \in Devices : SlotOf(d)
  BY DEF CallInv
<1>3. /\ pc \in [Calls -> {"idle", "sent", "emit", "decide", "replied", "over", "dropped"}]
      /\ by[c] \in Devices /\ DOMAIN reply = Calls
      /\ slot \in [Devices -> {None} \cup [call : Calls, active : BOOLEAN]]
  BY <1>2 DEF CallTypeOK, TypeOK
<1>4. pc'[c] = "replied" /\ reply'[c].status = status
  BY <1>1, <1>3
<1>5. IsCall(c, "v2", "prepare-upload") /\ V2On /\ slot[by[c]] = Claim(c)
  BY <1>2 DEF CallOK, HandlerOf
<1>6. ASSUME NEW d \in Calls \ {c}
      PROVE  Same(d) /\ Remembers(d) /\ KeepsClaim(d)
  <2>1. Same(d) /\ Remembers(d)
    BY <1>1, <1>3 DEF Same, Remembers, Told
  <2>2. Claim(d) # Claim(c)
    BY DEF Claim
  <2>3. KeepsClaim(d)
    BY <1>1, <1>3, <1>5, <2>2 DEF KeepsClaim
  <2> QED
    BY <2>1, <2>3
<1>7. CallTypeOK'
  BY <1>1, <1>2, <1>3 DEF CallTypeOK, TypeOK
<1>8. CallOK(c)'
  <2>1. RequestOf(c)'
    BY <1>1, <1>2 DEF CallOK, RequestOf, IsCall
  <2>2. HandlerOf(c)'
    BY <1>4 DEF HandlerOf
  <2>3. ReplyOf(c)'
    BY <1>1, <1>4, <1>5 DEF ReplyOf, IsCall
  <2>4. ResultOf(c)'
    BY <1>1, <1>2 DEF CallOK, ResultOf
  <2> QED
    BY <2>1, <2>2, <2>3, <2>4 DEF CallOK
<1>9. ASSUME NEW d \in Devices
      PROVE  slot'[d] = None \/ (slot'[d] = slot[d] /\ (slot[d] # None => slot[d].call # c))
  <2>1. slot[d] # None /\ slot[d].call = c => d = by[c]
    BY <1>2 DEF SlotOf
  <2> QED
    BY <1>1, <1>3, <2>1
<1> QED
  BY <1>1, <1>6, <1>7, <1>8, <1>9, StepOfCall

\* Any other handler answers once it has told the application, or found that
\* there is none.
LEMMA AcknowledgeStep ==
  ASSUME CallInv, NEW c \in Calls, pc[c] = "emit", emitting[c].type # "prepare",
         Acknowledge(c),
         \/ /\ Len(events[by[c]]) < Capacity
            /\ events' = [events EXCEPT ![by[c]] = Append(@, emitting[c])]
         \/ by[c] \notin appOpen /\ events' = events,
         UNCHANGED <<tls, at, caller, by, emitting, slot, app>>
  PROVE  CallInv'
<1>1. PICK body : /\ pc' = [pc EXCEPT ![c] = "replied"]
                  /\ reply' = [reply EXCEPT ![c] = [status |-> 200, body |-> body]]
                  /\ UNCHANGED <<tls, at, known, req, result, by, emitting, slot, seen, appOpen>>
  BY DEF Acknowledge, Respond, caller, app
<1>2. CallTypeOK /\ CallOK(c) /\ \A d \in Devices : SlotOf(d)
  BY DEF CallInv
<1>3. /\ pc \in [Calls -> {"idle", "sent", "emit", "decide", "replied", "over", "dropped"}]
      /\ by[c] \in Devices /\ DOMAIN reply = Calls /\ emitting[c] \in Events
      /\ slot \in [Devices -> {None} \cup [call : Calls, active : BOOLEAN]]
      /\ events \in [Devices -> Seq(Events)] /\ \A d \in Devices : Len(events[d]) <= Capacity
  BY <1>2 DEF CallTypeOK, TypeOK, CallOK, HandlerOf
<1>4. pc'[c] = "replied" /\ reply'[c].status = 200
  BY <1>1, <1>3
<1>5. /\ events' \in [Devices -> Seq(Events)]
      /\ \A d \in Devices : Len(events'[d]) <= Capacity
      /\ \A d \in Calls : Remembers(d)
      /\ Told(c)' \/ by[c] \notin appOpen
  <2>1. CASE /\ Len(events[by[c]]) < Capacity
             /\ events' = [events EXCEPT ![by[c]] = Append(@, emitting[c])]
    BY <1>1, <1>3, <2>1, EmitRemembers
  <2>2. CASE by[c] \notin appOpen /\ events' = events
    BY <1>1, <1>3, <2>2 DEF Remembers, Told
  <2> QED
    BY <2>1, <2>2
<1>6. \A d \in Calls \ {c} : Same(d) /\ Remembers(d) /\ KeepsClaim(d)
  BY <1>1, <1>3, <1>5 DEF Same, KeepsClaim
<1>7. CallTypeOK'
  BY <1>1, <1>2, <1>3, <1>5 DEF CallTypeOK, TypeOK
<1>8. CallOK(c)'
  <2>1. RequestOf(c)'
    BY <1>1, <1>2 DEF CallOK, RequestOf, IsCall
  <2>2. HandlerOf(c)'
    BY <1>4 DEF HandlerOf
  <2>3. req[c].url.path = "prepare-upload" => V2On
    BY <1>2 DEF CallOK, HandlerOf
  <2>4. ReplyOf(c)'
    BY <1>1, <1>4, <1>5, <2>3 DEF ReplyOf, IsCall
  <2>5. ResultOf(c)'
    BY <1>1, <1>2 DEF CallOK, ResultOf
  <2> QED
    BY <2>1, <2>2, <2>4, <2>5 DEF CallOK
<1>9. \A d \in Devices : slot'[d] = slot[d] /\ (slot[d] # None => slot[d].call # c)
  <2>1. Offer(c).type = "prepare"
    BY DEF Offer
  <2> QED
    BY <1>1, <1>2, <1>3, <2>1 DEF SlotOf
<1> QED
  BY <1>1, <1>6, <1>7, <1>8, <1>9, StepOfCall

\* A prepare-upload asks the application.
LEMMA AskStep ==
  ASSUME CallInv, NEW c \in Calls, pc[c] = "emit", emitting[c].type = "prepare",
         Len(events[by[c]]) < Capacity,
         events' = [events EXCEPT ![by[c]] = Append(@, emitting[c])],
         pc' = [pc EXCEPT ![c] = "decide"],
         UNCHANGED <<tls, at, caller, by, emitting, reply, slot, app>>
  PROVE  CallInv'
<1>1. UNCHANGED <<tls, at, known, req, result, by, emitting, reply, slot, seen, appOpen>>
  BY DEF caller, app
<1>2. CallTypeOK /\ CallOK(c) /\ \A d \in Devices : SlotOf(d)
  BY DEF CallInv
<1>3. /\ pc \in [Calls -> {"idle", "sent", "emit", "decide", "replied", "over", "dropped"}]
      /\ by[c] \in Devices /\ emitting[c] \in Events
  BY <1>2 DEF CallTypeOK, TypeOK, CallOK, HandlerOf
<1>4. pc'[c] = "decide"
  BY <1>3
<1>5. /\ events' \in [Devices -> Seq(Events)]
      /\ \A d \in Devices : Len(events'[d]) <= Capacity
      /\ \A d \in Calls : Remembers(d)
  BY <1>1, <1>3, EmitRemembers
<1>6. \A d \in Calls \ {c} : Same(d) /\ Remembers(d) /\ KeepsClaim(d)
  BY <1>1, <1>3, <1>5 DEF Same, KeepsClaim
<1>7. CallTypeOK'
  BY <1>1, <1>2, <1>3, <1>5 DEF CallTypeOK, TypeOK
<1>8. CallOK(c)'
  BY <1>1, <1>2, <1>4 DEF CallOK, RequestOf, HandlerOf, ReplyOf, ResultOf, IsCall, Claim
<1>9. \A d \in Devices : \/ slot'[d] = slot[d] /\ (slot[d] # None => slot[d].call # c)
                         \/ SlotOf(d)'
  BY <1>1, <1>2, <1>4 DEF SlotOf
<1> QED
  BY <1>1, <1>6, <1>7, <1>8, <1>9, StepOfCall

\* The handler tells the application, or finds that there is none.
LEMMA EmitStep ==
  ASSUME CallInv, NEW c \in Calls, Emit(c)
  PROVE  CallInv'
<1>1. CASE emitting[c].type = "prepare" /\ by[c] \in appOpen
  BY <1>1, AskStep DEF Emit
<1>2. CASE emitting[c].type = "prepare" /\ by[c] \notin appOpen
  BY <1>2, RefuseStep DEF Emit
<1>3. CASE emitting[c].type # "prepare"
  BY <1>3, AcknowledgeStep DEF Emit
<1> QED
  BY <1>1, <1>2, <1>3

\* The application accepts files: the claim becomes the session.
LEMMA AcceptStep ==
  ASSUME CallInv, NEW c \in Calls, pc[c] = "decide", NEW body,
         Respond(c, 200, body),
         slot' = [slot EXCEPT ![by[c]].active = TRUE],
         UNCHANGED <<tls, at, caller, by, emitting, events, app>>
  PROVE  CallInv'
<1>1. /\ pc' = [pc EXCEPT ![c] = "replied"]
      /\ reply' = [reply EXCEPT ![c] = [status |-> 200, body |-> body]]
      /\ UNCHANGED <<tls, at, known, req, result, by, emitting, events, seen, appOpen>>
  BY DEF Respond, caller, app
<1>2. CallTypeOK /\ CallOK(c) /\ \A d \in Devices : SlotOf(d)
  BY DEF CallInv
<1>3. /\ pc \in [Calls -> {"idle", "sent", "emit", "decide", "replied", "over", "dropped"}]
      /\ by[c] \in Devices /\ DOMAIN reply = Calls
      /\ slot \in [Devices -> {None} \cup [call : Calls, active : BOOLEAN]]
  BY <1>2 DEF CallTypeOK, TypeOK
<1>4. pc'[c] = "replied" /\ reply'[c].status = 200
  BY <1>1, <1>3
<1>5. emitting[c].type = "prepare"
  BY <1>2 DEF CallOK, HandlerOf, Offer
<1>6. IsCall(c, "v2", "prepare-upload") /\ V2On /\ slot[by[c]] = Claim(c)
  BY <1>2, <1>5 DEF CallOK, HandlerOf
<1>7. slot'[by[c]] = [call |-> c, active |-> TRUE]
  <2>1. slot[by[c]] = [call |-> c, active |-> FALSE]
    BY <1>6 DEF Claim
  <2>2. slot'[by[c]] = [slot[by[c]] EXCEPT !.active = TRUE]
    BY <1>3
  <2>3. ASSUME NEW r \in [call : Calls, active : BOOLEAN]
        PROVE  r = [call |-> r.call, active |-> r.active]
    OBVIOUS
  <2>4. [call |-> c, active |-> FALSE] \in [call : Calls, active : BOOLEAN]
    OBVIOUS
  <2>5. PICK r : r = [call |-> c, active |-> FALSE]
    OBVIOUS
  <2>6. r \in [call : Calls, active : BOOLEAN] /\ r.call = c
    BY <2>4, <2>5
  <2>7. PICK s : s = [r EXCEPT !.active = TRUE]
    OBVIOUS
  <2>8. s \in [call : Calls, active : BOOLEAN]
    BY <2>6, <2>7
  <2>9. s.call = c /\ s.active = TRUE
    BY <2>6, <2>7
  <2>10. s = [call |-> s.call, active |-> s.active]
    BY <2>3, <2>8
  <2>11. slot'[by[c]] = s
    BY <2>1, <2>2, <2>5, <2>7
  <2> QED
    BY <2>9, <2>10, <2>11
<1>8. slot' \in [Devices -> {None} \cup [call : Calls, active : BOOLEAN]]
  <2>1. \A d \in Devices : slot'[d] = IF d = by[c] THEN [call |-> c, active |-> TRUE] ELSE slot[d]
    BY <1>3, <1>7
  <2>2. [call |-> c, active |-> TRUE] \in [call : Calls, active : BOOLEAN]
    OBVIOUS
  <2>3. DOMAIN slot' = Devices /\ slot' = [d \in Devices |-> slot'[d]]
    BY <1>3
  <2>4. \A d \in Devices : slot'[d] \in {None} \cup [call : Calls, active : BOOLEAN]
    BY <1>3, <2>1, <2>2
  <2> QED
    BY <2>3, <2>4
<1>9. ASSUME NEW d \in Calls \ {c}
      PROVE  Same(d) /\ Remembers(d) /\ KeepsClaim(d)
  <2>1. Same(d) /\ Remembers(d)
    BY <1>1, <1>3 DEF Same, Remembers, Told
  <2>2. Claim(d) # Claim(c)
    BY DEF Claim
  <2>3. KeepsClaim(d)
    BY <1>1, <1>3, <1>6, <2>2 DEF KeepsClaim
  <2> QED
    BY <2>1, <2>3
<1>10. CallTypeOK'
  BY <1>1, <1>2, <1>3, <1>8 DEF CallTypeOK, TypeOK
<1>11. CallOK(c)'
  <2>1. RequestOf(c)'
    BY <1>1, <1>2 DEF CallOK, RequestOf, IsCall
  <2>2. HandlerOf(c)'
    BY <1>4 DEF HandlerOf
  <2>3. ReplyOf(c)'
    BY <1>1, <1>4, <1>6 DEF ReplyOf, IsCall, Tells
  <2>4. ResultOf(c)'
    BY <1>1, <1>2 DEF CallOK, ResultOf
  <2> QED
    BY <2>1, <2>2, <2>3, <2>4 DEF CallOK
<1>12. ASSUME NEW d \in Devices
       PROVE  \/ slot'[d] = slot[d] /\ (slot[d] # None => slot[d].call # c)
              \/ SlotOf(d)'
  <2>1. CASE d = by[c]
    BY <1>1, <1>4, <1>6, <1>7, <2>1 DEF SlotOf, IsCall
  <2>2. CASE d # by[c]
    <3>1. slot[d] # None => slot[d].call # c
      BY <1>2, <2>2 DEF SlotOf
    <3> QED
      BY <1>3, <2>2, <3>1
  <2> QED
    BY <2>1, <2>2
<1> QED
  BY <1>1, <1>9, <1>10, <1>11, <1>12, StepOfCall

\* The application declines, drops the request or accepts files.
LEMMA DecideStep ==
  ASSUME CallInv, NEW c \in Calls, Decide(c)
  PROVE  CallInv'
<1>1. /\ pc[c] = "decide"
      /\ UNCHANGED <<tls, at, caller, by, emitting, events, app>>
  BY DEF Decide
<1>2. emitting[c].type = "prepare"
  <2>1. emitting[c] = Offer(c)
    BY <1>1 DEF CallInv, CallOK, HandlerOf
  <2> QED
    BY <2>1 DEF Offer
<1>3. CASE \E status \in {403, 500, 204} : Respond(c, status, None) /\ Free(by[c])
  BY <1>1, <1>2, <1>3, RefuseStep
<1>4. ASSUME NEW accepted, Respond(c, 200, [files |-> accepted]),
             slot' = [slot EXCEPT ![by[c]].active = TRUE]
      PROVE  CallInv'
  BY <1>1, <1>4, AcceptStep
<1> QED
  BY <1>3, <1>4 DEF Decide

\* A handler that nobody waits for is gone, and its claim with it.
LEMMA DropHandlerStep ==
  ASSUME CallInv, NEW c \in Calls, DropHandler(c)
  PROVE  CallInv'
<1>1. /\ pc[c] \in {"emit", "decide"} /\ pc' = [pc EXCEPT ![c] = "dropped"]
      /\ slot' = IF slot[by[c]] = Claim(c) THEN [slot EXCEPT ![by[c]] = None] ELSE slot
      /\ UNCHANGED <<tls, at, known, req, result, by, emitting, reply, events, seen, appOpen>>
  BY DEF DropHandler, Free, Claim, caller, app
<1>2. CallTypeOK /\ CallOK(c) /\ \A d \in Devices : SlotOf(d)
  BY DEF CallInv
<1>3. /\ pc \in [Calls -> {"idle", "sent", "emit", "decide", "replied", "over", "dropped"}]
      /\ by[c] \in Devices
      /\ slot \in [Devices -> {None} \cup [call : Calls, active : BOOLEAN]]
  BY <1>1, <1>2 DEF CallTypeOK, TypeOK
<1>4. pc'[c] = "dropped"
  BY <1>1, <1>3
<1>5. ASSUME NEW d \in Calls \ {c}
      PROVE  Same(d) /\ Remembers(d) /\ KeepsClaim(d)
  <2>1. Same(d) /\ Remembers(d)
    BY <1>1, <1>3 DEF Same, Remembers, Told
  <2>2. Claim(d) # Claim(c)
    BY DEF Claim
  <2>3. KeepsClaim(d)
    BY <1>1, <1>3, <2>2 DEF KeepsClaim
  <2> QED
    BY <2>1, <2>3
<1>6. CallTypeOK'
  BY <1>1, <1>2, <1>3 DEF CallTypeOK, TypeOK
<1>7. CallOK(c)'
  BY <1>1, <1>2, <1>4 DEF CallOK, RequestOf, HandlerOf, ReplyOf, ResultOf, IsCall
<1>8. ASSUME NEW d \in Devices
      PROVE  slot'[d] = None \/ (slot'[d] = slot[d] /\ (slot[d] # None => slot[d].call # c))
  <2>1. ASSUME slot[d] # None, slot[d].call = c
        PROVE  d = by[c] /\ slot[d] = Claim(c)
    <3>1. d = by[c] /\ ~slot[d].active /\ emitting[c] = Offer(c)
      BY <1>1, <1>2, <1>3, <2>1 DEF SlotOf
    <3>2. emitting[c].type = "prepare"
      BY <3>1 DEF Offer
    <3> QED
      BY <1>1, <1>2, <3>1, <3>2 DEF CallOK, HandlerOf
  <2> QED
    BY <1>1, <1>3, <2>1
<1> QED
  BY <1>1, <1>5, <1>6, <1>7, <1>8, StepOfCall

-----------------------------------------------------------------------------
(* The calls: returning                                                    *)

\* A call returns what its reply says.
LEMMA ReturnStep ==
  ASSUME CallInv, NEW c \in Calls, NEW r, NEW key \in Devices \cup {NoKey},
         pc[c] = "replied", Return(c, r, key),
         req[c].url.path = "prepare-upload" /\ r.kind \in {"status", "nothing"} => reply[c].status # 200,
         r.kind = "session" => V2On,
         Tells(c) /\ r.kind = "ok" => reply[c].status = 200
  PROVE  CallInv'
<1>1. /\ pc' = [pc EXCEPT ![c] = "over"] /\ result' = [result EXCEPT ![c] = r]
      /\ known' = key
      /\ UNCHANGED <<tls, at, req, by, emitting, reply, slot, events, seen, appOpen>>
  BY DEF Return, server, app
<1>2. CallTypeOK /\ CallOK(c) /\ \A d \in Devices : SlotOf(d)
  BY DEF CallInv
<1>3. /\ pc \in [Calls -> {"idle", "sent", "emit", "decide", "replied", "over", "dropped"}]
      /\ DOMAIN result = Calls
  BY <1>2 DEF CallTypeOK, TypeOK
<1>4. pc'[c] = "over" /\ result'[c] = r
  BY <1>1, <1>3
<1>5. \A d \in Calls \ {c} : Same(d) /\ Remembers(d) /\ KeepsClaim(d)
  BY <1>1, <1>3 DEF Same, Remembers, Told, KeepsClaim
<1>6. CallTypeOK'
  BY <1>1, <1>2, <1>3 DEF CallTypeOK, TypeOK
<1>7. CallOK(c)'
  <2>1. Tells(c)' <=> Tells(c)
    BY <1>1 DEF Tells
  <2>2. RequestOf(c)' /\ HandlerOf(c)'
    BY <1>1, <1>2, <1>4 DEF CallOK, RequestOf, HandlerOf, IsCall
  <2>3. Told(c)' <=> Told(c)
    BY <1>1 DEF Told
  <2>4. ReplyOf(c)'
    BY <1>1, <1>2, <1>4, <2>1, <2>3 DEF CallOK, ReplyOf, IsCall
  <2>5. ResultOf(c)'
    BY <1>1, <1>4, <2>1 DEF ResultOf
  <2> QED
    BY <2>2, <2>4, <2>5 DEF CallOK
<1>8. \A d \in Devices : \/ slot'[d] = slot[d] /\ (slot[d] # None => slot[d].call # c)
                         \/ SlotOf(d)'
  BY <1>1, <1>2, <1>4 DEF SlotOf
<1> QED
  BY <1>1, <1>5, <1>6, <1>7, <1>8, StepOfCall

\* Each kind of call returns by its own rules.
LEMMA ReturningStep ==
  ASSUME CallInv, NEW c \in Calls, Returns(c)
  PROVE  CallInv'
<1>1. /\ pc[c] = "replied" /\ by[c] \in Devices /\ known \in Devices \cup {NoKey}
      /\ reply[c].status \in Nat
      /\ req[c].url.path = "prepare-upload" /\ reply[c].status < 400 => V2On
      /\ IsCall(c, "v2", "cancel") => reply[c].status = 200
  BY DEF CallInv, CallOK, ReplyOf, CallTypeOK, TypeOK, Returns, Replied, RegisterReturnsV2,
         RegisterReturnsV3, PrepareReturns, CancelReturns, InfoReturns
<1>2. PICK key \in Devices \cup {NoKey} : key = IF tls THEN by[c] ELSE known
  BY <1>1
<1>3. CASE RegisterReturnsV3(c)
  <2>1. PICK r : r = [kind |-> "ok", body |-> reply[c].body]
    OBVIOUS
  <2>2. Return(c, r, key) /\ ~Tells(c) /\ req[c].url.path # "prepare-upload" /\ r.kind = "ok"
    BY <1>2, <1>3, <2>1 DEF RegisterReturnsV3, Replied, Tells
  <2> QED
    BY <1>1, <2>2, ReturnStep
<1>4. CASE RegisterReturnsV2(c)
  <2>1. CASE reply[c].status = 200
    <3>1. PICK r : r = [kind |-> "ok", body |-> RegisterResponseDto(reply[c].body)]
      OBVIOUS
    <3>2. Return(c, r, key) /\ req[c].url.path # "prepare-upload" /\ r.kind = "ok"
      BY <1>2, <1>4, <2>1, <3>1 DEF RegisterReturnsV2, Replied
    <3> QED
      BY <1>1, <2>1, <3>2, ReturnStep
  <2>2. CASE reply[c].status # 200
    <3>1. PICK r : r = IntoError(c)
      OBVIOUS
    <3>2. Return(c, r, known) /\ req[c].url.path # "prepare-upload" /\ r.kind = "status"
      BY <1>4, <2>2, <3>1 DEF RegisterReturnsV2, Replied, IntoError
    <3> QED
      BY <1>1, <2>2, <3>2, ReturnStep
  <2> QED
    BY <2>1, <2>2
<1>5. CASE PrepareReturns(c)
  <2>1. PICK r : r = PrepareOutcome(c)
    OBVIOUS
  <2>2. Return(c, r, known) /\ req[c].url.path = "prepare-upload" /\ ~Tells(c)
    BY <1>5, <2>1 DEF PrepareReturns, Replied, Tells
  <2>3. /\ r.kind \in {"status", "nothing"} => reply[c].status # 200
        /\ r.kind = "session" => reply[c].status < 400
    <3>1. CASE tls /\ ~VerifyCert(Certificate(by[c], TRUE, TRUE), req[c].expected)
      BY <2>1, <3>1 DEF PrepareOutcome
    <3>2. CASE ~(tls /\ ~VerifyCert(Certificate(by[c], TRUE, TRUE), req[c].expected))
      <4>1. r = IF reply[c].status >= 400 THEN IntoError(c)
                ELSE IF reply[c].status = 204 THEN [kind |-> "nothing"]
                ELSE [kind |-> "session", files |-> reply[c].body.files]
        BY <2>1, <3>2 DEF PrepareOutcome
      <4> QED
        BY <1>1, <4>1 DEF IntoError
    <3> QED
      BY <3>1, <3>2
  <2> QED
    BY <1>1, <2>2, <2>3, ReturnStep
<1>6. CASE CancelReturns(c)
  <2>1. PICK r : r = [kind |-> "ok"]
    OBVIOUS
  <2>2. Return(c, r, known) /\ req[c].url.path = "cancel" /\ r.kind = "ok"
    BY <1>6, <2>1 DEF CancelReturns, Replied
  <2>3. Tells(c) => reply[c].status = 200
    BY <1>1, <2>2 DEF Tells, IsCall
  <2> QED
    BY <1>1, <2>2, <2>3, ReturnStep
<1>7. CASE InfoReturns(c)
  <2>1. req[c].url.path # "prepare-upload"
    BY <1>7 DEF InfoReturns, Replied
  <2>2. CASE reply[c].status = 200
    <3>1. PICK r : r = [kind |-> "ok"]
      OBVIOUS
    <3>2. Return(c, r, known) /\ r.kind = "ok"
      BY <1>7, <2>2, <3>1 DEF InfoReturns
    <3> QED
      BY <1>1, <2>1, <2>2, <3>2, ReturnStep
  <2>3. CASE reply[c].status # 200
    <3>1. PICK r : r = IntoError(c)
      OBVIOUS
    <3>2. Return(c, r, known) /\ r.kind = "status"
      BY <1>7, <2>3, <3>1 DEF InfoReturns, IntoError
    <3> QED
      BY <1>1, <2>1, <2>3, <3>2, ReturnStep
  <2> QED
    BY <2>2, <2>3
<1> QED
  BY <1>3, <1>4, <1>5, <1>6, <1>7 DEF Returns

\* A failed call says nothing of what its handler did.
LEMMA FailsStep ==
  ASSUME CallInv, NEW c \in Calls, Fails(c)
  PROVE  CallInv'
<1>1. /\ \/ pc[c] = "sent" /\ pc' = [pc EXCEPT ![c] = "dropped"]
         \/ pc[c] \in {"emit", "decide", "replied"} /\ pc' = pc
      /\ result' = [result EXCEPT ![c] = [kind |-> "failed"]]
      /\ UNCHANGED <<tls, at, known, req, by, emitting, reply, slot, events, seen, appOpen>>
  BY DEF Fails, server, app
<1>2. CallTypeOK /\ CallOK(c) /\ \A d \in Devices : SlotOf(d)
  BY DEF CallInv
<1>3. /\ pc \in [Calls -> {"idle", "sent", "emit", "decide", "replied", "over", "dropped"}]
      /\ DOMAIN result = Calls
  BY <1>2 DEF CallTypeOK, TypeOK
<1>4. /\ pc'[c] = "dropped" \/ pc'[c] = pc[c]
      /\ pc[c] \in {"sent", "emit", "decide", "replied"}
      /\ pc[c] = "sent" => pc'[c] = "dropped"
      /\ result'[c].kind = "failed"
  BY <1>1, <1>3
<1>5. \A d \in Calls \ {c} : Same(d) /\ Remembers(d) /\ KeepsClaim(d)
  BY <1>1, <1>3 DEF Same, Remembers, Told, KeepsClaim
<1>6. CallTypeOK'
  BY <1>1, <1>2, <1>3 DEF CallTypeOK, TypeOK
<1>7. CallOK(c)'
  <2>1. RequestOf(c)' /\ HandlerOf(c)'
    BY <1>1, <1>2, <1>4 DEF CallOK, RequestOf, HandlerOf, IsCall, Claim
  <2>2. (Tells(c)' <=> Tells(c)) /\ (Told(c)' <=> Told(c))
    BY <1>1 DEF Tells, Told
  <2>3. ReplyOf(c)'
    BY <1>1, <1>2, <1>4, <2>2 DEF CallOK, ReplyOf, IsCall
  <2>4. ResultOf(c)'
    BY <1>4 DEF ResultOf
  <2> QED
    BY <2>1, <2>3, <2>4 DEF CallOK
<1>8. \A d \in Devices : \/ slot'[d] = slot[d] /\ (slot[d] # None => slot[d].call # c)
                         \/ SlotOf(d)'
  BY <1>1, <1>2, <1>4 DEF SlotOf
<1> QED
  BY <1>1, <1>5, <1>6, <1>7, <1>8, StepOfCall

-----------------------------------------------------------------------------
(* The calls: the surroundings                                             *)

\* A step that touches no call.
LEMMA StepOfNone ==
  ASSUME CallInv, \A c \in Calls : Same(c) /\ Remembers(c) /\ KeepsClaim(c),
         \A d \in Devices : slot'[d] = None \/ slot'[d] = slot[d],
         tls' = tls, appOpen' \subseteq appOpen, CallTypeOK'
  PROVE  CallInv'
<1>1. \A c \in Calls : CallOK(c)'
  BY UntouchedCall DEF CallInv, CallTypeOK
<1>2. ASSUME NEW d \in Devices
      PROVE  SlotOf(d)'
  <2>1. slot[d] # None => slot[d].call \in Calls
    BY DEF CallInv, CallTypeOK, TypeOK
  <2>2. slot[d] # None => Same(slot[d].call)
    BY <2>1
  <2> QED
    BY <2>2, UntouchedSlot DEF CallInv
<1> QED
  BY <1>1, <1>2 DEF CallInv

\* What the application takes from the channel it has seen.
LEMMA AppReceiveStep ==
  ASSUME CallInv, NEW d \in Devices, AppReceive(d)
  PROVE  CallInv'
<1>1. /\ events[d] # <<>>
      /\ seen' = [seen EXCEPT ![d] = @ \cup {Head(events[d])}]
      /\ events' = [events EXCEPT ![d] = Tail(events[d])]
      /\ UNCHANGED <<tls, at, known, req, pc, by, emitting, reply, result, slot, appOpen>>
  BY DEF AppReceive, caller
<1>2. CallTypeOK
  BY DEF CallInv
<1>3. /\ events \in [Devices -> Seq(Events)] /\ seen \in [Devices -> SUBSET Events]
      /\ \A x \in Devices : Len(events[x]) <= Capacity
      /\ appOpen \subseteq Devices /\ Capacity \in Nat
  BY <1>2, HttpCallsAssumption DEF CallTypeOK, TypeOK
<1>4. PICK s \in Seq(Events) : s = events[d] /\ s # <<>>
  BY <1>1, <1>3
<1>5. /\ Len(s) \in Nat /\ Len(s) >= 1 /\ Head(s) = s[1] /\ s[1] \in Events
      /\ Tail(s) \in Seq(Events) /\ Len(Tail(s)) = Len(s) - 1
      /\ \A i \in 1..(Len(s) - 1) : Tail(s)[i] = s[i + 1]
  BY <1>4, HeadTailProperties
<1>6. PICK t \in Seq(Events) : t = Tail(s)
  BY <1>5
<1>7. PICK e \in Events : e = Head(s)
  BY <1>5
<1>8. events' = [events EXCEPT ![d] = t] /\ seen' = [seen EXCEPT ![d] = seen[d] \cup {e}]
  BY <1>1, <1>4, <1>6, <1>7
<1>9. events' \in [Devices -> Seq(Events)] /\ seen' \in [Devices -> SUBSET Events]
  BY <1>3, <1>8
<1>10. Len(s) <= Capacity /\ Len(t) <= Capacity
  BY <1>3, <1>4, <1>5, <1>6
<1>11. \A x \in Devices : Len(events'[x]) <= Capacity
  BY <1>3, <1>8, <1>10
<1>12. ASSUME NEW v, v \in {s[i] : i \in DOMAIN s}
       PROVE  v = e \/ v \in {t[i] : i \in DOMAIN t}
  <2>1. PICK i \in 1..Len(s) : v = s[i]
    BY <1>12
  <2>2. CASE i = 1
    BY <1>5, <1>7, <2>1, <2>2
  <2>3. CASE i # 1
    <3>1. PICK j \in 1..(Len(s) - 1) : i = j + 1
      BY <1>5, <2>3
    <3>2. t[j] = v /\ j \in DOMAIN t
      BY <1>5, <1>6, <2>1, <3>1
    <3> QED
      BY <3>2
  <2> QED
    BY <2>2, <2>3
<1>13. ASSUME NEW c \in Calls
       PROVE  Same(c) /\ Remembers(c) /\ KeepsClaim(c)
  <2>1. Same(c) /\ KeepsClaim(c)
    BY <1>1 DEF Same, KeepsClaim
  <2>2. ASSUME by[c] \in appOpen', Told(c)
        PROVE  Told(c)'
    <3>1. by[c] \in Devices /\ by' = by /\ emitting' = emitting
      BY <1>1, <1>3, <2>2
    <3>2. CASE by[c] = d
      <4>1. emitting[c] \in seen[d] \cup {s[i] : i \in DOMAIN s}
        BY <1>4, <2>2, <3>2 DEF Told
      <4>2. emitting[c] \in seen[d] \cup {e} \cup {t[i] : i \in DOMAIN t}
        BY <1>12, <4>1
      <4>3. events'[d] = t /\ seen'[d] = seen[d] \cup {e}
        BY <1>3, <1>8
      <4> QED
        BY <3>1, <3>2, <4>2, <4>3 DEF Told
    <3>3. CASE by[c] # d
      <4>1. events'[by[c]] = events[by[c]] /\ seen'[by[c]] = seen[by[c]]
        BY <1>3, <1>8, <3>1, <3>3
      <4> QED
        BY <2>2, <3>1, <4>1 DEF Told
    <3> QED
      BY <3>2, <3>3
  <2> QED
    BY <2>1, <2>2 DEF Remembers
<1>14. CallTypeOK'
  BY <1>1, <1>2, <1>9, <1>11 DEF CallTypeOK, TypeOK
<1> QED
  BY <1>1, <1>13, <1>14, StepOfNone

\* An application that leaves takes its channel with it; nothing is promised of
\* it any more.
LEMMA AppCloseStep ==
  ASSUME CallInv, NEW d \in Devices, AppClose(d)
  PROVE  CallInv'
<1>1. /\ appOpen' = appOpen \ {d} /\ events' = [events EXCEPT ![d] = <<>>]
      /\ UNCHANGED <<tls, at, known, req, pc, by, emitting, reply, result, slot, seen>>
  BY DEF AppClose, caller
<1>2. CallTypeOK
  BY DEF CallInv
<1>3. /\ events \in [Devices -> Seq(Events)] /\ appOpen \subseteq Devices
      /\ \A x \in Devices : Len(events[x]) <= Capacity
  BY <1>2 DEF CallTypeOK, TypeOK
<1>4. <<>> \in Seq(Events) /\ Len(<<>>) <= Capacity
  BY EmptySeq, HttpCallsAssumption
<1>5. events' \in [Devices -> Seq(Events)] /\ \A x \in Devices : Len(events'[x]) <= Capacity
  BY <1>1, <1>3, <1>4
<1>6. ASSUME NEW c \in Calls
      PROVE  Same(c) /\ Remembers(c) /\ KeepsClaim(c)
  <2>1. Same(c) /\ KeepsClaim(c)
    BY <1>1 DEF Same, KeepsClaim
  <2>2. by[c] \in appOpen' => events'[by[c]] = events[by[c]]
    BY <1>1, <1>3
  <2> QED
    BY <1>1, <2>1, <2>2 DEF Remembers, Told
<1>7. CallTypeOK'
  BY <1>1, <1>2, <1>3, <1>5 DEF CallTypeOK, TypeOK
<1>8. appOpen' \subseteq appOpen
  BY <1>1
<1> QED
  BY <1>1, <1>6, <1>7, <1>8, StepOfNone

\* A session ends: no handler has claimed its slot.
LEMMA EndSessionStep ==
  ASSUME CallInv, NEW d \in Devices, EndSession(d)
  PROVE  CallInv'
<1>1. /\ slot[d] # None /\ slot[d].active /\ slot' = [slot EXCEPT ![d] = None]
      /\ UNCHANGED <<tls, at, known, req, pc, by, emitting, reply, result, events, seen, appOpen>>
  BY DEF EndSession, Free, caller, app
<1>2. CallTypeOK
  BY DEF CallInv
<1>3. slot \in [Devices -> {None} \cup [call : Calls, active : BOOLEAN]]
  BY <1>2 DEF CallTypeOK, TypeOK
<1>4. ASSUME NEW c \in Calls
      PROVE  Same(c) /\ Remembers(c) /\ KeepsClaim(c)
  <2>1. Same(c) /\ Remembers(c)
    BY <1>1 DEF Same, Remembers, Told
  <2>2. slot[d] # Claim(c)
    BY <1>1 DEF Claim
  <2>3. KeepsClaim(c)
    BY <1>1, <1>3, <2>2 DEF KeepsClaim
  <2> QED
    BY <2>1, <2>3
<1>5. CallTypeOK'
  BY <1>1, <1>2, <1>3 DEF CallTypeOK, TypeOK
<1>6. \A x \in Devices : slot'[x] = None \/ slot'[x] = slot[x]
  BY <1>1, <1>3
<1> QED
  BY <1>1, <1>4, <1>5, <1>6, StepOfNone

\* Another device gets the address, or nothing happens.
LEMMA MoveStep ==
  ASSUME CallInv, Move \/ UNCHANGED vars
  PROVE  CallInv'
<1>1. /\ UNCHANGED <<tls, known, req, pc, by, emitting, reply, result, slot, events, seen, appOpen>>
      /\ at' \in Devices
  BY DEF Move, vars, caller, server, app, CallInv, CallTypeOK, TypeOK
<1>2. \A c \in Calls : Same(c) /\ Remembers(c) /\ KeepsClaim(c)
  BY <1>1 DEF Same, Remembers, Told, KeepsClaim
<1>3. CallTypeOK'
  BY <1>1 DEF CallInv, CallTypeOK, TypeOK
<1> QED
  BY <1>1, <1>2, <1>3, StepOfNone

\* Every step of the calls preserves the invariant.
LEMMA CallsInductive == CallInv /\ [Next]_vars => CallInv'
<1> SUFFICES ASSUME CallInv, [Next]_vars
             PROVE  CallInv'
  OBVIOUS
<1>1. ASSUME NEW c \in Calls,
             \/ Register(c) \/ PrepareUpload(c) \/ Cancel(c) \/ Info(c) \/ Show(c)
             \/ Handle(c) \/ DropHandler(c) \/ Returns(c) \/ Fails(c)
      PROVE  CallInv'
  <2>1. CASE Register(c) \/ PrepareUpload(c) \/ Cancel(c) \/ Info(c) \/ Show(c)
    BY <2>1, CallingStep
  <2>2. CASE Handle(c)
    BY <2>2, HandlingStep, EmitStep, DecideStep DEF Handle
  <2>3. CASE DropHandler(c)
    BY <2>3, DropHandlerStep
  <2>4. CASE Returns(c)
    BY <2>4, ReturningStep
  <2>5. CASE Fails(c)
    BY <2>5, FailsStep
  <2> QED
    BY <1>1, <2>1, <2>2, <2>3, <2>4, <2>5
<1>2. ASSUME NEW d \in Devices, AppReceive(d) \/ AppClose(d) \/ EndSession(d)
      PROVE  CallInv'
  BY <1>2, AppReceiveStep, AppCloseStep, EndSessionStep
<1>3. CASE Move \/ UNCHANGED vars
  BY <1>3, MoveStep
<1> QED
  BY <1>1, <1>2, <1>3 DEF Next

-----------------------------------------------------------------------------
(* What the calls promise                                                  *)

\* The channels of the devices stay within their capacity, and every variable
\* in its domain.
THEOREM CallsTypeCorrect == Spec => []TypeOK
<1>1. CallInv => TypeOK
  BY DEF CallInv, CallTypeOK
<1> QED
  BY <1>1, CallsStart, CallsInductive, PTL DEF Spec

\* For any number of callers and devices: when prepare_upload of the client
\* returns a refusal or nothing to transfer, no server holds a session for it.
THEOREM RefusedHaveNoSession == Spec => []RefusedMeansNoSession
<1>1. ASSUME CallInv, NEW c \in Calls, NEW d \in Devices, result[c] # None,
             result[c].kind \in {"status", "nothing"}, slot[d] # None, slot[d].call = c
      PROVE  FALSE
  <2>1. pc[c] = "over" /\ (req[c].url.path = "prepare-upload" => reply[c].status # 200)
    BY <1>1 DEF CallInv, CallOK, ResultOf
  <2>2. slot[d].active \in BOOLEAN /\ SlotOf(d)
    BY <1>1 DEF CallInv, CallTypeOK, TypeOK
  <2> QED
    BY <1>1, <2>1, <2>2 DEF SlotOf
<1>2. CallInv => RefusedMeansNoSession
  BY <1>1 DEF RefusedMeansNoSession
<1> QED
  BY <1>2, CallsStart, CallsInductive, PTL DEF Spec

\* For any number of callers and devices and any capacity of the channels: a
\* registration, a cancel or a request to show that the server answered with
\* success is with the application or in its channel.
THEOREM AnsweredIsDelivered == Spec => []AnsweredMeansDelivered
<1>1. ASSUME CallInv, NEW c \in Calls, result[c] # None, result[c].kind = "ok",
             by[c] \in appOpen, Tells(c)
      PROVE  Told(c)
  <2>1. pc[c] = "over" /\ reply[c].status = 200
    BY <1>1 DEF CallInv, CallOK, ResultOf
  <2> QED
    BY <1>1, <2>1 DEF CallInv, CallOK, ReplyOf
<1>2. CallInv => AnsweredMeansDelivered
  BY <1>1 DEF AnsweredMeansDelivered, Tells, Told
<1> QED
  BY <1>2, CallsStart, CallsInductive, PTL DEF Spec

=============================================================================
