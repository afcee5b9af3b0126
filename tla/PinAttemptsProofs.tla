------------------------- MODULE PinAttemptsProofs -------------------------
(***************************************************************************)
(* The cache of failed PIN attempts keeps its shape: every module that     *)
(* checks PINs cites the last lemma.                                       *)
(***************************************************************************)
EXTENDS PinAttempts, FiniteSets, SequenceTheorems, FiniteSetTheorems, TLAPS

\* No address has two entries in the cache.
OneEntryEach(cache) ==
  \A i, j \in DOMAIN cache : cache[i].ip = cache[j].ip => i = j

\* The number of failed attempts that check_pin reads is within its limit.
LEMMA CountBounded ==
  ASSUME PinTypeOK, NEW ip \in Ips
  PROVE  /\ Count(ip) \in 0..MAX_PIN_ATTEMPTS
         /\ Tracked(ip) => Count(ip) \in 1..MAX_PIN_ATTEMPTS
<1>1. ASSUME Tracked(ip)
      PROVE  Count(ip) \in 1..MAX_PIN_ATTEMPTS
  <2>1. IndexOf(ip) \in DOMAIN attempts
    BY <1>1 DEF Tracked, IndexOf
  <2>2. attempts[IndexOf(ip)] \in Attempt
    BY <2>1, LenProperties DEF PinTypeOK
  <2> QED
    BY <1>1, <2>2 DEF Count, Attempt
<1>2. ~Tracked(ip) => Count(ip) = 0
  BY DEF Count
<1> QED
  BY <1>1, <1>2 DEF MAX_PIN_ATTEMPTS

\* LruCache::pop removes the entry of an address and no other.
LEMMA WithoutProperties ==
  ASSUME PinTypeOK, NEW ip \in Ips
  PROVE  /\ Without(ip) \in Seq(Attempt)
         /\ Len(Without(ip)) <= Len(attempts)
         /\ OneEntryEach(Without(ip))
         /\ \A i \in DOMAIN Without(ip) : Without(ip)[i].ip # ip
         /\ \A j \in DOMAIN attempts : attempts[j].ip # ip =>
              \E i \in DOMAIN Without(ip) : Without(ip)[i] = attempts[j]
<1>1. CASE ~Tracked(ip)
  BY <1>1, LenProperties DEF Without, Tracked, OneEntryEach, PinTypeOK
<1>2. CASE Tracked(ip)
  <2> DEFINE n == IndexOf(ip)
             front == SubSeq(attempts, 1, n - 1)
             back  == SubSeq(attempts, n + 1, Len(attempts))
             rest  == front \o back
             Old(i) == IF i < n THEN i ELSE i + 1
  <2>1. /\ DOMAIN attempts = 1..Len(attempts)
        /\ Len(attempts) \in Nat
        /\ \A i \in 1..Len(attempts) : attempts[i] \in Attempt
    BY LenProperties DEF PinTypeOK
  <2>2. n \in 1..Len(attempts) /\ attempts[n].ip = ip
    BY <1>2, <2>1 DEF Tracked, IndexOf
  <2> HIDE DEF n
  <2>3. /\ front \in Seq(Attempt) /\ Len(front) = n - 1
        /\ \A i \in 1..(n - 1) : front[i] = attempts[i]
    <3>1. \A i \in 1..(n - 1) : attempts[i] \in Attempt
      BY <2>1, <2>2
    <3>2. 1 \in Int /\ n - 1 \in Int
      BY <2>2
    <3>3. /\ front \in Seq(Attempt)
          /\ Len(front) = IF 1 <= n - 1 THEN (n - 1) - 1 + 1 ELSE 0
          /\ \A i \in 1..((n - 1) - 1 + 1) : front[i] = attempts[1 + i - 1]
      BY <3>1, <3>2, SubSeqProperties
    <3> HIDE DEF front
    <3> QED
      BY <3>3, <2>2
  <2>4. /\ back \in Seq(Attempt) /\ Len(back) = Len(attempts) - n
        /\ \A i \in 1..(Len(attempts) - n) : back[i] = attempts[n + i]
    <3>1. \A i \in (n + 1)..Len(attempts) : attempts[i] \in Attempt
      BY <2>1, <2>2
    <3>2. n + 1 \in Int /\ Len(attempts) \in Int
      BY <2>1, <2>2
    <3>3. /\ back \in Seq(Attempt)
          /\ Len(back) = IF n + 1 <= Len(attempts)
                           THEN Len(attempts) - (n + 1) + 1 ELSE 0
          /\ \A i \in 1..(Len(attempts) - (n + 1) + 1) :
               back[i] = attempts[(n + 1) + i - 1]
      BY <3>1, <3>2, SubSeqProperties
    <3> HIDE DEF back
    <3>4. Len(attempts) - (n + 1) + 1 = Len(attempts) - n
      BY <2>1, <2>2
    <3>5. \A i \in 1..(Len(attempts) - n) : (n + 1) + i - 1 = n + i
      BY <2>2
    <3>6. \A i \in 1..(Len(attempts) - n) : back[i] = attempts[n + i]
      BY <3>3, <3>4, <3>5
    <3>7. Len(back) = Len(attempts) - n
      <4>1. n \in Int /\ n <= Len(attempts) /\ Len(attempts) \in Int
        BY <2>1, <2>2
      <4>2. n + 1 <= Len(attempts) \/ n = Len(attempts)
        BY <4>1
      <4> QED
        BY <3>3, <3>4, <4>2
    <3> QED
      BY <3>3, <3>6, <3>7
  <2> HIDE DEF front, back
  <2>5. /\ rest \in Seq(Attempt)
        /\ Len(rest) = Len(attempts) - 1
        /\ \A i \in 1..Len(rest) :
             rest[i] = IF i <= n - 1 THEN front[i] ELSE back[i - (n - 1)]
    <3>1. /\ rest \in Seq(Attempt)
          /\ Len(rest) = Len(front) + Len(back)
          /\ \A i \in 1..(Len(front) + Len(back)) :
               rest[i] = IF i <= Len(front) THEN front[i] ELSE back[i - Len(front)]
      BY <2>3, <2>4, ConcatProperties, Zenon
    <3> HIDE DEF rest
    <3>2. Len(front) + Len(back) = Len(attempts) - 1
      BY <2>1, <2>2, <2>3, <2>4
    <3> QED
      BY <3>1, <3>2, <2>3
  <2>6. DOMAIN rest = 1..Len(rest)
    BY <2>5, LenProperties
  <2> HIDE DEF rest
  <2>7. \A i \in 1..Len(rest) : /\ rest[i] = attempts[Old(i)]
                                /\ Old(i) \in 1..Len(attempts) /\ Old(i) # n
    BY <2>1, <2>2, <2>3, <2>4, <2>5
  <2>8. \A i, j \in 1..Len(rest) : Old(i) = Old(j) => i = j
    BY <2>1, <2>2, <2>5
  <2>9. Without(ip) = rest
    BY <1>2 DEF Without, rest, front, back, n
  <2>10. OneEntryEach(rest)
    <3> HIDE DEF Old
    <3>1. \A i, j \in 1..Len(attempts) : attempts[i].ip = attempts[j].ip => i = j
      BY <2>1 DEF PinTypeOK
    <3> QED
      BY <2>6, <2>7, <2>8, <3>1 DEF OneEntryEach
  <2>11. \A i \in DOMAIN rest : rest[i].ip # ip
    <3> HIDE DEF Old
    <3>1. \A i \in 1..Len(attempts) : i # n => attempts[i].ip # ip
      BY <2>1, <2>2 DEF PinTypeOK
    <3> QED
      BY <2>6, <2>7, <3>1
  <2>12. ASSUME NEW j \in DOMAIN attempts, attempts[j].ip # ip
         PROVE  \E i \in DOMAIN rest : rest[i] = attempts[j]
    <3> DEFINE i == IF j < n THEN j ELSE j - 1
    <3>1. i \in 1..Len(rest) /\ Old(i) = j
      BY <2>1, <2>2, <2>5, <2>12
    <3> HIDE DEF i, Old
    <3> QED
      BY <2>6, <2>7, <3>1
  <2> QED
    BY <2>1, <2>5, <2>9, <2>10, <2>11, <2>12
<1> QED
  BY <1>1, <1>2

\* LruCache::put moves or adds one entry and keeps to the capacity.
LEMMA PutProperties ==
  ASSUME PinTypeOK, NEW ip \in Ips, NEW count \in 1..MAX_PIN_ATTEMPTS
  PROVE  /\ Put(ip, count) \in Seq(Attempt)
         /\ Len(Put(ip, count)) <= CacheSize
         /\ OneEntryEach(Put(ip, count))
<1> DEFINE entry == [ip |-> ip, count |-> count]
           old   == Without(ip)
           fresh == Append(old, entry)
<1>1. /\ old \in Seq(Attempt)
      /\ Len(old) \in Nat /\ Len(old) <= CacheSize
      /\ DOMAIN old = 1..Len(old)
      /\ \A i, j \in 1..Len(old) : old[i].ip = old[j].ip => i = j
      /\ \A i \in 1..Len(old) : old[i].ip # ip
  <2>1. old \in Seq(Attempt) /\ Len(old) <= Len(attempts) /\ OneEntryEach(old)
        /\ \A i \in DOMAIN old : old[i].ip # ip
    BY WithoutProperties
  <2>2. Len(attempts) \in Nat /\ Len(attempts) <= CacheSize /\ CacheSize \in Nat
    BY LenProperties, PinAssumption DEF PinTypeOK
  <2> HIDE DEF old
  <2>3. DOMAIN old = 1..Len(old) /\ Len(old) \in Nat
    BY <2>1, LenProperties
  <2> QED
    BY <2>1, <2>2, <2>3 DEF OneEntryEach
<1>2. entry \in Attempt /\ entry.ip = ip
  BY DEF Attempt
<1> HIDE DEF old, entry
<1>3. /\ fresh \in Seq(Attempt)
      /\ Len(fresh) = Len(old) + 1
      /\ \A i \in 1..Len(old) : fresh[i] = old[i]
      /\ fresh[Len(old) + 1] = entry
  BY <1>1, <1>2, AppendProperties
<1> HIDE DEF fresh
<1>4. \A i, j \in 1..(Len(old) + 1) : fresh[i].ip = fresh[j].ip => i = j
  BY <1>1, <1>2, <1>3
<1>5. Put(ip, count) = IF Len(fresh) > CacheSize THEN Tail(fresh) ELSE fresh
  BY DEF Put, fresh, old, entry
<1>6. CASE Len(fresh) > CacheSize
  <2>1. fresh # <<>>
    BY <1>1, <1>3
  <2>2. /\ Tail(fresh) \in Seq(Attempt)
        /\ Len(Tail(fresh)) = Len(old)
        /\ \A i \in 1..Len(old) : Tail(fresh)[i] = fresh[i + 1]
    BY <1>1, <1>3, <2>1, HeadTailProperties
  <2>3. DOMAIN Tail(fresh) = 1..Len(old)
    BY <2>2, LenProperties
  <2>4. \A i, j \in 1..Len(old) :
          Tail(fresh)[i].ip = Tail(fresh)[j].ip => i + 1 = j + 1
    <3> SUFFICES ASSUME NEW i \in 1..Len(old), NEW j \in 1..Len(old),
                        Tail(fresh)[i].ip = Tail(fresh)[j].ip
                 PROVE  i + 1 = j + 1
      OBVIOUS
    <3>1. Len(old) \in Nat
      BY <1>1
    <3>2. i + 1 \in 1..(Len(old) + 1) /\ j + 1 \in 1..(Len(old) + 1)
      BY <3>1
    <3>3. fresh[i + 1].ip = fresh[j + 1].ip
      BY <2>2
    <3> QED
      BY <1>4, <3>2, <3>3, Zenon
  <2>5. OneEntryEach(Tail(fresh))
    BY <1>1, <2>3, <2>4 DEF OneEntryEach
  <2> QED
    BY <1>1, <1>5, <1>6, <2>2, <2>5
<1>7. CASE ~(Len(fresh) > CacheSize)
  <2>1. DOMAIN fresh = 1..(Len(old) + 1)
    BY <1>3, LenProperties
  <2>2. OneEntryEach(fresh)
    BY <1>4, <2>1 DEF OneEntryEach
  <2>3. Len(fresh) <= CacheSize
    BY <1>1, <1>3, <1>7, PinAssumption
  <2> QED
    BY <1>3, <1>5, <1>7, <2>2, <2>3
<1> QED
  BY <1>6, <1>7

\* check_pin leaves the cache well formed, whoever asks and whatever the PIN.
LEMMA CheckPinTypeOK ==
  ASSUME PinTypeOK, NEW ip \in Ips, NEW pin, CheckPin(ip, pin)
  PROVE  PinTypeOK'
<1>1. Count(ip) \in 0..MAX_PIN_ATTEMPTS
      /\ (Tracked(ip) => Count(ip) \in 1..MAX_PIN_ATTEMPTS)
  BY CountBounded
<1>2. /\ attempts' \in Seq(Attempt)
      /\ Len(attempts') <= CacheSize
      /\ OneEntryEach(attempts')
  <2>1. attempts' = AttemptsAfter(ip, pin)
    BY DEF CheckPin
  <2>2. CASE AttemptsAfter(ip, pin) = attempts
    BY <2>1, <2>2 DEF PinTypeOK, OneEntryEach
  <2>3. CASE AttemptsAfter(ip, pin) = Without(ip)
    <3>1. Len(Without(ip)) \in Nat /\ Len(attempts) \in Nat
      BY WithoutProperties, LenProperties DEF PinTypeOK
    <3> QED
      BY <2>1, <2>3, <3>1, WithoutProperties, PinAssumption DEF PinTypeOK
  <2>4. CASE \E count \in 1..MAX_PIN_ATTEMPTS :
               AttemptsAfter(ip, pin) = Put(ip, count)
    BY <2>1, <2>4, PutProperties
  <2>5. \/ AttemptsAfter(ip, pin) = attempts
        \/ AttemptsAfter(ip, pin) = Without(ip)
        \/ \E count \in 1..MAX_PIN_ATTEMPTS : AttemptsAfter(ip, pin) = Put(ip, count)
    <3>1. PinOutcome(ip, pin) = "invalidPin" => Count(ip) + 1 \in 1..MAX_PIN_ATTEMPTS
      BY <1>1 DEF PinOutcome, MAX_PIN_ATTEMPTS
    <3> QED
      BY <1>1, <3>1 DEF AttemptsAfter
  <2> QED
    BY <2>2, <2>3, <2>4, <2>5
<1>3. wrong' \in [Ips -> Nat]
  BY DEF CheckPin, PinTypeOK
<1> QED
  BY <1>2, <1>3 DEF PinTypeOK, OneEntryEach

-----------------------------------------------------------------------------
(* The limit of guesses                                                    *)

\* The cache has room for every address.
RoomForAll == IsFiniteSet(Ips) /\ Cardinality(Ips) <= CacheSize

\* Failed attempts are in the cache, all of them.
Remembered ==
  \A ip \in Ips :
    wrong[ip] = 0 \/ \E i \in DOMAIN attempts :
                       attempts[i].ip = ip /\ attempts[i].count >= wrong[ip]

\* A cache with room for all never evicts an entry.
LEMMA RoomForOneMore ==
  ASSUME RoomForAll, PinTypeOK, NEW ip \in Ips
  PROVE  Len(Without(ip)) < CacheSize
<1> DEFINE s == Without(ip)
           f == [i \in 1..Len(s) |-> s[i].ip]
           T == Ips \ {ip}
<1>1. /\ s \in Seq(Attempt) /\ OneEntryEach(s)
      /\ \A i \in DOMAIN s : s[i].ip # ip
  BY WithoutProperties
<1> HIDE DEF s
<1>2. DOMAIN s = 1..Len(s) /\ Len(s) \in Nat /\ \A i \in 1..Len(s) : s[i] \in Attempt
  BY <1>1, LenProperties
<1>3. f \in Injection(1..Len(s), T)
  <2>1. \A i \in 1..Len(s) : s[i].ip \in T
    BY <1>1, <1>2 DEF Attempt
  <2>2. \A i, j \in 1..Len(s) : s[i].ip = s[j].ip => i = j
    BY <1>1, <1>2 DEF OneEntryEach
  <2>3. f \in [1..Len(s) -> T]
    BY <2>1
  <2>4. \A i, j \in 1..Len(s) : f[i] = f[j] => i = j
    BY <2>2
  <2> QED
    BY <2>3, <2>4 DEF Injection, IsInjective
<1>4. /\ IsFiniteSet(T) /\ Cardinality(T) = Cardinality(Ips) - 1
      /\ Cardinality(Ips) \in Nat
  BY FS_RemoveElement, FS_CardinalityType DEF RoomForAll
<1>5. Cardinality(1..Len(s)) <= Cardinality(T)
  BY <1>3, <1>4, FS_Injection
<1>6. Cardinality(1..Len(s)) = Len(s)
  <2>1. Cardinality(1..Len(s)) = IF 1 > Len(s) THEN 0 ELSE Len(s) - 1 + 1
    BY <1>2, FS_Interval
  <2> QED
    BY <1>2, <2>1
<1> QED
  BY <1>2, <1>4, <1>5, <1>6, PinAssumption DEF RoomForAll, s

\* check_pin writes down every failure, and forgets none of other addresses.
LEMMA CheckPinRemembers ==
  ASSUME RoomForAll, PinTypeOK, Remembered, NEW ip \in Ips, NEW pin, CheckPin(ip, pin)
  PROVE  Remembered'
<1> DEFINE Has(q, a, n) == \E i \in DOMAIN q : q[i].ip = a /\ q[i].count >= n
<1>1. \A a \in Ips : wrong[a] = 0 \/ Has(attempts, a, wrong[a])
  BY DEF Remembered
<1>2. \A a \in Ips \ {ip}, n \in Nat : Has(attempts, a, n) => Has(Without(ip), a, n)
  BY WithoutProperties
<1>3. ASSUME NEW count \in 1..MAX_PIN_ATTEMPTS
      PROVE  /\ \A a \in Ips \ {ip}, n \in Nat : Has(attempts, a, n) => Has(Put(ip, count), a, n)
             /\ Has(Put(ip, count), ip, count)
  <2> DEFINE old == Without(ip)
             entry == [ip |-> ip, count |-> count]
  <2>1. old \in Seq(Attempt) /\ Len(old) < CacheSize
    BY WithoutProperties, RoomForOneMore
  <2>2. entry \in Attempt
    BY DEF Attempt
  <2> HIDE DEF old
  <2>3. Len(old) \in Nat /\ DOMAIN old = 1..Len(old)
    BY <2>1, LenProperties
  <2>4. /\ Append(old, entry) \in Seq(Attempt)
        /\ Len(Append(old, entry)) = Len(old) + 1
        /\ \A i \in 1..Len(old) : Append(old, entry)[i] = old[i]
        /\ Append(old, entry)[Len(old) + 1] = entry
    BY <2>1, <2>2, AppendProperties
  <2>5. Put(ip, count) = Append(old, entry)
    BY <2>1, <2>3, <2>4, PinAssumption DEF Put, old
  <2>6. DOMAIN Append(old, entry) = 1..(Len(old) + 1)
    BY <2>4, LenProperties
  <2>7. Has(Append(old, entry), ip, count)
    <3>1. Len(old) + 1 \in DOMAIN Append(old, entry)
      BY <2>3, <2>6
    <3> QED
      BY <2>4, <3>1
  <2>8. \A a, n : Has(old, a, n) => Has(Append(old, entry), a, n)
    BY <2>3, <2>4, <2>6
  <2> QED
    BY <1>2, <2>5, <2>7, <2>8 DEF old
<1>4. Count(ip) \in 0..MAX_PIN_ATTEMPTS /\ (Tracked(ip) => Count(ip) \in 1..MAX_PIN_ATTEMPTS)
  BY CountBounded
<1>5. wrong[ip] <= Count(ip)
  <2>1. CASE wrong[ip] = 0
    BY <1>4, <2>1
  <2>2. CASE wrong[ip] # 0
    <3>1. PICK i \in DOMAIN attempts : attempts[i].ip = ip /\ attempts[i].count >= wrong[ip]
      BY <1>1, <2>2
    <3>2. IndexOf(ip) \in DOMAIN attempts /\ attempts[IndexOf(ip)].ip = ip
      BY <3>1 DEF IndexOf
    <3>3. IndexOf(ip) = i
      BY <3>1, <3>2 DEF PinTypeOK
    <3> QED
      BY <3>1, <3>3 DEF Count, Tracked
  <2> QED
    BY <2>1, <2>2
<1>6. /\ attempts' = AttemptsAfter(ip, pin)
      /\ wrong \in [Ips -> Nat]
      /\ wrong' = [wrong EXCEPT ![ip] = CASE PinOutcome(ip, pin) = "ok" -> 0
                                           [] PinOutcome(ip, pin) = "invalidPin" -> @ + 1
                                           [] OTHER -> @]
  BY DEF CheckPin, PinTypeOK
<1>7. SUFFICES \A a \in Ips : wrong'[a] = 0 \/ Has(attempts', a, wrong'[a])
  BY DEF Remembered
<1> HIDE DEF Has
<1>8. CASE AttemptsAfter(ip, pin) = attempts /\ wrong' = wrong
  BY <1>1, <1>6, <1>8
<1>9. CASE PinOutcome(ip, pin) = "ok" /\ AttemptsAfter(ip, pin) \in {attempts, Without(ip)}
  BY <1>1, <1>2, <1>6, <1>9
<1>10. CASE \E count \in 1..MAX_PIN_ATTEMPTS :
              AttemptsAfter(ip, pin) = Put(ip, count) /\ wrong'[ip] <= count
  <2>1. PICK count \in 1..MAX_PIN_ATTEMPTS :
              AttemptsAfter(ip, pin) = Put(ip, count) /\ wrong'[ip] <= count
    BY <1>10
  <2>2. Has(attempts', ip, wrong'[ip])
    <3>1. wrong'[ip] \in Nat /\ PinTypeOK'
      BY CheckPinTypeOK DEF PinTypeOK
    <3>2. PICK i \in DOMAIN attempts' : attempts'[i].ip = ip /\ attempts'[i].count >= count
      BY <1>3, <1>6, <2>1 DEF Has
    <3>3. attempts'[i].count \in Nat
      <4>1. attempts' \in Seq(Attempt)
        BY <3>1 DEF PinTypeOK
      <4>2. attempts'[i] \in Attempt
        BY <3>2, <4>1, LenProperties
      <4> QED
        BY <4>2 DEF Attempt
    <3> QED
      BY <2>1, <3>1, <3>2, <3>3 DEF Has
  <2> QED
    BY <1>1, <1>3, <1>6, <2>1, <2>2
<1>11. \/ AttemptsAfter(ip, pin) = attempts /\ wrong' = wrong
       \/ PinOutcome(ip, pin) = "ok" /\ AttemptsAfter(ip, pin) \in {attempts, Without(ip)}
       \/ \E count \in 1..MAX_PIN_ATTEMPTS :
            AttemptsAfter(ip, pin) = Put(ip, count) /\ wrong'[ip] <= count
  <2>1. wrong[ip] \in Nat
    BY <1>6
  <2>2. CASE PinOutcome(ip, pin) = "ok"
    BY <2>2 DEF AttemptsAfter
  <2>3. CASE PinOutcome(ip, pin) = "invalidPin"
    <3>1. Count(ip) + 1 \in 1..MAX_PIN_ATTEMPTS /\ RequiredPin # NoPin
      BY <1>4, <2>3 DEF PinOutcome, MAX_PIN_ATTEMPTS
    <3>2. wrong'[ip] = wrong[ip] + 1 /\ AttemptsAfter(ip, pin) = Put(ip, Count(ip) + 1)
      BY <1>6, <2>3, <3>1 DEF AttemptsAfter
    <3>3. wrong'[ip] <= Count(ip) + 1
      BY <1>4, <1>5, <2>1, <3>2
    <3> QED
      BY <3>1, <3>2, <3>3
  <2>4. CASE PinOutcome(ip, pin) \notin {"ok", "invalidPin"}
    <3>1. wrong' = wrong
      BY <1>6, <2>4
    <3> QED
      BY <1>4, <1>5, <2>4, <3>1 DEF AttemptsAfter, PinOutcome
  <2> QED
    BY <2>2, <2>3, <2>4
<1> QED
  BY <1>8, <1>9, <1>10, <1>11

LEMMA RememberedIsBounded ==
  ASSUME PinTypeOK, Remembered
  PROVE  GuessesBounded
<1>1. \A i \in DOMAIN attempts : attempts[i].count \in 1..MAX_PIN_ATTEMPTS
  <2>1. \A i \in DOMAIN attempts : attempts[i] \in Attempt
    BY LenProperties DEF PinTypeOK
  <2> QED
    BY <2>1 DEF Attempt
<1>2. ASSUME NEW ip \in Ips
      PROVE  wrong[ip] <= MAX_PIN_ATTEMPTS
  <2>1. wrong[ip] \in Nat
    BY DEF PinTypeOK
  <2>2. CASE wrong[ip] = 0
    BY <2>2 DEF MAX_PIN_ATTEMPTS
  <2>3. CASE \E i \in DOMAIN attempts : attempts[i].count >= wrong[ip]
    BY <1>1, <2>1, <2>3 DEF MAX_PIN_ATTEMPTS
  <2> QED
    BY <2>2, <2>3 DEF Remembered
<1> QED
  BY <1>2 DEF GuessesBounded
=============================================================================
