---------------------------- MODULE MemoryProofs ----------------------------
(***************************************************************************)
(* Proofs about the two tables the daemon keeps in memory, each under its  *)
(* mutex and called with times that were read before: the buckets of       *)
(* RateLimiter, for any addresses, requests, rate, burst, ttl and lag, and *)
(* the nonces of NonceCache, for any keys, handlers, lifetime and size.    *)
(***************************************************************************)
EXTENDS RateLimiter, NonceCache, FiniteSetTheorems, TLAPS

(***************************************************************************)
(* RateLimiter                                                             *)
(***************************************************************************)

\* A call's time is at most MaxLag old; so the time a bucket was filled at is
\* at most MaxLag ahead of the time it was last seen at.
TimesClose ==
  /\ \A c \in Callers : asking[c] # None => stamp[c] <= clock /\ clock - stamp[c] <= MaxLag
  /\ \A a \in Addresses : bucket[a] # None =>
       /\ bucket[a].filled <= clock
       /\ bucket[a].filled <= bucket[a].seen + MaxLag

Horizon(b) == IF b.filled >= clock - MaxLag THEN b.filled ELSE clock - MaxLag
Capped(n) == IF n > Burst THEN Burst ELSE n

\* What calls that have not run may still take of a bucket without a new tick:
\* it fills up to the oldest time a call can have, and then with every tick.
Worth(b) == Capped(b.tokens + Horizon(b) - b.filled) + clock - Horizon(b)
Credit(a) == IF bucket[a] = None THEN Burst + MaxLag ELSE Worth(bucket[a])

WithinCredit ==
  KeptUntilFull => \A a \in Addresses : spent[a] + Credit(a) <= Burst + (clock - since) + MaxLag

\* A patient address has one request at a time, and a bucket that is full again
\* when the next one comes.
PatientAlone ==
  \A a \in patient : \A c \in Callers : asking[c] = a =>
    /\ \A d \in Callers : asking[d] = a => d = c
    /\ answered[a] = None \/ stamp[c] - answered[a] >= Cost
PatientHasRest ==
  \A a \in patient : bucket[a] # None =>
    /\ answered[a] # None
    /\ bucket[a].filled <= answered[a]
    /\ bucket[a].tokens >= Burst - Cost

IInv ==
  /\ TypeOK
  /\ since <= clock
  /\ TimesClose
  /\ WithinCredit
  /\ PatientAlone
  /\ PatientHasRest

-----------------------------------------------------------------------------
(* What a call does to the bucket of its address, and to the others.        *)

\* The bucket a call finds has its type, and was filled at the call's time or
\* a later one.
LEMMA FoundType ==
  ASSUME TypeOK, NEW c \in Callers, asking[c] # None
  PROVE  Found(c) \in Bucket /\ Found(c).filled >= stamp[c]
<1> USE LimitsAssumption, NoneAssumption
<1>1. asking[c] \in Addresses /\ stamp[c] \in Nat BY DEF TypeOK
<1>2. asking[c] \in Kept(stamp[c]) => bucket[asking[c]] \in Bucket
  BY <1>1 DEF TypeOK, Kept
<1>3. NewBucket(stamp[c]) \in Bucket BY <1>1 DEF NewBucket, Bucket
<1>4. ASSUME NEW b \in Bucket
      PROVE  Filled(b, stamp[c]) \in Bucket /\ Filled(b, stamp[c]).filled >= stamp[c]
  <2>1. b.tokens \in 0..Burst /\ b.filled \in Nat BY DEF Bucket
  <2>2. CASE stamp[c] <= b.filled
    <3>1. Filled(b, stamp[c]) \in Bucket /\ Filled(b, stamp[c]).filled = b.filled
      BY <1>1, <2>2 DEF Filled, Bucket
    <3> QED BY <2>2, <3>1
  <2>3. CASE ~(stamp[c] <= b.filled) BY <1>1, <2>1, <2>3 DEF Filled, Bucket
  <2> QED BY <2>2, <2>3
<1> QED BY <1>2, <1>3, <1>4 DEF Found

LEMMA BucketNotNone ==
  ASSUME NEW b \in Bucket PROVE b # None
BY LimitsAssumption, NoneAssumption DEF Bucket

\* A call never finds more than was left to it: the bucket it finds is worth no
\* more than the credit of its address, and no eviction adds to a credit.
LEMMA FoundWithinCredit ==
  ASSUME TypeOK, TimesClose, KeptUntilFull, NEW c \in Callers, asking[c] # None
  PROVE  /\ Worth(Found(c)) <= Credit(asking[c])
         /\ \A a \in Addresses \ Kept(stamp[c]) : Burst + MaxLag <= Credit(a)
<1> USE LimitsAssumption, NoneAssumption
<1> DEFINE s == stamp[c]
           a0 == asking[c]
<1>1. /\ a0 \in Addresses /\ s \in Nat /\ clock \in Nat
      /\ s <= clock /\ clock - s <= MaxLag
  BY DEF TypeOK, TimesClose
<1>2. ASSUME NEW a \in Addresses, bucket[a] # None
      PROVE  /\ bucket[a] \in Bucket /\ bucket[a].tokens \in 0..Burst
             /\ bucket[a].filled \in Nat /\ bucket[a].seen \in Nat
             /\ bucket[a].filled <= clock /\ bucket[a].filled <= bucket[a].seen + MaxLag
  BY <1>2 DEF TypeOK, TimesClose, Bucket
<1>3. ASSUME NEW a \in Addresses \ Kept(s) PROVE Burst + MaxLag <= Credit(a)
  <2>1. CASE bucket[a] = None BY <2>1 DEF Credit
  <2>2. CASE bucket[a] # None
    <3>1. s - bucket[a].seen > TTL BY <1>1, <1>2, <2>2 DEF Kept
    <3>2. bucket[a].filled < clock - MaxLag - Burst
      BY <1>1, <1>2, <2>2, <3>1 DEF KeptUntilFull
    <3>3. Horizon(bucket[a]) = clock - MaxLag
      BY <1>1, <1>2, <2>2, <3>2 DEF Horizon
    <3>4. Capped(bucket[a].tokens + Horizon(bucket[a]) - bucket[a].filled) = Burst
      BY <1>1, <1>2, <2>2, <3>2, <3>3 DEF Capped
    <3> QED BY <1>1, <2>2, <3>3, <3>4 DEF Credit, Worth
  <2> QED BY <2>1, <2>2
<1>4. Worth(Found(c)) <= Credit(a0)
  <2>1. CASE a0 \notin Kept(s)
    <3>1. Found(c) = NewBucket(s) BY <1>1, <2>1 DEF Found, Filled, NewBucket
    <3>2. Found(c).tokens = Burst /\ Found(c).filled = s BY <3>1 DEF NewBucket
    <3>3. Worth(Found(c)) = Burst + clock - s
      BY <1>1, <3>2 DEF Worth, Horizon, Capped
    <3>4. Burst + MaxLag <= Credit(a0) BY <1>1, <1>3, <2>1
    <3>5. Credit(a0) \in Int
      BY <1>1, <1>2 DEF Credit, Worth, Horizon, Capped
    <3> QED BY <1>1, <3>3, <3>4, <3>5
  <2>2. CASE a0 \in Kept(s)
    <3> DEFINE b == bucket[a0]
    <3>1. b # None BY <2>2 DEF Kept
    <3>2. Found(c) = Filled(b, s) /\ Credit(a0) = Worth(b)
      BY <2>2, <3>1 DEF Found, Credit
    <3>3. CASE s <= b.filled
      <4>1. Found(c).tokens = b.tokens /\ Found(c).filled = b.filled
        BY <1>1, <1>2, <3>1, <3>2, <3>3 DEF Filled, Bucket
      <4> QED BY <1>1, <1>2, <3>1, <3>2, <4>1 DEF Worth, Horizon, Capped
    <3>4. CASE ~(s <= b.filled)
      <4>1. Found(c).tokens = Capped(b.tokens + s - b.filled) /\ Found(c).filled = s
        BY <3>2, <3>4 DEF Filled, Capped
      <4>2. Worth(Found(c)) = Capped(b.tokens + s - b.filled) + clock - s
        BY <1>1, <1>2, <3>1, <4>1 DEF Worth, Horizon, Capped
      <4> QED BY <1>1, <1>2, <3>1, <3>2, <3>4, <4>2 DEF Worth, Horizon, Capped
    <3> QED BY <3>3, <3>4
  <2> QED BY <2>1, <2>2
<1> QED BY <1>3, <1>4

\* A patient address finds a full bucket.
LEMMA PatientFindsFull ==
  ASSUME TypeOK, PatientAlone, PatientHasRest, NEW c \in Callers, asking[c] \in patient
  PROVE  Found(c).tokens = Burst
<1> USE LimitsAssumption, NoneAssumption
<1> DEFINE s == stamp[c]
           a0 == asking[c]
<1>1. a0 \in Addresses /\ s \in Nat BY DEF TypeOK
<1>2. CASE a0 \notin Kept(s)
  BY <1>1, <1>2 DEF Found, Filled, NewBucket
<1>3. CASE a0 \in Kept(s)
  <2> DEFINE b == bucket[a0]
  <2>1. b # None BY <1>3 DEF Kept
  <2>2. b \in Bucket BY <1>1, <2>1 DEF TypeOK
  <2>3. answered[a0] \in Nat /\ b.filled <= answered[a0] /\ b.tokens >= Burst - Cost
    BY <1>1, <2>1 DEF PatientHasRest, TypeOK
  <2>4. s - answered[a0] >= Cost BY <2>3 DEF PatientAlone
  <2>5. b.tokens \in 0..Burst /\ b.filled \in Nat BY <2>2 DEF Bucket
  <2>6. ~(s <= b.filled) /\ b.tokens + s - b.filled >= Burst BY <1>1, <2>3, <2>4, <2>5
  <2>7. Found(c) = Filled(b, s) BY <1>3 DEF Found
  <2> QED BY <1>1, <2>5, <2>6, <2>7 DEF Filled
<1> QED BY <1>2, <1>3

-----------------------------------------------------------------------------
(* The invariant.                                                          *)

LEMMA InitIInv == Init => IInv
<1> USE LimitsAssumption, NoneAssumption
<1> SUFFICES ASSUME Init PROVE IInv OBVIOUS
<1>1. TypeOK BY DEF Init, TypeOK
<1>2. since <= clock /\ TimesClose BY DEF Init, TimesClose
<1>3. WithinCredit
  <2>1. \A a \in Addresses : spent[a] = 0 /\ Credit(a) = Burst + MaxLag BY DEF Init, Credit
  <2>2. clock = 0 /\ since = 0 BY DEF Init
  <2>3. Burst + MaxLag <= Burst + (clock - since) + MaxLag BY <2>2
  <2>4. ASSUME NEW a \in Addresses
        PROVE  spent[a] + Credit(a) <= Burst + (clock - since) + MaxLag
    BY <2>1, <2>3
  <2> QED BY <2>4 DEF WithinCredit
<1>4. PatientAlone BY DEF Init, PatientAlone
<1>5. PatientHasRest BY DEF Init, PatientHasRest
<1> QED BY <1>1, <1>2, <1>3, <1>4, <1>5 DEF IInv

LEMMA CallStep ==
  ASSUME IInv, NEW c \in Callers, Call(c)
  PROVE  IInv'
<1> USE LimitsAssumption, NoneAssumption
<1>1. PICK a \in Addresses :
        /\ asking' = [asking EXCEPT ![c] = a]
        /\ patient' = IF Waited(a) THEN patient ELSE patient \ {a}
  BY DEF Call
<1>2. /\ asking[c] = None /\ stamp' = [stamp EXCEPT ![c] = clock]
      /\ UNCHANGED <<clock, bucket, since, spent, answered>>
  BY DEF Call
<1>3. TypeOK' BY <1>1, <1>2 DEF IInv, TypeOK
<1>4. TimesClose' /\ (since <= clock)' BY <1>1, <1>2 DEF IInv, TypeOK, TimesClose
<1>5. WithinCredit'
  BY <1>2 DEF IInv, WithinCredit, Credit, Worth, Horizon, Capped
<1>6. PatientAlone'
  <2> SUFFICES ASSUME NEW p \in patient', NEW d \in Callers, asking'[d] = p
               PROVE  /\ \A e \in Callers : asking'[e] = p => e = d
                      /\ answered[p] = None \/ stamp'[d] - answered[p] >= Cost
    BY <1>2 DEF PatientAlone
  <2>1. p \in patient /\ p \in Addresses /\ (p = a => Waited(a))
    BY <1>1 DEF IInv, TypeOK
  <2>2. asking'[c] = a /\ stamp'[c] = clock
    BY <1>1, <1>2 DEF IInv, TypeOK
  <2>3. \A e \in Callers \ {c} : asking'[e] = asking[e] /\ stamp'[e] = stamp[e]
    BY <1>1, <1>2 DEF IInv, TypeOK
  <2>4. CASE p = a BY <2>1, <2>2, <2>3, <2>4 DEF Waited
  <2>5. CASE p # a BY <2>1, <2>2, <2>3, <2>5 DEF IInv, PatientAlone
  <2> QED BY <2>4, <2>5
<1>7. PatientHasRest' BY <1>1, <1>2 DEF IInv, PatientHasRest
<1> QED BY <1>3, <1>4, <1>5, <1>6, <1>7 DEF IInv

\* What an admission and a refusal have in common: the bucket of the address
\* becomes b, others are kept or evicted, and the call ends.
AnswerStep(c, b) ==
  /\ asking[c] # None
  /\ Store(c, b)
  /\ Return(c)
  /\ UNCHANGED <<clock, since, patient>>

LEMMA Answered ==
  ASSUME IInv, NEW c \in Callers, NEW b \in Bucket, AnswerStep(c, b),
         b.filled = Found(c).filled, b.seen = Found(c).seen,
         spent' \in [Addresses -> Nat],
         \A a \in Addresses \ {asking[c]} : spent'[a] = spent[a],
         KeptUntilFull => spent'[asking[c]] + Worth(b) <= spent[asking[c]] + Credit(asking[c]),
         asking[c] \in patient => b.tokens >= Burst - Cost
  PROVE  IInv'
<1> USE LimitsAssumption, NoneAssumption
<1> DEFINE s == stamp[c]
           a0 == asking[c]
<1>1. /\ a0 \in Addresses /\ s \in Nat /\ clock \in Nat /\ since \in Nat
      /\ s <= clock /\ clock - s <= MaxLag
  BY DEF IInv, TypeOK, TimesClose, AnswerStep
<1>2. /\ bucket' = [a \in Addresses |->
                      IF a = a0 THEN b ELSE IF a \in Kept(s) THEN bucket[a] ELSE None]
      /\ asking' = [asking EXCEPT ![c] = None]
      /\ stamp' = [stamp EXCEPT ![c] = 0]
      /\ answered' = [answered EXCEPT ![a0] = clock]
      /\ UNCHANGED <<clock, since, patient>>
  BY DEF AnswerStep, Store, Return
<1>3. b # None /\ b.tokens \in 0..Burst /\ b.filled \in Nat /\ b.seen \in Nat
  BY BucketNotNone DEF Bucket
<1>4. bucket'[a0] = b BY <1>1, <1>2
<1>5. \A a \in Addresses \ {a0} : bucket'[a] = None \/ bucket'[a] = bucket[a]
  BY <1>2
<1>6. TypeOK' BY <1>1, <1>2 DEF IInv, TypeOK
<1>7. TimesClose'
  <2>1. b.filled <= clock /\ b.filled <= b.seen + MaxLag
    <3>1. CASE a0 \notin Kept(s)
      BY <1>1, <3>1 DEF Found, Filled, NewBucket
    <3>2. CASE a0 \in Kept(s)
      <4>1. bucket[a0] # None BY <3>2 DEF Kept
      <4>2. /\ bucket[a0] \in Bucket
            /\ bucket[a0].filled <= clock
        BY <1>1, <4>1 DEF IInv, TypeOK, TimesClose
      <4>3. Found(c) = Filled(bucket[a0], s) BY <3>2 DEF Found
      <4>4. bucket[a0].filled \in Nat BY <4>2 DEF Bucket
      <4>5. CASE s <= bucket[a0].filled
        <5>1. Found(c).filled = bucket[a0].filled /\ Found(c).seen = s
          BY <4>2, <4>3, <4>5 DEF Filled, Bucket
        <5> QED BY <1>1, <4>2, <4>4, <5>1
      <4>6. CASE ~(s <= bucket[a0].filled)
        BY <1>1, <4>3, <4>6 DEF Filled
      <4> QED BY <4>5, <4>6
    <3> QED BY <3>1, <3>2
  <2>2. \A d \in Callers : asking'[d] # None => asking'[d] = asking[d] /\ stamp'[d] = stamp[d]
    BY <1>2 DEF IInv, TypeOK
  <2> QED BY <1>2, <1>4, <1>5, <2>1, <2>2 DEF IInv, TimesClose
<1>8. WithinCredit'
  <2> SUFFICES ASSUME KeptUntilFull, NEW a \in Addresses
               PROVE  spent'[a] + Credit(a)' <= Burst + (clock - since) + MaxLag
    BY <1>2 DEF WithinCredit, KeptUntilFull
  <2>1. spent[a] + Credit(a) <= Burst + (clock - since) + MaxLag
    BY DEF IInv, WithinCredit
  <2>2. spent[a] \in Nat /\ spent'[a] \in Nat BY DEF IInv, TypeOK
  <2>3. Credit(a) \in Int
    BY <1>1 DEF IInv, TypeOK, Bucket, Credit, Worth, Horizon, Capped
  <2>4. CASE a = a0
    <3>1. Credit(a)' = Worth(b)
      BY <1>2, <1>3, <1>4, <2>4 DEF Credit, Worth, Horizon, Capped
    <3>2. Worth(b) \in Int BY <1>1, <1>3 DEF Worth, Horizon, Capped
    <3> QED BY <1>1, <2>1, <2>2, <2>3, <2>4, <3>1, <3>2
  <2>5. CASE a # a0 /\ a \in Kept(s)
    <3>1. Credit(a)' = Credit(a)
      BY <1>2, <2>5 DEF Credit, Worth, Horizon, Capped
    <3> QED BY <2>1, <2>5, <3>1
  <2>6. CASE a # a0 /\ a \notin Kept(s)
    <3>1. Credit(a)' = Burst + MaxLag BY <1>2, <2>6 DEF Credit
    <3>2. Burst + MaxLag <= Credit(a)
      BY <2>6, FoundWithinCredit DEF IInv, AnswerStep
    <3> QED BY <1>1, <2>1, <2>2, <2>3, <2>6, <3>1, <3>2
  <2> QED BY <2>4, <2>5, <2>6
<1>9. PatientAlone'
  <2> SUFFICES ASSUME NEW p \in patient, NEW d \in Callers, asking'[d] = p
               PROVE  /\ \A e \in Callers : asking'[e] = p => e = d
                      /\ answered'[p] = None \/ stamp'[d] - answered'[p] >= Cost
    BY <1>2 DEF PatientAlone
  <2>1. p \in Addresses BY DEF IInv, TypeOK
  <2>2. d # c /\ asking[d] = p /\ stamp'[d] = stamp[d]
    BY <1>2, <2>1 DEF IInv, TypeOK
  <2>3. p # a0 BY <2>2 DEF IInv, PatientAlone
  <2>4. answered'[p] = answered[p] BY <1>2, <2>1, <2>3 DEF IInv, TypeOK
  <2>5. \A e \in Callers : asking'[e] = p => asking[e] = p
    BY <1>2, <2>1 DEF IInv, TypeOK
  <2> QED BY <2>2, <2>4, <2>5 DEF IInv, PatientAlone
<1>10. PatientHasRest'
  <2> SUFFICES ASSUME NEW p \in patient, bucket'[p] # None
               PROVE  /\ answered'[p] # None
                      /\ bucket'[p].filled <= answered'[p]
                      /\ bucket'[p].tokens >= Burst - Cost
    BY <1>2 DEF PatientHasRest
  <2>1. p \in Addresses BY DEF IInv, TypeOK
  <2>2. CASE p = a0
    <3>1. answered'[p] = clock BY <1>2, <2>1, <2>2 DEF IInv, TypeOK
    <3>2. b.filled <= clock
      BY <1>2, <1>3, <1>4, <1>7, <2>1, <2>2 DEF TimesClose
    <3> QED BY <1>1, <1>4, <2>2, <3>1, <3>2
  <2>3. CASE p # a0
    BY <1>2, <1>5, <2>1, <2>3 DEF IInv, TypeOK, PatientHasRest
  <2> QED BY <2>2, <2>3
<1> QED BY <1>1, <1>2, <1>6, <1>7, <1>8, <1>9, <1>10 DEF IInv

LEMMA AdmitStep ==
  ASSUME IInv, NEW c \in Callers, Admit(c)
  PROVE  IInv'
<1> USE LimitsAssumption, NoneAssumption
<1> DEFINE f == Found(c)
           b == [f EXCEPT !.tokens = @ - Cost]
<1>1. f \in Bucket BY FoundType DEF IInv, Admit
<1>2. f.tokens \in 0..Burst /\ f.filled \in Nat /\ f.seen \in Nat /\ f.tokens >= Cost
  BY <1>1 DEF Bucket, Admit
<1>3. b \in Bucket /\ b.tokens = f.tokens - Cost /\ b.filled = f.filled /\ b.seen = f.seen
  BY <1>1, <1>2 DEF Bucket
<1>4. AnswerStep(c, b) BY DEF Admit, AnswerStep
<1>5. asking[c] \in Addresses BY DEF IInv, TypeOK, Admit
<1>6. /\ spent' \in [Addresses -> Nat] /\ spent[asking[c]] \in Nat
      /\ spent'[asking[c]] = spent[asking[c]] + Cost
      /\ \A a \in Addresses \ {asking[c]} : spent'[a] = spent[a]
  BY <1>5 DEF IInv, TypeOK, Admit
<1>7. ASSUME KeptUntilFull
      PROVE  spent'[asking[c]] + Worth(b) <= spent[asking[c]] + Credit(asking[c])
  <2>1. Worth(f) <= Credit(asking[c])
    BY <1>7, FoundWithinCredit DEF IInv, Admit
  <2>2. clock \in Nat BY DEF IInv, TypeOK
  <2> HIDE DEF f, b
  <2>3. f.filled >= clock - MaxLag
    <3>1. f.filled >= stamp[c] BY FoundType DEF f, IInv, Admit
    <3>2. stamp[c] \in Nat /\ clock - stamp[c] <= MaxLag
      BY DEF IInv, TimesClose, TypeOK, Admit
    <3> QED BY <1>2, <2>2, <3>1, <3>2
  <2>4. Worth(b) <= Worth(f) - Cost
    BY <1>2, <1>3, <2>2, <2>3 DEF Worth, Horizon, Capped
  <2>5. Worth(b) \in Int /\ Worth(f) \in Int
    BY <1>2, <1>3, <2>2 DEF Worth, Horizon, Capped
  <2>6. Credit(asking[c]) \in Int
    BY <1>5, <2>2 DEF IInv, TypeOK, Bucket, Credit, Worth, Horizon, Capped
  <2> QED BY <1>6, <2>1, <2>4, <2>5, <2>6
<1>8. asking[c] \in patient => b.tokens >= Burst - Cost
  BY <1>2, <1>3, PatientFindsFull DEF IInv
<1> QED BY <1>3, <1>4, <1>6, <1>7, <1>8, Answered

LEMMA RefuseStepKeeps ==
  ASSUME IInv, NEW c \in Callers, Refuse(c)
  PROVE  IInv'
<1> USE LimitsAssumption, NoneAssumption
<1> DEFINE f == Found(c)
<1>1. f \in Bucket BY FoundType DEF IInv, Refuse
<1>2. f.tokens \in 0..Burst /\ f.tokens < Cost BY <1>1 DEF Bucket, Refuse
<1>3. AnswerStep(c, f) BY DEF Refuse, AnswerStep
<1>4. spent' \in [Addresses -> Nat] /\ spent' = spent BY DEF IInv, TypeOK, Refuse
<1>5. ASSUME KeptUntilFull
      PROVE  spent'[asking[c]] + Worth(f) <= spent[asking[c]] + Credit(asking[c])
  <2>1. asking[c] \in Addresses /\ clock \in Nat BY DEF IInv, TypeOK, Refuse
  <2>2. Worth(f) <= Credit(asking[c]) BY <1>5, FoundWithinCredit DEF IInv, Refuse
  <2>3. f.filled \in Nat BY <1>1 DEF Bucket
  <2> HIDE DEF f
  <2>4. Worth(f) \in Int BY <1>2, <2>1, <2>3 DEF Worth, Horizon, Capped
  <2>5. Credit(asking[c]) \in Int
    BY <2>1 DEF IInv, TypeOK, Bucket, Credit, Worth, Horizon, Capped
  <2>6. spent[asking[c]] \in Nat BY <2>1 DEF IInv, TypeOK
  <2> QED BY <1>4, <2>2, <2>4, <2>5, <2>6
<1>6. asking[c] \in patient => f.tokens >= Burst - Cost
  BY <1>2, PatientFindsFull DEF IInv
<1> QED BY <1>1, <1>3, <1>4, <1>5, <1>6, Answered

LEMMA TickStep ==
  ASSUME IInv, Tick
  PROVE  IInv'
<1> USE LimitsAssumption, NoneAssumption
<1>1. /\ clock' = clock + 1
      /\ \A c \in Callers : asking[c] # None => clock - stamp[c] < MaxLag
      /\ UNCHANGED <<bucket, asking, stamp, since, spent, answered, patient>>
  BY DEF Tick, callVars, historyVars
<1>2. clock \in Nat /\ since \in Nat /\ since <= clock BY DEF IInv, TypeOK
<1>3. TypeOK' BY <1>1 DEF IInv, TypeOK
<1>4. TimesClose'
  <2>1. \A c \in Callers : stamp[c] \in Nat BY DEF IInv, TypeOK
  <2>2. \A a \in Addresses : bucket[a] # None => bucket[a].filled \in Nat
    BY DEF IInv, TypeOK, Bucket
  <2> QED BY <1>1, <1>2, <2>1, <2>2 DEF IInv, TimesClose
<1>5. WithinCredit'
  <2> SUFFICES ASSUME KeptUntilFull, NEW a \in Addresses
               PROVE  (spent[a] + Credit(a) <= Burst + (clock - since) + MaxLag)'
    BY DEF WithinCredit, KeptUntilFull
  <2>1. spent[a] + Credit(a) <= Burst + (clock - since) + MaxLag
    BY DEF IInv, WithinCredit
  <2>2. spent[a] \in Nat BY DEF IInv, TypeOK
  <2>3. Credit(a) \in Int /\ Credit(a)' \in Int /\ Credit(a)' <= Credit(a) + 1
    <3>1. CASE bucket[a] = None BY <1>1, <3>1 DEF Credit
    <3>2. CASE bucket[a] # None
      <4> DEFINE b == bucket[a]
      <4>1. b.tokens \in 0..Burst /\ b.filled \in Nat BY <3>2 DEF IInv, TypeOK, Bucket
      <4>2. b' = b BY <1>1
      <4> QED BY <1>1, <1>2, <3>2, <4>1, <4>2 DEF Credit, Worth, Horizon, Capped
    <3> QED BY <3>1, <3>2
  <2> QED BY <1>1, <1>2, <2>1, <2>2, <2>3
<1>6. PatientAlone' /\ PatientHasRest' BY <1>1 DEF IInv, PatientAlone, PatientHasRest
<1> QED BY <1>1, <1>2, <1>3, <1>4, <1>5, <1>6 DEF IInv

LEMMA OpenWindowStep ==
  ASSUME IInv, OpenWindow
  PROVE  IInv'
<1> USE LimitsAssumption, NoneAssumption
<1>1. /\ since' = clock /\ spent' = [a \in Addresses |-> 0]
      /\ UNCHANGED <<clock, bucket, asking, stamp, answered, patient>>
  BY DEF OpenWindow, callVars
<1>2. clock \in Nat BY DEF IInv, TypeOK
<1>3. TypeOK' /\ TimesClose' BY <1>1 DEF IInv, TypeOK, TimesClose
<1>4. WithinCredit'
  <2> SUFFICES ASSUME NEW a \in Addresses PROVE 0 + Credit(a) <= Burst + (clock - clock) + MaxLag
    BY <1>1 DEF WithinCredit, KeptUntilFull, Credit, Worth, Horizon, Capped
  <2>1. CASE bucket[a] = None BY <1>2, <2>1 DEF Credit
  <2>2. CASE bucket[a] # None
    <3> DEFINE b == bucket[a]
    <3>1. b.tokens \in 0..Burst /\ b.filled \in Nat BY <2>2 DEF IInv, TypeOK, Bucket
    <3>2. b.filled <= clock BY <2>2 DEF IInv, TimesClose
    <3> QED BY <1>2, <2>2, <3>1, <3>2 DEF Credit, Worth, Horizon, Capped
  <2> QED BY <2>1, <2>2
<1>5. PatientAlone' /\ PatientHasRest' BY <1>1 DEF IInv, PatientAlone, PatientHasRest
<1> QED BY <1>1, <1>2, <1>3, <1>4, <1>5 DEF IInv

LEMMA StepIInv == IInv /\ [Next]_vars => IInv'
<1> SUFFICES ASSUME IInv, [Next]_vars PROVE IInv' OBVIOUS
<1>1. ASSUME NEW c \in Callers, Call(c) PROVE IInv' BY <1>1, CallStep
<1>2. ASSUME NEW c \in Callers, Admit(c) PROVE IInv' BY <1>2, AdmitStep
<1>3. ASSUME NEW c \in Callers, Refuse(c) PROVE IInv' BY <1>3, RefuseStepKeeps
<1>4. CASE Tick BY <1>4, TickStep
<1>5. CASE OpenWindow BY <1>5, OpenWindowStep
<1>6. CASE UNCHANGED vars
  BY <1>6 DEF vars, callVars, historyVars, IInv, TypeOK, TimesClose, WithinCredit, KeptUntilFull,
     Credit, Worth, Horizon, Capped, PatientAlone, PatientHasRest
<1> QED BY <1>1, <1>2, <1>3, <1>4, <1>5, <1>6 DEF Next

-----------------------------------------------------------------------------
(* Theorems.                                                               *)

\* The invariant holds in every reachable state.
THEOREM Invariant == Spec => []IInv
BY InitIInv, StepIInv, PTL DEF Spec

\* Buckets keep between no tokens and Burst, whatever calls interleave.
THEOREM TypeCorrect == Spec => []TypeOK
<1>1. IInv => TypeOK BY DEF IInv
<1> QED BY <1>1, Invariant, PTL

\* In any window an address is admitted at most Burst, a tick's fill for each
\* tick of it, and MaxLag, if the ttl lets a bucket fill before it is evicted.
THEOREM AdmittedBounded == Spec => []AdmittedBound
<1>1. IInv => AdmittedBound
  <2> SUFFICES ASSUME IInv, KeptUntilFull, NEW a \in Addresses
               PROVE  spent[a] <= Burst + (clock - since) + MaxLag
    BY DEF AdmittedBound
  <2> USE LimitsAssumption, NoneAssumption
  <2>1. clock \in Nat /\ since \in Nat /\ spent[a] \in Nat BY DEF IInv, TypeOK
  <2>2. spent[a] + Credit(a) <= Burst + (clock - since) + MaxLag
    BY DEF IInv, WithinCredit
  <2>3. Credit(a) \in Nat
    <3>1. CASE bucket[a] = None BY <3>1 DEF Credit
    <3>2. CASE bucket[a] # None
      <4> DEFINE b == bucket[a]
      <4>1. b.tokens \in 0..Burst /\ b.filled \in Nat BY <3>2 DEF IInv, TypeOK, Bucket
      <4>2. b.filled <= clock BY <3>2 DEF IInv, TimesClose
      <4> QED BY <2>1, <3>2, <4>1, <4>2 DEF Credit, Worth, Horizon, Capped
    <3> QED BY <3>1, <3>2
  <2> QED BY <2>1, <2>2, <2>3
<1> QED BY <1>1, Invariant, PTL

\* An address that waits for each answer, and then Cost, is never refused.
THEOREM PatientServed == Spec => PatientIsServed
<1>1. IInv /\ [Next]_vars => [RefuseStep]_vars
  <2> SUFFICES ASSUME IInv, NEW c \in Callers, Refuse(c), asking[c] \in patient PROVE FALSE
    BY DEF RefuseStep
  <2> QED BY PatientFindsFull, LimitsAssumption DEF IInv, Refuse
<1> QED BY <1>1, Invariant, PTL DEF Spec, PatientIsServed

-----------------------------------------------------------------------------
(***************************************************************************)
(* NonceCache                                                              *)
(***************************************************************************)

UpTo(S, i) == {j \in S : j <= i}
Rank(S) == [i \in S |-> Cardinality(UpTo(S, i))]

\* Different numbers of a set have different ranks, and every rank is taken.
LEMMA Ranks ==
  ASSUME NEW S \in SUBSET Nat, IsFiniteSet(S)
  PROVE  /\ Cardinality(S) \in Nat
         /\ Rank(S) \in [S -> 1..Cardinality(S)]
         /\ \A i, k \in S : i < k => Rank(S)[i] < Rank(S)[k]
         /\ \A m \in 1..Cardinality(S) : \E i \in S : Rank(S)[i] = m
<1> DEFINE card == Cardinality(S)
<1>1. card \in Nat /\ IsFiniteSet(1..card) /\ Cardinality(1..card) = card
  BY FS_CardinalityType, FS_Interval
<1>2. ASSUME NEW i \in S
      PROVE  IsFiniteSet(UpTo(S, i)) /\ Cardinality(UpTo(S, i)) \in 1..card
  <2>1. UpTo(S, i) \in SUBSET S /\ i \in UpTo(S, i) BY DEF UpTo
  <2>2. IsFiniteSet(UpTo(S, i)) /\ Cardinality(UpTo(S, i)) <= card BY <2>1, FS_Subset
  <2>3. Cardinality(UpTo(S, i)) \in Nat BY <2>2, FS_CardinalityType
  <2>4. Cardinality(UpTo(S, i)) # 0 BY <2>1, <2>2, FS_EmptySet
  <2> QED BY <1>1, <2>2, <2>3, <2>4
<1>3. ASSUME NEW i \in S, NEW k \in S, i < k
      PROVE  Cardinality(UpTo(S, i)) < Cardinality(UpTo(S, k))
  <2>1. i \in Nat /\ k \in Nat /\ \A j \in S : j \in Nat OBVIOUS
  <2>2. UpTo(S, i) \in SUBSET UpTo(S, k) /\ k \in UpTo(S, k) /\ k \notin UpTo(S, i)
    <3>1. \A j \in S : j <= i => j <= k BY <1>3, <2>1
    <3>2. k <= k /\ ~(k <= i) BY <1>3, <2>1
    <3> QED BY <3>1, <3>2 DEF UpTo
  <2>3. /\ Cardinality(UpTo(S, i)) <= Cardinality(UpTo(S, k))
        /\ Cardinality(UpTo(S, k)) = Cardinality(UpTo(S, i)) => UpTo(S, k) = UpTo(S, i)
    BY <1>2, <2>2, FS_Subset
  <2>4. Cardinality(UpTo(S, i)) \in 1..card /\ Cardinality(UpTo(S, k)) \in 1..card BY <1>2
  <2> QED BY <1>1, <2>2, <2>3, <2>4
<1>4. Rank(S) \in [S -> 1..card] BY <1>2 DEF Rank
<1>5. ASSUME NEW i \in S, NEW k \in S, i < k PROVE Rank(S)[i] < Rank(S)[k]
  BY <1>3, <1>5 DEF Rank
<1>6. ASSUME NEW i \in S, NEW k \in S, i # k PROVE Rank(S)[i] # Rank(S)[k]
  <2>1. i < k \/ k < i BY <1>6
  <2>2. Rank(S)[i] \in 1..card /\ Rank(S)[k] \in 1..card BY <1>4
  <2> QED BY <1>1, <1>5, <2>1, <2>2
<1>7. Rank(S) \in Injection(S, 1..card) BY <1>4, <1>6 DEF Injection, IsInjective
<1>8. Rank(S) \in Surjection(S, 1..card) BY <1>1, <1>7, FS_Injection
<1>9. \A m \in 1..card : \E i \in S : Rank(S)[i] = m BY <1>8 DEF Surjection
<1> QED BY <1>1, <1>4, <1>5, <1>9

\* The numbers of a finite set can be put in order, and none is left out.
LEMMA Ordered ==
  ASSUME NEW S \in SUBSET Nat, IsFiniteSet(S)
  PROVE  /\ Cardinality(S) \in Nat
         /\ InOrder(S) \in [1..Cardinality(S) -> S]
         /\ \A m, n \in 1..Cardinality(S) : m < n => InOrder(S)[m] < InOrder(S)[n]
         /\ \A i \in S : \E m \in 1..Cardinality(S) : InOrder(S)[m] = i
<1> DEFINE card == Cardinality(S)
           at == [m \in 1..card |-> CHOOSE i \in S : Rank(S)[i] = m]
<1>1. card \in Nat /\ IsFiniteSet(1..card) /\ Cardinality(1..card) = card
  BY FS_CardinalityType, FS_Interval
<1>2. at \in [1..card -> S] /\ \A m \in 1..card : Rank(S)[at[m]] = m BY Ranks
<1> HIDE DEF at
<1>3. ASSUME NEW m \in 1..card, NEW n \in 1..card, m < n PROVE at[m] < at[n]
  <2>1. at[m] \in S /\ at[n] \in S /\ Rank(S)[at[m]] = m /\ Rank(S)[at[n]] = n BY <1>2
  <2>2. at[m] \in Nat /\ at[n] \in Nat BY <2>1
  <2>3. ~(at[n] < at[m])
    <3>1. at[n] < at[m] => n < m BY <2>1, Ranks
    <3> QED BY <1>1, <1>3, <3>1
  <2>4. at[m] # at[n] BY <1>1, <1>3, <2>1
  <2> QED BY <2>2, <2>3, <2>4
<1>4. /\ InOrder(S) \in [1..card -> S]
      /\ \A m, n \in 1..card : m < n => InOrder(S)[m] < InOrder(S)[n]
  BY <1>2, <1>3 DEF InOrder
<1>5. ASSUME NEW m \in 1..card, NEW n \in 1..card, m # n
      PROVE  InOrder(S)[m] # InOrder(S)[n]
  <2>1. m < n \/ n < m BY <1>1, <1>5
  <2>2. InOrder(S)[m] \in Nat /\ InOrder(S)[n] \in Nat BY <1>4
  <2> QED BY <1>4, <2>1, <2>2
<1>6. InOrder(S) \in Injection(1..card, S) BY <1>4, <1>5 DEF Injection, IsInjective
<1>7. InOrder(S) \in Surjection(1..card, S) BY <1>1, <1>6, FS_Injection
<1>8. \A i \in S : \E m \in 1..card : InOrder(S)[m] = i BY <1>7 DEF Surjection
<1> QED BY <1>1, <1>4, <1>8
-----------------------------------------------------------------------------
Stay(q, drop) == {i \in DOMAIN q : q[i] \notin drop}
Rest(q, drop) == [n \in 1..Cardinality(Stay(q, drop)) |-> q[InOrder(Stay(q, drop))[n]]]
Precedes(q, x, y) == \E i, j \in DOMAIN q : i < j /\ q[i] = x /\ q[j] = y

\* What removing keys leaves of a list: the other keys, in the same order.
LEMMA RestOfList ==
  ASSUME NEW q \in Seq(Nonces), IsInjective(q), NEW drop
  PROVE  /\ Rest(q, drop) \in Seq(Nonces)
         /\ Len(Rest(q, drop)) = Cardinality(Stay(q, drop))
         /\ IsInjective(Rest(q, drop))
         /\ Range(Rest(q, drop)) = Range(q) \ drop
         /\ \A m, n \in DOMAIN Rest(q, drop) :
              m < n => Precedes(q, Rest(q, drop)[m], Rest(q, drop)[n])
         /\ Len(Rest(q, drop)) <= Len(q)
         /\ Range(q) \cap drop # {} => Len(Rest(q, drop)) < Len(q)
<1> DEFINE stay == Stay(q, drop)
           card == Cardinality(stay)
           r == Rest(q, drop)
           at == InOrder(stay)
<1>1. DOMAIN q = 1..Len(q) /\ Len(q) \in Nat /\ \A i \in DOMAIN q : q[i] \in Nonces OBVIOUS
<1>2. IsFiniteSet(DOMAIN q) /\ Cardinality(DOMAIN q) = Len(q) BY <1>1, FS_Interval
<1>3. stay \in SUBSET DOMAIN q /\ stay \in SUBSET Nat BY <1>1 DEF Stay
<1>4. /\ IsFiniteSet(stay) /\ card <= Len(q)
      /\ card = Len(q) => stay = DOMAIN q
  BY <1>2, <1>3, FS_Subset
<1>5. /\ card \in Nat
      /\ at \in [1..card -> stay]
      /\ \A m, n \in 1..card : m < n => at[m] < at[n]
      /\ \A i \in stay : \E m \in 1..card : at[m] = i
  BY <1>3, <1>4, Ordered
<1>6. r = [n \in 1..card |-> q[at[n]]] BY DEF Rest
<1>7. ASSUME NEW n \in 1..card
      PROVE  at[n] \in DOMAIN q /\ r[n] = q[at[n]] /\ q[at[n]] \notin drop /\ r[n] \in Nonces
  <2>1. at[n] \in stay BY <1>5
  <2>2. r[n] = q[at[n]] BY <1>6
  <2> QED BY <1>1, <1>3, <2>1, <2>2 DEF Stay
<1>8. r \in Seq(Nonces) /\ Len(r) = card /\ DOMAIN r = 1..card BY <1>5, <1>6, <1>7
<1>9. ASSUME NEW m \in 1..card, NEW n \in 1..card, m # n PROVE r[m] # r[n]
  <2>1. m < n \/ n < m BY <1>5, <1>9
  <2>2. at[m] \in Nat /\ at[n] \in Nat BY <1>1, <1>7
  <2>3. at[m] # at[n] BY <1>5, <2>1, <2>2
  <2> QED BY <1>7, <2>3 DEF IsInjective
<1>10. IsInjective(r) BY <1>8, <1>9 DEF IsInjective
<1>11. Range(r) = Range(q) \ drop
  <2>1. ASSUME NEW x \in Range(r) PROVE x \in Range(q) \ drop
    <3>1. PICK n \in 1..card : r[n] = x BY <1>8, <2>1 DEF Range
    <3> QED BY <1>7, <3>1 DEF Range
  <2>2. ASSUME NEW x \in Range(q) \ drop PROVE x \in Range(r)
    <3>1. PICK i \in DOMAIN q : q[i] = x BY <2>2 DEF Range
    <3>2. i \in stay BY <2>2, <3>1 DEF Stay
    <3>3. PICK n \in 1..card : at[n] = i BY <1>5, <3>2
    <3> QED BY <1>7, <1>8, <3>1, <3>3 DEF Range
  <2> QED BY <2>1, <2>2
<1>12. ASSUME NEW m \in DOMAIN r, NEW n \in DOMAIN r, m < n PROVE Precedes(q, r[m], r[n])
  <2>1. at[m] < at[n] BY <1>5, <1>8, <1>12
  <2> QED BY <1>7, <1>8, <2>1 DEF Precedes
<1>13. ASSUME Range(q) \cap drop # {} PROVE card < Len(q)
  <2>1. PICK i \in DOMAIN q : q[i] \in drop BY <1>13 DEF Range
  <2>2. i \notin stay BY <2>1 DEF Stay
  <2> QED BY <1>1, <1>4, <1>5, <2>2
<1> QED BY <1>4, <1>8, <1>10, <1>11, <1>12, <1>13

\* Without in terms of it.
LEMMA WithoutIsRest ==
  ASSUME NEW e, NEW q, NEW drop
  PROVE  Without(e, q, drop) =
           [entries |-> [k \in Nonces |-> IF k \in drop THEN Absent ELSE e[k]],
            queue   |-> Rest(q, drop)]
  BY DEF Without, Rest, Stay

\* Map and list hold the same keys.
Agree(e, q) ==
  /\ e \in [Nonces -> Nat \cup {Absent}]
  /\ q \in Seq(Nonces)
  /\ Range(q) = Held(e)
  /\ IsInjective(q)

LEMMA WithoutAgrees ==
  ASSUME NEW e, NEW q, Agree(e, q), NEW drop
  PROVE  /\ Agree(Without(e, q, drop).entries, Without(e, q, drop).queue)
         /\ Held(Without(e, q, drop).entries) = Held(e) \ drop
<1> DEFINE w == Without(e, q, drop)
<1>1. w.entries = [k \in Nonces |-> IF k \in drop THEN Absent ELSE e[k]] BY WithoutIsRest
<1>2. w.entries \in [Nonces -> Nat \cup {Absent}] BY <1>1 DEF Agree
<1>3. Held(w.entries) = Held(e) \ drop BY <1>1 DEF Held
<1>4. /\ w.queue \in Seq(Nonces) /\ IsInjective(w.queue)
      /\ Range(w.queue) = Range(q) \ drop
  <2>1. w.queue = Rest(q, drop) BY WithoutIsRest
  <2>2. q \in Seq(Nonces) /\ IsInjective(q) BY DEF Agree
  <2> QED BY <2>1, <2>2, RestOfList
<1> QED BY <1>2, <1>3, <1>4 DEF Agree

\* In a list that holds each key once, what precedes does so at every index.
LEMMA OneOrder ==
  ASSUME NEW q, IsInjective(q), NEW x, NEW y, Precedes(q, x, y),
         NEW i \in DOMAIN q, NEW j \in DOMAIN q, q[i] = x, q[j] = y
  PROVE  i < j
  BY DEF Precedes, IsInjective

\* Evict drops what has expired; what else it drops comes before all that is
\* left, which fills the cache.  The last key of the list is left when it has
\* not expired.
LEMMA EvictMakesRoom ==
  ASSUME NEW e, NEW q, Agree(e, q), NEW now \in Nat
  PROVE  LET w == Evict(e, q, now)
             gone == {k \in Nonces : e[k] # Absent /\ w.entries[k] = Absent}
             forced == {k \in gone : e[k] > now}
         IN  /\ Agree(w.entries, w.queue)
             /\ Len(w.queue) <= MaxEntries
             /\ \A k \in Nonces : w.entries[k] \in {e[k], Absent}
             /\ forced # {} =>
                  /\ Len(w.queue) = MaxEntries
                  /\ Len(q) > MaxEntries
                  /\ \A k \in forced, x \in Range(w.queue) : Precedes(q, k, x)
             /\ q # <<>> /\ e[q[Len(q)]] > now => q[Len(q)] \notin gone
<1> USE EntriesAssumption, AbsentAssumption
<1> DEFINE s == Without(e, q, Expired(e, now))
           excess == Len(s.queue) - MaxEntries
           oldest == {s.queue[i] : i \in 1..excess}
           w == Evict(e, q, now)
           gone == {k \in Nonces : e[k] # Absent /\ w.entries[k] = Absent}
           forced == {k \in gone : e[k] > now}
<1>1. w = Without(s.entries, s.queue, oldest) BY DEF Evict
<1>2. /\ Agree(s.entries, s.queue)
      /\ Held(s.entries) = Held(e) \ Expired(e, now)
  BY WithoutAgrees
<1>3. /\ Agree(w.entries, w.queue)
      /\ Held(w.entries) = Held(s.entries) \ oldest
  BY <1>1, <1>2, WithoutAgrees
<1>4. s.entries = [k \in Nonces |-> IF k \in Expired(e, now) THEN Absent ELSE e[k]]
      /\ w.entries = [k \in Nonces |-> IF k \in oldest THEN Absent ELSE s.entries[k]]
  BY <1>1, WithoutIsRest
<1>5. /\ s.queue = Rest(q, Expired(e, now)) /\ w.queue = Rest(s.queue, oldest)
      /\ s.queue \in Seq(Nonces) /\ IsInjective(s.queue)
      /\ q \in Seq(Nonces) /\ IsInjective(q)
      /\ w.queue \in Seq(Nonces)
  <2>1. s.queue = Rest(q, Expired(e, now)) BY WithoutIsRest
  <2>2. w.queue = Rest(s.queue, oldest) BY <1>1, WithoutIsRest
  <2> HIDE DEF s, w
  <2> QED BY <1>2, <1>3, <2>1, <2>2 DEF Agree
<1>6. /\ Len(s.queue) <= Len(q) /\ Len(w.queue) = Cardinality(Stay(s.queue, oldest))
      /\ Len(w.queue) <= Len(s.queue)
      /\ Range(w.queue) = Range(s.queue) \ oldest
      /\ \A m, n \in DOMAIN s.queue : m < n => Precedes(q, s.queue[m], s.queue[n])
  BY <1>5, RestOfList
<1>7. Len(s.queue) \in Nat /\ excess \in Int /\ DOMAIN s.queue = 1..Len(s.queue)
  BY <1>5
<1>8. \A k \in Nonces : w.entries[k] \in {e[k], Absent} BY <1>4
<1>9. ASSUME NEW k \in forced PROVE k \in oldest
  <2>1. k \in Nonces /\ e[k] \in Nat /\ e[k] > now /\ w.entries[k] = Absent BY DEF Agree
  <2>2. k \notin Expired(e, now) BY <2>1 DEF Expired
  <2>3. s.entries[k] = e[k] BY <1>4, <2>1, <2>2
  <2> QED BY <1>4, <2>1, <2>3
<1> HIDE DEF w, s, oldest
<1>10. CASE excess <= 0
  <2>1. oldest = {} BY <1>7, <1>10 DEF oldest
  <2>2. forced = {} BY <1>9, <2>1
  <2>3. Len(w.queue) <= MaxEntries BY <1>5, <1>6, <1>7, <1>10
  <2>4. ASSUME q # <<>>, e[q[Len(q)]] > now, q[Len(q)] \in gone PROVE FALSE
    <3>1. q[Len(q)] \in forced BY <2>4
    <3> QED BY <2>2, <3>1
  <2> QED BY <1>3, <1>8, <2>2, <2>3, <2>4 DEF w
<1>11. CASE excess > 0
  <2>1. Stay(s.queue, oldest) = (excess + 1)..Len(s.queue)
    <3>1. ASSUME NEW i \in DOMAIN s.queue PROVE s.queue[i] \in oldest <=> i <= excess
      <4>1. i <= excess => s.queue[i] \in oldest BY <1>7 DEF oldest
      <4>2. ASSUME s.queue[i] \in oldest PROVE i <= excess
        <5>1. PICK j \in 1..excess : s.queue[j] = s.queue[i] BY <4>2 DEF oldest
        <5>2. j \in DOMAIN s.queue BY <1>7
        <5>3. i = j BY <1>5, <5>1, <5>2 DEF IsInjective
        <5> QED BY <1>7, <5>3
      <4> QED BY <4>1, <4>2
    <3> QED BY <1>7, <1>11, <3>1 DEF Stay
  <2>2. Len(w.queue) = MaxEntries
    <3>1. Cardinality((excess + 1)..Len(s.queue)) = Len(s.queue) - (excess + 1) + 1
      BY <1>7, <1>11, FS_Interval
    <3> QED BY <1>6, <1>7, <2>1, <3>1
  <2>3. ASSUME NEW k \in forced, NEW x \in Range(w.queue) PROVE Precedes(q, k, x)
    <3>1. k \in oldest /\ x \in Range(s.queue) \ oldest BY <1>6, <1>9
    <3>2. PICK i \in 1..excess : s.queue[i] = k BY <3>1 DEF oldest
    <3>3. PICK j \in DOMAIN s.queue : s.queue[j] = x BY <3>1 DEF Range
    <3>4. j > excess BY <1>7, <3>1, <3>3 DEF oldest
    <3> QED BY <1>6, <1>7, <3>2, <3>3, <3>4
  <2>4. Len(q) > MaxEntries
    <3>1. Len(q) \in Nat BY <1>5
    <3> QED BY <1>6, <1>7, <1>11, <3>1
  <2>5. ASSUME q # <<>>, e[q[Len(q)]] > now, q[Len(q)] \in gone PROVE FALSE
    <3> DEFINE k == q[Len(q)]
    <3>1. k \in forced BY <2>5
    <3>2. w.queue # <<>> BY <1>5, <2>2
    <3>3. w.queue[1] \in Range(w.queue) BY <1>5, <3>2 DEF Range
    <3>4. Precedes(q, k, w.queue[1]) BY <2>3, <3>1, <3>3
    <3>5. PICK i \in DOMAIN q, j \in DOMAIN q : i < j /\ q[i] = k BY <3>4 DEF Precedes
    <3>6. Len(q) \in DOMAIN q /\ DOMAIN q = 1..Len(q) /\ Len(q) \in Nat BY <1>5, <2>5
    <3>7. i = Len(q) BY <1>5, <3>5, <3>6 DEF IsInjective
    <3> QED BY <3>5, <3>6, <3>7
  <2> QED BY <1>3, <1>8, <2>2, <2>3, <2>4, <2>5 DEF w
<1> QED BY <1>7, <1>10, <1>11
-----------------------------------------------------------------------------
\* A key that is held was promised for as long, and a promise that is not over
\* is held; no call has a time ahead of the clock.
CacheInv ==
  /\ MapMatchesQueue
  /\ time \in Nat /\ restarts \in Nat
  /\ adding \in [Handlers -> Nonces \cup {Absent}]
  /\ readAt \in [Handlers \cup {Janitor} -> Nat \cup {Absent}]
  /\ \A x \in Handlers \cup {Janitor} : readAt[x] # Absent => readAt[x] <= time
  /\ \A c \in Handlers : adding[c] # Absent => readAt[c] # Absent
  /\ promised \in [Nonces -> Nat]
  /\ \A k \in Nonces : promised[k] > time => entries[k] = promised[k]
  /\ \A k \in Nonces : entries[k] # Absent => entries[k] = promised[k]

\* What AddIfNotExists does to map and list when it adds a key.
LEMMA Added ==
  ASSUME CacheInv, NEW c \in Handlers, AddNew(c)
  PROVE  LET k == adding[c]
             now == readAt[c]
         IN  /\ k \in Nonces /\ now \in Nat /\ now <= time
             /\ Agree(entries', queue') /\ Len(queue') <= MaxEntries
             /\ entries'[k] = now + NonceTTL
             /\ \A n \in Nonces \ {k} : entries'[n] \in {entries[n], Absent}
             /\ \A n \in Nonces :
                  (entries[n] # Absent /\ entries[n] > now /\ entries'[n] = Absent) =>
                    /\ Len(queue') = MaxEntries
                    /\ \A i, j \in DOMAIN queue :
                         (queue[i] = n /\ queue[j] \in Range(queue')) => i < j
<1> USE EntriesAssumption, AbsentAssumption
<1> DEFINE k == adding[c]
           now == readAt[c]
           old == Without(entries, queue, {k})
           e == [old.entries EXCEPT ![k] = now + NonceTTL]
           q == Append(old.queue, k)
<1>1. k \in Nonces /\ now \in Nat /\ now <= time BY DEF CacheInv, AddNew
<1>2. Agree(entries, queue) /\ Len(queue) <= MaxEntries
  BY DEF CacheInv, MapMatchesQueue, Agree
<1>3. Agree(old.entries, old.queue) /\ Held(old.entries) = Held(entries) \ {k}
  BY <1>2, WithoutAgrees
<1>4. /\ old.queue = Rest(queue, {k})
      /\ old.entries = [n \in Nonces |-> IF n \in {k} THEN Absent ELSE entries[n]]
  BY WithoutIsRest
<1>5. entries' = Evict(e, q, now).entries /\ queue' = Evict(e, q, now).queue
  BY DEF AddNew
<1>6. /\ old.queue \in Seq(Nonces) /\ IsInjective(old.queue)
      /\ Range(old.queue) = Held(entries) \ {k}
      /\ old.entries \in [Nonces -> Nat \cup {Absent}]
  BY <1>3 DEF Agree
<1>7. /\ queue \in Seq(Nonces) /\ IsInjective(queue)
      /\ Range(queue) = Held(entries) /\ entries \in [Nonces -> Nat \cup {Absent}]
  BY <1>2 DEF Agree
<1> HIDE DEF old
<1>8. /\ q \in Seq(Nonces) /\ Len(q) = Len(old.queue) + 1 /\ Len(old.queue) \in Nat
      /\ q[Len(q)] = k /\ DOMAIN q = 1..Len(q)
      /\ \A i \in DOMAIN old.queue : i \in DOMAIN q /\ q[i] = old.queue[i]
      /\ \A i \in DOMAIN q : i # Len(q) => i \in DOMAIN old.queue
      /\ \A i \in DOMAIN old.queue : i \in 1..Len(old.queue)
  BY <1>1, <1>6
<1>9. \A i \in DOMAIN old.queue : old.queue[i] # k BY <1>6 DEF Range
<1>10. Agree(e, q)
  <2>1. e \in [Nonces -> Nat \cup {Absent}] BY <1>1, <1>6
  <2>2. Held(e) = Held(entries) \cup {k}
    <3>1. \A n \in Nonces : e[n] = IF n = k THEN now + NonceTTL ELSE entries[n]
      BY <1>1, <1>4, <1>6
    <3>2. now + NonceTTL # Absent BY <1>1
    <3> HIDE DEF e
    <3> QED BY <1>1, <3>1, <3>2 DEF Held
  <2> HIDE DEF e
  <2>3. Range(q) = Held(e)
    <3>1. ASSUME NEW x \in Range(q) PROVE x \in Held(e)
      <4>1. PICK i \in DOMAIN q : q[i] = x BY <3>1 DEF Range
      <4>2. CASE i = Len(q) BY <1>8, <2>2, <4>1, <4>2
      <4>3. CASE i # Len(q)
        <5>1. x \in Range(old.queue) BY <1>8, <4>1, <4>3 DEF Range
        <5> QED BY <1>6, <2>2, <5>1
      <4> QED BY <4>2, <4>3
    <3>2. ASSUME NEW x \in Held(e) PROVE x \in Range(q)
      <4>1. CASE x = k
        <5>1. Len(q) \in DOMAIN q BY <1>8
        <5> QED BY <1>8, <4>1, <5>1 DEF Range
      <4>2. CASE x # k
        <5>1. x \in Range(old.queue) BY <1>6, <2>2, <3>2, <4>2
        <5>2. PICK i \in DOMAIN old.queue : old.queue[i] = x BY <5>1 DEF Range
        <5> QED BY <1>8, <5>2 DEF Range
      <4> QED BY <4>1, <4>2
    <3> QED BY <3>1, <3>2
  <2>4. ASSUME NEW i \in DOMAIN q, NEW j \in DOMAIN q, q[i] = q[j] PROVE i = j
    <3>1. CASE i = Len(q) \/ j = Len(q) BY <1>8, <1>9, <2>4, <3>1
    <3>2. CASE i # Len(q) /\ j # Len(q)
      <4>1. i \in DOMAIN old.queue /\ j \in DOMAIN old.queue BY <1>8, <3>2
      <4>2. old.queue[i] = old.queue[j] BY <1>8, <2>4, <4>1
      <4> QED BY <1>6, <4>1, <4>2 DEF IsInjective
    <3> QED BY <3>1, <3>2
  <2> QED BY <1>8, <2>1, <2>3, <2>4 DEF Agree, IsInjective
<1>11. /\ e[k] = now + NonceTTL /\ e[k] > now
       /\ \A n \in Nonces \ {k} : e[n] = entries[n]
  BY <1>1, <1>4, <1>6
<1> HIDE DEF e, q
<1> DEFINE w == Evict(e, q, now)
           gone == {n \in Nonces : e[n] # Absent /\ w.entries[n] = Absent}
           forced == {n \in gone : e[n] > now}
<1>12. /\ Agree(w.entries, w.queue) /\ Len(w.queue) <= MaxEntries
       /\ \A n \in Nonces : w.entries[n] \in {e[n], Absent}
       /\ forced # {} =>
            /\ Len(w.queue) = MaxEntries
            /\ Len(q) > MaxEntries
            /\ \A n \in forced, x \in Range(w.queue) : Precedes(q, n, x)
       /\ (q # <<>> /\ e[q[Len(q)]] > now) => q[Len(q)] \notin gone
  BY <1>1, <1>10, EvictMakesRoom
<1> HIDE DEF w
<1>13. entries' = w.entries /\ queue' = w.queue BY <1>5 DEF w
<1>14. entries'[k] = now + NonceTTL
  <2>1. k \notin gone BY <1>8, <1>11, <1>12
  <2>2. e[k] # Absent BY <1>1, <1>11
  <2> QED BY <1>1, <1>11, <1>12, <1>13, <2>1, <2>2
<1>15. \A n \in Nonces \ {k} : entries'[n] \in {entries[n], Absent} BY <1>11, <1>12, <1>13
<1>16. ASSUME NEW n \in Nonces, entries[n] # Absent, entries[n] > now, entries'[n] = Absent
       PROVE  /\ Len(queue') = MaxEntries
              /\ \A i, j \in DOMAIN queue :
                   (queue[i] = n /\ queue[j] \in Range(queue')) => i < j
  <2>1. n # k BY <1>1, <1>14, <1>16
  <2>2. n \in forced BY <1>11, <1>13, <1>16, <2>1
  <2>3. k \notin Range(queue)
    <3>1. ASSUME k \in Range(queue) PROVE FALSE
      <4>1. Range(queue) \cap {k} # {} BY <3>1
      <4>2. Len(old.queue) < Len(queue) BY <1>4, <1>7, <4>1, RestOfList
      <4>3. Len(queue) \in Nat BY <1>7
      <4> QED BY <1>2, <1>8, <1>12, <2>2, <4>2, <4>3
    <3> QED BY <3>1
  <2>4. ASSUME NEW i \in DOMAIN queue, NEW j \in DOMAIN queue,
               queue[i] = n, queue[j] \in Range(queue')
        PROVE  i < j
    <3>1. queue[j] # k BY <2>3 DEF Range
    <3>2. Precedes(q, n, queue[j]) BY <1>12, <1>13, <2>2, <2>4
    <3>3. PICK a \in DOMAIN q, b \in DOMAIN q : a < b /\ q[a] = n /\ q[b] = queue[j]
      BY <3>2 DEF Precedes
    <3>4. a # Len(q) /\ b # Len(q) BY <1>8, <2>1, <3>1, <3>3
    <3>5. /\ a \in DOMAIN old.queue /\ old.queue[a] = n
          /\ b \in DOMAIN old.queue /\ old.queue[b] = queue[j]
      BY <1>8, <3>3, <3>4
    <3>6. Precedes(queue, n, queue[j]) BY <1>4, <1>7, <3>3, <3>5, RestOfList
    <3> QED BY <1>7, <2>4, <3>6, OneOrder
  <2> QED BY <1>12, <1>13, <2>2, <2>4
<1> QED BY <1>1, <1>12, <1>13, <1>14, <1>15, <1>16

LEMMA EmptyAgrees == Agree([k \in Nonces |-> Absent], <<>>)
<1> DEFINE e == [k \in Nonces |-> Absent]
<1>1. Range(<<>>) = {} BY DEF Range
<1>2. Held(e) = {} BY DEF Held
<1>3. <<>> \in Seq(Nonces) /\ DOMAIN <<>> = {} OBVIOUS
<1>4. IsInjective(<<>>) BY <1>3 DEF IsInjective
<1>5. e \in [Nonces -> Nat \cup {Absent}] OBVIOUS
<1> HIDE DEF e
<1>6. Agree(e, <<>>) BY <1>1, <1>2, <1>3, <1>4, <1>5 DEF Agree
<1> QED BY <1>6 DEF e

LEMMA InitCache == CacheInit => CacheInv
<1> SUFFICES ASSUME CacheInit PROVE CacheInv OBVIOUS
<1> USE EntriesAssumption, AbsentAssumption DEF CacheInit
<1>1. MapMatchesQueue
  <2>1. Len(<<>>) <= MaxEntries OBVIOUS
  <2> QED BY <2>1, EmptyAgrees DEF Agree, MapMatchesQueue
<1> QED BY <1>1 DEF CacheInv

LEMMA AddKeeps ==
  ASSUME CacheInv, NEW c \in Handlers, AddNew(c)
  PROVE  CacheInv'
<1> USE EntriesAssumption, AbsentAssumption, HandlersAssumption
<1> DEFINE k == adding[c]
           now == readAt[c]
<1>1. /\ k \in Nonces /\ now \in Nat /\ now <= time
      /\ Agree(entries', queue') /\ Len(queue') <= MaxEntries
      /\ entries'[k] = now + NonceTTL
      /\ \A n \in Nonces \ {k} : entries'[n] \in {entries[n], Absent}
  BY Added
<1>2. \A n \in Nonces :
        (entries[n] # Absent /\ entries[n] > now /\ entries'[n] = Absent) =>
          Len(queue') = MaxEntries
  BY Added
<1>3. MapMatchesQueue' BY <1>1 DEF Agree, MapMatchesQueue
<1>4. /\ time' = time /\ restarts' = restarts /\ restarts \in Nat
      /\ adding' = [adding EXCEPT ![c] = Absent]
      /\ readAt' = [readAt EXCEPT ![c] = Absent]
  BY DEF AddNew, EndAdd, CacheInv
<1>5. promised' =
        [n \in Nonces |->
           IF n = k THEN now + NonceTTL
           ELSE IF /\ entries[n] # Absent /\ entries[n] > now
                   /\ entries'[n] = Absent /\ Len(queue') = MaxEntries
             THEN 0 ELSE promised[n]]
  BY DEF AddNew
<1>6. /\ promised \in [Nonces -> Nat] /\ time \in Nat
      /\ entries \in [Nonces -> Nat \cup {Absent}]
      /\ \A n \in Nonces : promised[n] > time => entries[n] = promised[n]
      /\ \A n \in Nonces : entries[n] # Absent => entries[n] = promised[n]
  BY DEF CacheInv, MapMatchesQueue
<1>7. promised' \in [Nonces -> Nat] BY <1>1, <1>5, <1>6
<1>8. ASSUME NEW n \in Nonces, promised'[n] > time' PROVE entries'[n] = promised'[n]
  <2>1. CASE n = k BY <1>1, <1>5, <2>1
  <2>2. CASE n # k
    <3>1. promised'[n] = promised[n] BY <1>4, <1>5, <1>6, <1>8, <2>2
    <3>2. entries[n] = promised[n] /\ promised[n] > time BY <1>4, <1>6, <1>8, <3>1
    <3>3. entries[n] # Absent /\ entries[n] > now BY <1>1, <1>6, <3>2
    <3>4. entries'[n] # Absent
      <4>1. entries'[n] = Absent => promised'[n] = 0 BY <1>2, <1>5, <2>2, <3>3
      <4> QED BY <1>4, <1>6, <1>8, <4>1
    <3> QED BY <1>1, <2>2, <3>1, <3>2, <3>4
  <2> QED BY <2>1, <2>2
<1>9. ASSUME NEW n \in Nonces, entries'[n] # Absent PROVE entries'[n] = promised'[n]
  <2>1. CASE n = k BY <1>1, <1>5, <2>1
  <2>2. CASE n # k
    <3>1. entries'[n] = entries[n] BY <1>1, <1>9, <2>2
    <3>2. promised'[n] = promised[n] BY <1>5, <1>9, <2>2
    <3> QED BY <1>6, <1>9, <3>1, <3>2
  <2> QED BY <2>1, <2>2
<1>10. /\ adding' \in [Handlers -> Nonces \cup {Absent}]
       /\ readAt' \in [Handlers \cup {Janitor} -> Nat \cup {Absent}]
       /\ \A x \in Handlers \cup {Janitor} : readAt'[x] # Absent => readAt'[x] <= time'
       /\ \A d \in Handlers : adding'[d] # Absent => readAt'[d] # Absent
  BY <1>4 DEF CacheInv
<1> QED BY <1>3, <1>4, <1>6, <1>7, <1>8, <1>9, <1>10 DEF CacheInv

LEMMA SweepKeeps == CacheInv /\ SweepExpired => CacheInv'
<1> SUFFICES ASSUME CacheInv, SweepExpired PROVE CacheInv' OBVIOUS
<1> USE EntriesAssumption, AbsentAssumption, HandlersAssumption
<1> DEFINE now == readAt[Janitor]
           s == Without(entries, queue, Expired(entries, now))
<1>1. /\ now \in Nat /\ now <= time
      /\ entries' = s.entries /\ queue' = s.queue
      /\ readAt' = [readAt EXCEPT ![Janitor] = Absent]
      /\ time' = time /\ adding' = adding /\ promised' = promised
      /\ restarts' = restarts /\ restarts \in Nat
  BY DEF SweepExpired, CacheInv
<1>2. Agree(entries, queue) /\ Len(queue) <= MaxEntries
  BY DEF CacheInv, MapMatchesQueue, Agree
<1>3. Agree(entries', queue') BY <1>1, <1>2, WithoutAgrees
<1>4. queue' = Rest(queue, Expired(entries, now)) BY <1>1, WithoutIsRest
<1>5. Len(queue') <= MaxEntries
  <2>1. queue \in Seq(Nonces) /\ IsInjective(queue) BY <1>2 DEF Agree
  <2>2. Len(queue') <= Len(queue) BY <1>4, <2>1, RestOfList
  <2>3. Len(queue) \in Nat /\ Len(queue') \in Nat BY <1>3, <2>1 DEF Agree
  <2> QED BY <1>2, <2>2, <2>3
<1>6. MapMatchesQueue' BY <1>3, <1>5 DEF MapMatchesQueue, Agree
<1>7. entries' = [n \in Nonces |-> IF n \in Expired(entries, now) THEN Absent ELSE entries[n]]
  BY <1>1, WithoutIsRest
<1>8. /\ promised \in [Nonces -> Nat] /\ time \in Nat
      /\ \A n \in Nonces : promised[n] > time => entries[n] = promised[n]
      /\ \A n \in Nonces : entries[n] # Absent => entries[n] = promised[n]
  BY DEF CacheInv
<1>9. ASSUME NEW n \in Nonces, promised[n] > time PROVE entries'[n] = promised[n]
  <2>1. entries[n] = promised[n] BY <1>8, <1>9
  <2>2. promised[n] \in Nat /\ ~(promised[n] <= now) BY <1>1, <1>8, <1>9
  <2>3. n \notin Expired(entries, now) BY <2>1, <2>2 DEF Expired
  <2> QED BY <1>7, <2>1, <2>3
<1>10. \A n \in Nonces : entries'[n] # Absent => entries'[n] = promised[n]
  BY <1>7, <1>8
<1>11. /\ readAt' \in [Handlers \cup {Janitor} -> Nat \cup {Absent}]
       /\ \A x \in Handlers \cup {Janitor} : readAt'[x] # Absent => readAt'[x] <= time
       /\ \A d \in Handlers : adding[d] # Absent => readAt'[d] # Absent
       /\ adding \in [Handlers -> Nonces \cup {Absent}]
  BY <1>1 DEF CacheInv, Janitor
<1> QED BY <1>1, <1>6, <1>8, <1>9, <1>10, <1>11 DEF CacheInv

LEMMA StepCache == CacheInv /\ [CacheNext]_cacheVars => CacheInv'
<1> SUFFICES ASSUME CacheInv, [CacheNext]_cacheVars PROVE CacheInv' OBVIOUS
<1> USE EntriesAssumption, AbsentAssumption, HandlersAssumption
<1>1. ASSUME NEW c \in Handlers, BeginAdd(c) PROVE CacheInv'
  <2>1. MapMatchesQueue' BY <1>1 DEF BeginAdd, CacheInv, MapMatchesQueue
  <2>2. c # Janitor BY DEF Janitor
  <2> QED BY <1>1, <2>1, <2>2 DEF BeginAdd, CacheInv
<1>2. ASSUME NEW c \in Handlers, FindExisting(c) PROVE CacheInv'
  <2>1. MapMatchesQueue' BY <1>2 DEF FindExisting, CacheInv, MapMatchesQueue
  <2> QED BY <1>2, <2>1 DEF FindExisting, EndAdd, CacheInv
<1>3. ASSUME NEW c \in Handlers, AddNew(c) PROVE CacheInv' BY <1>3, AddKeeps
<1>4. CASE BeginSweep
  <2>1. MapMatchesQueue' BY <1>4 DEF BeginSweep, CacheInv, MapMatchesQueue
  <2> QED BY <1>4, <2>1 DEF BeginSweep, CacheInv, Janitor
<1>5. CASE SweepExpired BY <1>5, SweepKeeps
<1>6. CASE CacheTick
  <2>1. MapMatchesQueue' BY <1>6 DEF CacheTick, CacheInv, MapMatchesQueue
  <2> QED BY <1>6, <2>1 DEF CacheTick, pendingVars, CacheInv
<1>7. CASE Restart
  <2>1. entries' = [k \in Nonces |-> Absent] /\ queue' = <<>> BY <1>7 DEF Restart
  <2>2. MapMatchesQueue'
    <3>1. Len(queue') <= MaxEntries BY <2>1
    <3> QED BY <2>1, <3>1, EmptyAgrees DEF Agree, MapMatchesQueue
  <2> QED BY <1>7, <2>2 DEF Restart, CacheInv
<1>8. CASE UNCHANGED cacheVars
  BY <1>8 DEF cacheVars, pendingVars, CacheInv, MapMatchesQueue
<1> QED BY <1>1, <1>2, <1>3, <1>4, <1>5, <1>6, <1>7, <1>8 DEF CacheNext

THEOREM CacheInvariant == CacheSpec => []CacheInv
  BY InitCache, StepCache, PTL DEF CacheSpec

\* The map and the insertion list of the nonce cache are two views of the same
\* keys, within the limit.
THEOREM MapAndQueueMatch == CacheSpec => []MapMatchesQueue
<1>1. CacheInv => MapMatchesQueue BY DEF CacheInv
<1> QED BY <1>1, CacheInvariant, PTL

\* AddIfNotExists accepts a key only when no promise stands for it.
THEOREM NoncesAcceptedOnce == CacheSpec => AcceptedOnce
<1> USE EntriesAssumption, AbsentAssumption
<1>1. CacheInv /\ [CacheNext]_cacheVars => [AcceptStep]_cacheVars
  <2> SUFFICES ASSUME CacheInv, NEW c \in Handlers, AddNew(c)
               PROVE  promised[adding[c]] <= time
    BY DEF AcceptStep
  <2> DEFINE k == adding[c]
  <2>1. k \in Nonces /\ readAt[c] \in Nat /\ readAt[c] <= time /\ time \in Nat
    BY Added DEF CacheInv
  <2>2. entries[k] # Absent => entries[k] <= readAt[c] BY DEF AddNew
  <2>3. promised[k] \in Nat /\ (promised[k] > time => entries[k] = promised[k])
    BY <2>1 DEF CacheInv
  <2> QED BY <2>1, <2>2, <2>3
<1> QED BY <1>1, CacheInvariant, PTL DEF CacheSpec, AcceptedOnce

\* A live key makes room only for MaxEntries keys that all came after it, and
\* never at once for itself.
THEOREM OldestRoomFirst == CacheSpec => OldestMakesRoom
<1> USE EntriesAssumption, AbsentAssumption
<1>1. CacheInv /\ [CacheNext]_cacheVars => [RoomStep]_cacheVars
  <2> SUFFICES ASSUME CacheInv, CacheNext PROVE RoomStep BY DEF RoomStep
  <2>1. ASSUME NEW c \in Handlers, AddNew(c) PROVE entries'[adding[c]] # Absent
    <3>1. readAt[c] \in Nat /\ entries'[adding[c]] = readAt[c] + NonceTTL BY <2>1, Added
    <3> QED BY <3>1
  <2>2. ASSUME NEW k \in Nonces, entries[k] # Absent, entries[k] > time, entries'[k] = Absent
        PROVE  \/ restarts' # restarts
               \/ /\ Len(queue') = MaxEntries
                  /\ \A i \in DOMAIN queue, j \in DOMAIN queue :
                       (queue[j] \in Range(queue') /\ queue[i] = k) => i < j
    <3>1. entries[k] \in Nat /\ time \in Nat BY <2>2 DEF CacheInv, MapMatchesQueue
    <3>2. ASSUME NEW c \in Handlers, AddNew(c)
          PROVE  /\ Len(queue') = MaxEntries
                 /\ \A i \in DOMAIN queue, j \in DOMAIN queue :
                      (queue[j] \in Range(queue') /\ queue[i] = k) => i < j
      <4>1. readAt[c] \in Nat /\ readAt[c] <= time BY <3>2, Added
      <4>2. entries[k] > readAt[c] BY <2>2, <3>1, <4>1
      <4> QED BY <2>2, <3>2, <4>2, Added
    <3>3. CASE SweepExpired
      <4>1. readAt[Janitor] \in Nat /\ readAt[Janitor] <= time
        BY <3>3 DEF SweepExpired, CacheInv
      <4>2. entries' = [n \in Nonces |->
                          IF n \in Expired(entries, readAt[Janitor]) THEN Absent ELSE entries[n]]
        BY <3>3, WithoutIsRest DEF SweepExpired
      <4>3. k \notin Expired(entries, readAt[Janitor]) BY <2>2, <3>1, <4>1 DEF Expired
      <4> QED BY <2>2, <4>2, <4>3
    <3>4. CASE Restart
      <4>1. restarts' = restarts + 1 /\ restarts \in Nat BY <3>4 DEF Restart, CacheInv
      <4> QED BY <4>1
    <3>5. CASE UNCHANGED entries BY <2>2, <3>5
    <3> QED
      BY <3>2, <3>3, <3>4, <3>5 DEF CacheNext, BeginAdd, FindExisting, BeginSweep, CacheTick
  <2> QED BY <2>1, <2>2 DEF RoomStep
<1> QED BY <1>1, CacheInvariant, PTL DEF CacheSpec, OldestMakesRoom

\* As many keys are held as the list is long.
LEMMA HeldCount ==
  ASSUME NEW e, NEW q, Agree(e, q)
  PROVE  IsFiniteSet(Held(e)) /\ Cardinality(Held(e)) = Len(q)
<1>1. /\ q \in Seq(Nonces) /\ Range(q) = Held(e) /\ Len(q) \in Nat
      /\ DOMAIN q = 1..Len(q) /\ IsInjective(q)
  BY DEF Agree
<1>2. IsFiniteSet(1..Len(q)) /\ Cardinality(1..Len(q)) = Len(q)
  <2>1. \A n \in Nat : IsFiniteSet(1..n) /\ Cardinality(1..n) = n BY FS_Interval
  <2> QED BY <1>1, <2>1
<1>3. q \in [1..Len(q) -> Held(e)] BY <1>1 DEF Range
<1>4. q \in Injection(1..Len(q), Held(e)) BY <1>1, <1>3 DEF Injection, IsInjective
<1>5. q \in Surjection(1..Len(q), Held(e)) BY <1>1, <1>3 DEF Surjection, Range
<1>6. ExistsBijection(1..Len(q), Held(e))
  BY <1>4, <1>5 DEF ExistsBijection, Bijection
<1> QED BY <1>2, <1>6, FS_Bijection

\* The list was within the limit, so an added key makes at most one key leave
\* that had not expired for its caller.
LEMMA OneLeaves ==
  ASSUME CacheInv, NEW c \in Handlers, AddNew(c),
         NEW m \in Nonces, entries[m] # Absent, entries[m] > readAt[c], entries'[m] = Absent,
         NEW n \in Nonces, entries[n] # Absent, entries[n] > readAt[c], entries'[n] = Absent
  PROVE  m = n
<1> DEFINE k == adding[c]
           before == Held(entries)
           after == Held(entries')
<1>1. /\ Agree(entries', queue') /\ Len(queue') = MaxEntries
      /\ \A x \in Nonces \ {k} : entries'[x] \in {entries[x], Absent}
  BY Added
<1>2. Agree(entries, queue) /\ Len(queue) <= MaxEntries /\ Len(queue) \in Nat
  BY DEF CacheInv, MapMatchesQueue, Agree
<1>3. /\ IsFiniteSet(before) /\ Cardinality(before) = Len(queue)
      /\ IsFiniteSet(after) /\ Cardinality(after) = MaxEntries
  BY <1>1, <1>2, HeldCount
<1>4. after \ {k} \in SUBSET ((before \ {m}) \ {n})
  BY <1>1 DEF Held
<1>5. m \in before /\ n \in before BY DEF Held
<1> HIDE DEF before, after
<1> SUFFICES ASSUME m # n PROVE FALSE OBVIOUS
<1>6. IsFiniteSet(before \ {m}) /\ Cardinality(before \ {m}) = Len(queue) - 1
  BY <1>3, <1>5, FS_RemoveElement
<1>7. /\ IsFiniteSet((before \ {m}) \ {n})
      /\ Cardinality((before \ {m}) \ {n}) = Len(queue) - 2
  <2>1. n \in before \ {m} BY <1>5
  <2>2. Cardinality((before \ {m}) \ {n}) = Cardinality(before \ {m}) - 1
    BY <1>6, <2>1, FS_RemoveElement
  <2>3. IsFiniteSet((before \ {m}) \ {n}) BY <1>6, FS_RemoveElement
  <2>4. (Len(queue) - 1) - 1 = Len(queue) - 2 BY <1>2
  <2> QED BY <1>6, <2>2, <2>3, <2>4
<1>8. Cardinality(after \ {k}) \in {MaxEntries, MaxEntries - 1}
  BY <1>3, FS_RemoveElement
<1>9. Cardinality(after \ {k}) <= Cardinality((before \ {m}) \ {n})
  BY <1>4, <1>7, FS_Subset
<1> QED BY <1>2, <1>7, <1>8, <1>9, EntriesAssumption

\* The live keys are held, so they are no more than the limit.
LEMMA LiveFit ==
  ASSUME NEW e, NEW q, Agree(e, q), NEW L,
         \A s \in L : s = <<s[1], e[s[1]]>> /\ s[1] \in Held(e)
  PROVE  IsFiniteSet(L) /\ Cardinality(L) <= Len(q)
<1>1. IsFiniteSet(Held(e)) /\ Cardinality(Held(e)) = Len(q) BY HeldCount
<1> DEFINE keyOf == [s \in L |-> s[1]]
<1>2. keyOf \in [L -> Held(e)] OBVIOUS
<1>3. ASSUME NEW s \in L, NEW t \in L, keyOf[s] = keyOf[t] PROVE s = t
  <2>1. s[1] = t[1] BY <1>3
  <2>2. s = <<s[1], e[s[1]]>> /\ t = <<t[1], e[t[1]]>> OBVIOUS
  <2> QED BY <2>1, <2>2
<1> HIDE DEF keyOf
<1>4. keyOf \in Injection(L, Held(e)) BY <1>2, <1>3 DEF Injection, IsInjective
<1> QED BY <1>1, <1>4, FS_Injection

LEMMA SameCardinality == \A S : Guard!Cardinality(S) = Cardinality(S)
  BY Zenon DEF Guard!Cardinality, Cardinality

\* To the rest of the server, the cache is NonceGuard: every call, sweep and
\* restart is a step of it or changes nothing it shows.
THEOREM CacheIsGuard == CacheSpec => ImplementsGuard
<1> USE EntriesAssumption, AbsentAssumption
<1> DEFINE live == {<<k, promised[k]>> : k \in {n \in Nonces : promised[n] > time}}
<1>1. CacheInit => Guard!Init
  <2> SUFFICES ASSUME CacheInit PROVE time = 0 /\ live = {} BY DEF Guard!Init
  <2>1. \A n \in Nonces : ~(promised[n] > time) BY DEF CacheInit
  <2> QED BY <2>1 DEF CacheInit
<1>2. CacheInv /\ CacheInv' /\ [CacheNext]_cacheVars => [Guard!Next]_Guard!vars
  <2> SUFFICES ASSUME CacheInv, CacheInv', [CacheNext]_cacheVars
               PROVE  Guard!Next \/ (time' = time /\ live' = live)
    BY DEF Guard!vars
  <2>1. promised \in [Nonces -> Nat] /\ time \in Nat BY DEF CacheInv
  <2>2. ASSUME NEW c \in Handlers, AddNew(c) PROVE Guard!Next
    <3> DEFINE k == adding[c]
               end == readAt[c] + NonceTTL
               new == IF end > time THEN end ELSE time
    <3>1. /\ k \in Nonces /\ readAt[c] \in Nat /\ readAt[c] <= time
          /\ Agree(entries', queue') /\ Len(queue') <= MaxEntries
      BY <2>2, Added
    <3>2. time' = time BY <2>2 DEF AddNew
    <3>3. promised' = [n \in Nonces |->
            IF n = k THEN end
            ELSE IF /\ entries[n] # Absent /\ entries[n] > readAt[c]
                    /\ entries'[n] = Absent /\ Len(queue') = MaxEntries
              THEN 0 ELSE promised[n]]
      BY <2>2 DEF AddNew
    <3>4. promised'[k] = end /\ \A n \in Nonces \ {k} : promised'[n] \in {0, promised[n]}
      BY <3>1, <3>3
    <3>5. ~(promised[k] > time)
      <4>1. promised[k] > time => entries[k] = promised[k] BY <3>1 DEF CacheInv
      <4>2. entries[k] # Absent => entries[k] <= readAt[c] BY <2>2 DEF AddNew
      <4>3. promised[k] \in Nat BY <2>1, <3>1
      <4> QED BY <2>1, <3>1, <4>1, <4>2, <4>3
    <3>6. \A s \in live : s[1] # k BY <3>5
    <3> DEFINE leaving == {n \in Nonces \ {k} : promised[n] > time /\ promised'[n] = 0}
    <3>7. ASSUME NEW m \in leaving, NEW n \in leaving PROVE m = n
      <4>1. \A x \in leaving : /\ x \in Nonces /\ entries[x] # Absent
                               /\ entries[x] > readAt[c] /\ entries'[x] = Absent
        <5> TAKE x \in leaving
        <5>1. entries[x] = promised[x] /\ promised[x] \in Nat /\ promised[x] > time
          BY <2>1 DEF CacheInv
        <5>2. promised'[x] = 0 /\ promised'[x] # promised[x] BY <2>1, <5>1
        <5> QED BY <2>1, <3>1, <3>3, <5>1, <5>2
      <4> QED BY <2>2, <4>1, OneLeaves
    <3>8. PICK oldest \in live \cup {<<k, new>>} :
            \A n \in Nonces \ {k} : promised[n] > time =>
              (n \in leaving <=> oldest = <<n, promised[n]>>)
      <4>1. CASE leaving = {}
        <5>1. \A n \in Nonces \ {k} : promised[n] > time =>
                (n \in leaving <=> <<k, new>> = <<n, promised[n]>>)
          BY <4>1
        <5>2. <<k, new>> \in live \cup {<<k, new>>} OBVIOUS
        <5> HIDE DEF live, new, leaving
        <5> QED BY <5>1, <5>2
      <4>2. CASE leaving # {}
        <5>1. PICK m \in leaving : TRUE BY <4>2
        <5>2. <<m, promised[m]>> \in live BY <5>1
        <5>3. \A n \in Nonces \ {k} : promised[n] > time =>
                (n \in leaving <=> <<m, promised[m]>> = <<n, promised[n]>>)
          BY <3>7, <5>1
        <5> HIDE DEF live, new, leaving
        <5> QED BY <5>2, <5>3
      <4> QED BY <4>1, <4>2
    <3>9. live' = (live \ {oldest}) \cup {s \in {<<k, new>>} : s[2] > time}
      <4>1. live' = {<<n, promised'[n]>> : n \in {m \in Nonces : promised'[m] > time}} BY <3>2
      <4>2. ASSUME NEW s \in live'
            PROVE  s \in (live \ {oldest}) \cup {t \in {<<k, new>>} : t[2] > time}
        <5>1. PICK n \in Nonces : promised'[n] > time /\ s = <<n, promised'[n]>> BY <4>1, <4>2
        <5>2. CASE n = k BY <3>4, <5>1, <5>2
        <5>3. CASE n # k
          <6>1. promised'[n] = promised[n] /\ promised'[n] # 0 BY <2>1, <3>4, <5>1, <5>3
          <6>2. s \in live /\ n \notin leaving BY <5>1, <6>1
          <6>3. s # oldest BY <3>8, <5>1, <5>3, <6>1, <6>2
          <6> QED BY <6>2, <6>3
        <5> QED BY <5>2, <5>3
      <4>3. ASSUME NEW s \in live, s # oldest PROVE s \in live'
        <5>1. PICK n \in Nonces : promised[n] > time /\ s = <<n, promised[n]>> BY <4>3
        <5>2. n # k BY <3>5, <5>1
        <5>3. n \notin leaving BY <3>8, <4>3, <5>1, <5>2
        <5>4. promised'[n] = promised[n] BY <3>4, <5>1, <5>2, <5>3
        <5> QED BY <4>1, <5>1, <5>4
      <4>4. ASSUME NEW s \in {t \in {<<k, new>>} : t[2] > time} PROVE s \in live'
        <5>1. s = <<k, new>> /\ new > time BY <4>4
        <5>2. new = end /\ end > time BY <2>1, <3>1, <5>1
        <5> QED BY <3>1, <3>4, <4>1, <5>1, <5>2
      <4> QED BY <4>2, <4>3, <4>4
    <3>10. Cardinality(live') <= MaxEntries
      <4>1. ASSUME NEW s \in live' PROVE s = <<s[1], entries'[s[1]]>> /\ s[1] \in Held(entries')
        <5>1. PICK n \in Nonces : promised'[n] > time' /\ s = <<n, promised'[n]>> BY <4>1
        <5>2. entries'[n] = promised'[n] /\ promised'[n] \in Nat BY <5>1 DEF CacheInv
        <5>3. entries'[n] # Absent BY <5>2
        <5> QED BY <5>1, <5>2, <5>3 DEF Held
      <4> HIDE DEF live
      <4>2. IsFiniteSet(live') /\ Cardinality(live') <= Len(queue') BY <3>1, <4>1, LiveFit
      <4>3. Cardinality(live') \in Nat /\ Len(queue') \in Nat
        BY <3>1, <4>2, FS_CardinalityType DEF Agree
      <4> QED BY <3>1, <4>2, <4>3
    <3>11. new \in time..(time + NonceTTL) /\ Guard!Cardinality(live') <= MaxEntries
      BY <2>1, <3>1, <3>10, SameCardinality
    <3> HIDE DEF new
    <3>12. \E stop \in time..(time + NonceTTL) :
             \E first \in live \cup {<<k, stop>>} :
               live' = (live \ {first}) \cup {s \in {<<k, stop>>} : s[2] > time}
      BY <3>8, <3>9, <3>11
    <3>13. PICK n \in Nonces : n = k BY <3>1
    <3>14. Guard!Accept(n) BY <3>2, <3>6, <3>11, <3>12, <3>13 DEF Guard!Accept
    <3> QED BY <3>14 DEF Guard!Next
  <2>3. CASE CacheTick
    <3>1. time' = time + 1 /\ promised' = promised BY <2>3 DEF CacheTick
    <3>2. live' = {s \in live : s[2] > time'} BY <2>1, <3>1
    <3> QED BY <3>1, <3>2 DEF Guard!Next, Guard!Pass
  <2>4. CASE Restart
    <3>1. time' = time /\ promised' = [n \in Nonces |-> 0] BY <2>4 DEF Restart
    <3>2. live' = {} BY <2>1, <3>1
    <3> QED BY <3>1, <3>2 DEF Guard!Next, Guard!Restart
  <2>5. CASE UNCHANGED <<time, promised>> BY <2>5
  <2> QED
    BY <2>2, <2>3, <2>4, <2>5
       DEF CacheNext, cacheVars, BeginAdd, FindExisting, BeginSweep, SweepExpired
<1> QED BY <1>1, <1>2, CacheInvariant, PTL DEF CacheSpec, ImplementsGuard, Guard!Spec
=============================================================================
