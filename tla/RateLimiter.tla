---------------------------- MODULE RateLimiter -----------------------------
(***************************************************************************)
(* internal/ratelimit: one token bucket for each address, filled when it   *)
(* is asked and evicted when its address was not seen for a while, under   *)
(* one mutex.  The middleware reads the clock before Allow takes the lock, *)
(* so a call may run with an older time than one that ran before it.       *)
(*                                                                         *)
(* Tokens are counted in ticks of the clock: a tick fills every bucket by  *)
(* one, a request takes Cost = 1 / rps.  The limiter lives in memory; a    *)
(* behaviour is one life of the server.                                    *)
(***************************************************************************)
EXTENDS Integers

CONSTANTS
  Addresses,  \* client addresses
  Callers,    \* concurrent requests
  Cost,       \* of one request, in ticks
  Burst,      \* room of a bucket, in ticks
  TTL,        \* CATALOG_RL_CACHE_TTL_SECONDS, in ticks
  MaxTime,    \* bound: the clock
  MaxLag,     \* bound: ticks a call waits for the lock
  None

\* New replaces what is not positive; at least one request fits in a bucket.
ASSUME LimitsAssumption ==
  /\ Cost \in Nat \ {0} /\ Burst \in Nat /\ Cost <= Burst /\ TTL \in Nat \ {0}
  /\ MaxTime \in Nat /\ MaxLag \in Nat
ASSUME NoneAssumption ==
  None \notin Addresses \cup Nat \cup [tokens : Nat, filled : Nat, seen : Nat]

VARIABLES
  clock,
  bucket,    \* tokens, lastFill and lastSeen of an address, None without one
  asking,    \* the address each request comes from, None outside a call
  stamp,     \* the time it read
  since,     \* history: when a window of observation was opened
  spent,     \* history: what each address was admitted in the window
  answered,  \* history: the time of its last answer
  patient    \* history: addresses that always waited for the answer, and Cost

callVars == <<asking, stamp>>
historyVars == <<since, spent, answered, patient>>
vars == <<clock, bucket, callVars, historyVars>>

Init ==
  /\ clock = 0
  /\ bucket = [a \in Addresses |-> None]
  /\ asking = [c \in Callers |-> None]
  /\ stamp = [c \in Callers |-> 0]
  /\ since = 0
  /\ spent = [a \in Addresses |-> 0]
  /\ answered = [a \in Addresses |-> None]
  /\ patient = Addresses

-----------------------------------------------------------------------------
(* Allow.                                                                  *)

\* Mutant: a bucket is filled above its room.
FilledOver(b, now) ==
  IF now <= b.filled THEN [b EXCEPT !.seen = now]
  ELSE [tokens |-> b.tokens + now - b.filled, filled |-> now, seen |-> now]

\* An older time than the last one fills nothing, but counts as seen.
Filled(b, now) ==
  IF now <= b.filled THEN [b EXCEPT !.seen = now]
  ELSE LET full == b.tokens + now - b.filled
       IN  [tokens |-> IF full > Burst THEN Burst ELSE full, filled |-> now, seen |-> now]

\* Mutant: a bucket starts empty.
EmptyBucket(now) == [tokens |-> 0, filled |-> now, seen |-> now]

NewBucket(now) == [tokens |-> Burst, filled |-> now, seen |-> now]

\* evictExpiredLocked drops all others.
Kept(now) == {a \in Addresses : bucket[a] # None /\ now - bucket[a].seen <= TTL}

\* The bucket a call finds or makes, filled.
Found(c) ==
  Filled(IF asking[c] \in Kept(stamp[c]) THEN bucket[asking[c]] ELSE NewBucket(stamp[c]),
         stamp[c])

Store(c, b) ==
  bucket' = [a \in Addresses |->
               IF a = asking[c] THEN b
               ELSE IF a \in Kept(stamp[c]) THEN bucket[a] ELSE None]

Return(c) ==
  /\ asking' = [asking EXCEPT ![c] = None]
  /\ stamp' = [stamp EXCEPT ![c] = 0]
  /\ answered' = [answered EXCEPT ![asking[c]] = clock]

\* Mutant: any rest of tokens is enough.
AdmitOnRest(c) ==
  /\ asking[c] # None
  /\ Found(c).tokens > 0
  /\ Store(c, [Found(c) EXCEPT !.tokens = @ - Cost])
  /\ spent' = [spent EXCEPT ![asking[c]] = @ + Cost]
  /\ Return(c)
  /\ UNCHANGED <<clock, since, patient>>

Admit(c) ==
  /\ asking[c] # None
  /\ Found(c).tokens >= Cost
  /\ Store(c, [Found(c) EXCEPT !.tokens = @ - Cost])
  /\ spent' = [spent EXCEPT ![asking[c]] = @ + Cost]
  /\ Return(c)
  /\ UNCHANGED <<clock, since, patient>>

\* 429: the bucket is filled, seen and stored all the same.
Refuse(c) ==
  /\ asking[c] # None
  /\ Found(c).tokens < Cost
  /\ Store(c, Found(c))
  /\ Return(c)
  /\ UNCHANGED <<clock, since, spent, patient>>

-----------------------------------------------------------------------------
Waited(a) ==
  /\ \A c \in Callers : asking[c] # a
  /\ answered[a] = None \/ clock - answered[a] >= Cost

\* The middleware reads the clock and calls Allow.
Call(c) ==
  /\ asking[c] = None
  /\ \E a \in Addresses :
       /\ asking' = [asking EXCEPT ![c] = a]
       /\ patient' = IF Waited(a) THEN patient ELSE patient \ {a}
  /\ stamp' = [stamp EXCEPT ![c] = clock]
  /\ UNCHANGED <<clock, bucket, since, spent, answered>>

Tick ==
  /\ clock < MaxTime
  /\ \A c \in Callers : asking[c] # None => clock - stamp[c] < MaxLag
  /\ clock' = clock + 1
  /\ UNCHANGED <<bucket, callVars, historyVars>>

\* An observer starts to count.
OpenWindow ==
  /\ since' = clock
  /\ spent' = [a \in Addresses |-> 0]
  /\ UNCHANGED <<clock, bucket, callVars, answered, patient>>

Next ==
  \/ \E c \in Callers : Call(c) \/ Admit(c) \/ Refuse(c)
  \/ Tick \/ OpenWindow

Spec == Init /\ [][Next]_vars

-----------------------------------------------------------------------------
(* Properties.                                                             *)

Bucket == [tokens : 0..Burst, filled : Nat, seen : Nat]

TypeOK ==
  /\ clock \in Nat /\ since \in Nat
  /\ bucket \in [Addresses -> Bucket \cup {None}]
  /\ asking \in [Callers -> Addresses \cup {None}]
  /\ stamp \in [Callers -> Nat]
  /\ spent \in [Addresses -> Nat]
  /\ answered \in [Addresses -> Nat \cup {None}]
  /\ patient \in SUBSET Addresses

\* A bucket is kept until it is full again, even when times are old.
KeptUntilFull == Burst + 2 * MaxLag <= TTL

\* In any window of time an address is admitted no more than a full bucket and
\* what fills it in that time, however calls with older times, refusals and
\* evictions by other addresses interleave -- but for what a call that waited
\* for the lock may take of the time before.
AdmittedBound ==
  KeptUntilFull => \A a \in Addresses : spent[a] <= Burst + (clock - since) + MaxLag

\* An address that sends one request after the other, Cost apart, is never
\* refused, whatever others do.
RefuseStep == \A c \in Callers : Refuse(c) => asking[c] \notin patient
PatientIsServed == [][RefuseStep]_vars
=============================================================================
