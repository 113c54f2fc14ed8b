----------------------------- MODULE NonceCache -----------------------------
(***************************************************************************)
(* internal/noncecache: a map of recently seen nonces with an expiry and   *)
(* an insertion list, bounded by MaxEntries, under one mutex.  Handlers    *)
(* read the clock before they take the lock, so a call may run with an     *)
(* older time than one that ran before it.  The janitor sweeps at its own  *)
(* pace, and a restart of the server empties the cache.                    *)
(***************************************************************************)
EXTENDS Integers, Sequences, FiniteSets, Functions

CONSTANTS
  Nonces,      \* keys "provider|asset|nonce"
  Handlers,    \* concurrent announce handlers
  NonceTTL,    \* CATALOG_NONCE_CACHE_TTL_SECONDS
  MaxEntries,  \* CATALOG_NONCE_CACHE_MAX_ENTRIES
  MaxSeconds,  \* bound: the time
  MaxRestarts, \* bound: restarts of the server
  Absent

ASSUME EntriesAssumption ==
  NonceTTL \in Nat \ {0} /\ MaxEntries \in Nat \ {0} /\ MaxRestarts \in Nat
ASSUME AbsentAssumption == Absent \notin Nonces \cup Nat
ASSUME HandlersAssumption == "janitor" \notin Handlers

VARIABLES
  time,      \* of the system clock
  entries,   \* expiresAt of each key of the map, Absent when it has no entry
  queue,     \* insertionQ: keys, oldest first
  adding,    \* the key each handler is about to add, Absent outside a call
  readAt,    \* the time it read; the janitor's under "janitor"
  promised,  \* history: until when a key accepted once must stay refused
  restarts

pendingVars == <<adding, readAt>>
cacheVars == <<time, entries, queue, pendingVars, promised, restarts>>

Janitor == "janitor"

CacheInit ==
  /\ time = 0
  /\ entries = [k \in Nonces |-> Absent]
  /\ queue = <<>>
  /\ adding = [c \in Handlers |-> Absent]
  /\ readAt = [c \in Handlers \cup {Janitor} |-> Absent]
  /\ promised = [k \in Nonces |-> 0]
  /\ restarts = 0

Held(e) == {k \in Nonces : e[k] # Absent}

\* Mutant: the list element of a dropped key stays.
WithoutLeaving(e, q, drop) ==
  [entries |-> [k \in Nonces |-> IF k \in drop THEN Absent ELSE e[k]],
   queue   |-> q]

\* The numbers of a finite set, the smallest first.
InOrder(numbers) ==
  CHOOSE f \in [1..Cardinality(numbers) -> numbers] :
    \A m, n \in 1..Cardinality(numbers) : m < n => f[m] < f[n]

\* removeLocked for each key of drop; the rest of the list keeps its order.
Without(e, q, drop) ==
  LET stay == {i \in DOMAIN q : q[i] \notin drop}
  IN  [entries |-> [k \in Nonces |-> IF k \in drop THEN Absent ELSE e[k]],
       queue   |-> [n \in 1..Cardinality(stay) |-> q[InOrder(stay)[n]]]]

\* Mutant: an entry is swept a second before it expires.
ExpiredEarly(e, now) == {k \in Held(e) : e[k] <= now + 1}

Expired(e, now) == {k \in Held(e) : e[k] <= now}

\* Mutant: the newest entry makes room.
EvictNewest(e, q, now) ==
  LET s == Without(e, q, Expired(e, now))
      excess == Len(s.queue) - MaxEntries
  IN  Without(s.entries, s.queue,
              {s.queue[i] : i \in (Len(s.queue) - excess + 1)..Len(s.queue)})

\* Mutant: no room is made.
SweepOnly(e, q, now) == Without(e, q, Expired(e, now))

\* Sweeps, then drops the oldest entries above the limit.
Evict(e, q, now) ==
  LET s == Without(e, q, Expired(e, now))
      excess == Len(s.queue) - MaxEntries
  IN  Without(s.entries, s.queue, {s.queue[i] : i \in 1..excess})

-----------------------------------------------------------------------------
\* A handler reads the time and calls AddIfNotExists.
BeginAdd(c) ==
  /\ adding[c] = Absent
  /\ \E k \in Nonces : adding' = [adding EXCEPT ![c] = k]
  /\ readAt' = [readAt EXCEPT ![c] = time]
  /\ UNCHANGED <<time, entries, queue, promised, restarts>>

EndAdd(c) ==
  /\ adding' = [adding EXCEPT ![c] = Absent]
  /\ readAt' = [readAt EXCEPT ![c] = Absent]

\* The key has a live entry: the answer is "exists".
FindExisting(c) ==
  /\ adding[c] # Absent
  /\ entries[adding[c]] # Absent
  /\ entries[adding[c]] > readAt[c]
  /\ EndAdd(c)
  /\ UNCHANGED <<time, entries, queue, promised, restarts>>

\* Otherwise an expired entry is removed, the key added and room made.  A
\* live key that makes room is no longer promised.
AddNew(c) ==
  LET k == adding[c]
      e == readAt[c] + NonceTTL
      old == Without(entries, queue, {k})
      new == Evict([old.entries EXCEPT ![k] = e], Append(old.queue, k), readAt[c])
  IN  /\ k # Absent
      /\ entries[k] # Absent => entries[k] <= readAt[c]
      /\ entries' = new.entries
      /\ queue' = new.queue
      /\ promised' =
           [n \in Nonces |->
              IF n = k THEN e
              ELSE IF /\ entries[n] # Absent /\ entries[n] > readAt[c]
                      /\ entries'[n] = Absent /\ Len(queue') = MaxEntries
                THEN 0 ELSE promised[n]]
      /\ EndAdd(c)
      /\ UNCHANGED <<time, restarts>>

BeginSweep ==
  /\ readAt[Janitor] = Absent
  /\ readAt' = [readAt EXCEPT ![Janitor] = time]
  /\ UNCHANGED <<time, entries, queue, adding, promised, restarts>>

SweepExpired ==
  LET s == Without(entries, queue, Expired(entries, readAt[Janitor]))
  IN  /\ readAt[Janitor] # Absent
      /\ entries' = s.entries
      /\ queue' = s.queue
      /\ readAt' = [readAt EXCEPT ![Janitor] = Absent]
      /\ UNCHANGED <<time, adding, promised, restarts>>

CacheTick ==
  /\ time < MaxSeconds
  /\ time' = time + 1
  /\ UNCHANGED <<entries, queue, pendingVars, promised, restarts>>

Restart ==
  /\ restarts < MaxRestarts
  /\ restarts' = restarts + 1
  /\ entries' = [k \in Nonces |-> Absent]
  /\ queue' = <<>>
  /\ adding' = [c \in Handlers |-> Absent]
  /\ readAt' = [c \in Handlers \cup {Janitor} |-> Absent]
  /\ promised' = [k \in Nonces |-> 0]
  /\ UNCHANGED time

CacheNext ==
  \/ \E c \in Handlers : BeginAdd(c) \/ FindExisting(c) \/ AddNew(c)
  \/ BeginSweep \/ SweepExpired \/ CacheTick \/ Restart

CacheSpec == CacheInit /\ [][CacheNext]_cacheVars

-----------------------------------------------------------------------------
(* Properties.                                                             *)

\* The map and the insertion list stay two views of the same keys, each key
\* once, within the limit: the "!ok" branches of sweepExpiredLocked and
\* evictLocked are never taken and the loop that makes room ends.
MapMatchesQueue ==
  /\ entries \in [Nonces -> Nat \cup {Absent}]
  /\ queue \in Seq(Nonces)
  /\ Range(queue) = Held(entries)
  /\ IsInjective(queue)
  /\ Len(queue) <= MaxEntries

\* AddIfNotExists accepts a key again only when the lifetime it was first
\* accepted with is over, however the calls and sweeps with older times
\* interleave -- unless the key had to make room or the server restarted.
AcceptStep ==
  \A c \in Handlers : AddNew(c) => promised[adding[c]] <= time
AcceptedOnce == [][AcceptStep]_cacheVars

\* A live key makes room only for MaxEntries keys that all came after it,
\* and the key just accepted is never the one that goes.
RoomStep ==
  /\ \A c \in Handlers : AddNew(c) => entries'[adding[c]] # Absent
  /\ \A k \in Nonces :
    (entries[k] # Absent /\ entries[k] > time /\ entries'[k] = Absent)
      => \/ restarts' # restarts
         \/ /\ Len(queue') = MaxEntries
            /\ \A i \in DOMAIN queue, j \in DOMAIN queue :
                 (queue[j] \in Range(queue') /\ queue[i] = k) => i < j
OldestMakesRoom == [][RoomStep]_cacheVars

\* To the rest of the server the cache is a set of live nonces: those whose
\* promise stands.
Guard == INSTANCE NonceGuard
           WITH live <- {<<k, promised[k]>> : k \in {n \in Nonces : promised[n] > time}}
ImplementsGuard == Guard!Spec
=============================================================================
