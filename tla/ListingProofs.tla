--------------------------- MODULE ListingProofs ----------------------------
(***************************************************************************)
(* Proofs about Listing, for any providers, limits, weights, lifetimes and *)
(* priorities, any lag of a stamp and any number of changes.               *)
(***************************************************************************)
EXTENDS Listing, FiniteSetTheorems, WellFoundedInduction, TLAPS

-----------------------------------------------------------------------------
(* Types, and the order of the times in a row and in an answer.            *)

Tag == [version : Times, updated : Times, expires : 0..MaxTime + MaxTTL]

RowTimes ==
  /\ DOMAIN rows = Providers /\ rows = [p \in Providers |-> rows[p]]
  /\ \A p \in HasRow :
       /\ rows[p] \in Row
       /\ 1 <= rows[p].seen /\ rows[p].seen <= rows[p].updated /\ rows[p].updated <= clock
       /\ rows[p].expires <= rows[p].seen + MaxTTL

RequestTimes ==
  /\ clock \in 1..MaxTime /\ published \in 0..clock
  /\ version \in 0..clock /\ now \in 0..clock /\ at \in 0..clock
  /\ inRegion \subseteq Providers
  /\ pc \in {"idle", "asset", "now", "query"}

AnswerTimes ==
  cached # None =>
    /\ cached \in Answer /\ Cardinality(cached.listed) <= Limit
    /\ cached.queried <= clock
    /\ cached.tag.version <= cached.queried /\ cached.tag.updated <= cached.queried
    /\ cached.listed = {} <=> cached.tag.updated = 0

ListInv == RowTimes /\ RequestTimes /\ AnswerTimes

\* A bounded set of naturals that is not empty has its maximum.
LEMMA MaxExists ==
  ASSUME NEW n \in Nat, NEW S \in SUBSET (0..n), S # {}
  PROVE  Max(S) \in S /\ \A y \in S : Max(S) >= y
<1> DEFINE T == {n - x : x \in S}
           Less == {ss \in Nat \X Nat : ss[1] < ss[2]}
<1>0. \A x \in S : x \in Nat /\ n - x \in Nat
  OBVIOUS
<1>1. T \subseteq Nat /\ T # {}
  BY <1>0
<1>2. IsWellFoundedOn(Less, Nat)
  BY NatLessThanWellFounded DEF OpToRel
<1>3. PICK t \in T : \A y \in T : ~(<<y, t>> \in Less)
  <2> HIDE DEF T, Less
  <2> QED BY <1>1, <1>2, WFMin
<1>4. PICK x \in S : t = n - x
  BY <1>3
<1>5. \A y \in S : x >= y
  <2> SUFFICES ASSUME NEW y \in S PROVE x >= y
    OBVIOUS
  <2>1. n - y \in T /\ n - y \in Nat /\ n - x \in Nat BY <1>0
  <2>2. ~(<<n - y, n - x>> \in Less) BY <1>3, <1>4, <2>1
  <2>3. ~(n - y < n - x) BY <2>1, <2>2
  <2> QED BY <1>0, <2>3
<1>6. \E m \in S : \A y \in S : m >= y
  BY <1>5
<1>7. Max(S) = CHOOSE m \in S : \A y \in S : m >= y
  BY DEF Max
<1> QED BY <1>6, <1>7

LEMMA SomeRows ==
  /\ Listed \subseteq Fetched /\ Fetched \subseteq ActiveProviders
  /\ ActiveProviders \subseteq HasRow /\ HasRow \subseteq Providers
  /\ IsFiniteSet(ActiveProviders) /\ IsFiniteSet(Fetched) /\ IsFiniteSet(Listed)
<1>1. /\ Listed \subseteq Fetched /\ Fetched \subseteq ActiveProviders
      /\ ActiveProviders \subseteq HasRow /\ HasRow \subseteq Providers
  BY DEF Listed, Fetched, ActiveProviders, HasRow
<1>2. IsFiniteSet(ActiveProviders)
  BY <1>1, ProvidersAssumption, FS_Subset
<1>3. IsFiniteSet(Fetched)
  BY <1>1, <1>2, FS_Subset
<1>4. IsFiniteSet(Listed)
  BY <1>1, <1>3, FS_Subset
<1> QED BY <1>1, <1>2, <1>3, <1>4

-----------------------------------------------------------------------------
(* Scores and orders.                                                      *)

LEMMA ClampGrows ==
  ASSUME NEW a \in Int, NEW b \in Int, a >= b,
         NEW least \in Int, NEW most \in Int, least <= most
  PROVE  /\ Clamp(a, least, most) \in least..most
         /\ Clamp(a, least, most) >= Clamp(b, least, most)
BY DEF Clamp

\* The parts of a score, named.
Freshness(r) ==
  IF now - r.seen <= TenMinutes THEN Weights.recent10M
  ELSE IF now - r.seen <= Hour THEN Weights.recent1H
  ELSE IF now - r.seen > Day THEN - Weights.old24H ELSE 0
Nearness(r) ==
  IF r.expires - now <= Hour THEN Weights.expires1H
  ELSE IF r.expires - now <= Day THEN Weights.expires24H ELSE 0
Preference(r) == Clamp(r.priority * Weights.multiplier, 0, Weights.priorityMax)

LEMMA ScoreParts ==
  ASSUME NEW r
  PROVE  ComputeHintScore(r) =
           Clamp(50 + Preference(r) + Freshness(r) - Nearness(r), 0, 100)
BY DEF ComputeHintScore, Preference, Freshness, Nearness

LEMMA PartTypes ==
  ASSUME ListInv, NEW p \in HasRow
  PROVE  /\ Freshness(rows[p]) \in Int /\ Nearness(rows[p]) \in Int
         /\ Preference(rows[p]) \in Int
         /\ rows[p].seen \in Int /\ rows[p].expires \in Int /\ rows[p].priority \in Nat
         /\ rows[p].updated \in Nat /\ now \in Int
<1>1. /\ rows[p].seen \in Int /\ rows[p].expires \in Int /\ rows[p].priority \in Nat
      /\ rows[p].updated \in Nat /\ now \in Int
  <2>1. rows[p] \in Row /\ now \in 0..clock /\ clock \in 1..MaxTime
    BY DEF ListInv, RowTimes, RequestTimes
  <2>2. /\ rows[p].priority \in Priorities /\ rows[p].expires \in 1..MaxTime + MaxTTL
        /\ rows[p].seen \in Times /\ rows[p].updated \in Times
    BY <2>1 DEF Row
  <2>3. rows[p].priority \in Nat
    <3>1. \A x \in Priorities : x \in 0..100
      BY LimitsAssumption
    <3>2. rows[p].priority \in 0..100
      BY <2>2, <3>1
    <3> QED BY <3>2
  <2>4. MaxTime \in Nat /\ MaxTTL \in Nat
    BY LimitsAssumption
  <2>5. rows[p].expires \in Int /\ rows[p].seen \in Nat /\ rows[p].updated \in Nat /\ now \in Int
    BY <2>1, <2>2, <2>4 DEF Times
  <2> QED BY <2>3, <2>5
<1>2. \A w \in DOMAIN Weights : Weights[w] \in Nat
  BY WeightsAssumption
<1>3. Freshness(rows[p]) \in Int /\ Nearness(rows[p]) \in Int
  BY <1>1, <1>2, WeightsAssumption DEF Freshness, Nearness
<1>4. rows[p].priority * Weights.multiplier \in Int /\ Weights.priorityMax \in Nat
  BY <1>1, <1>2, WeightsAssumption
<1>5. Preference(rows[p]) \in Int
  BY <1>4 DEF Preference, Clamp
<1> QED BY <1>1, <1>3, <1>5

LEMMA ScoreType ==
  ASSUME ListInv, NEW p \in HasRow
  PROVE  ComputeHintScore(rows[p]) \in Int
BY PartTypes, ScoreParts DEF Clamp

\* What is better in seen, priority and expiry has no smaller score.
LEMMA ScoreGrows ==
  ASSUME ListInv, NEW p \in HasRow, NEW q \in HasRow,
         rows[p].seen >= rows[q].seen, rows[p].priority >= rows[q].priority,
         rows[p].expires >= rows[q].expires
  PROVE  ComputeHintScore(rows[p]) >= ComputeHintScore(rows[q])
<1>1. /\ rows[p].seen \in Int /\ rows[p].expires \in Int /\ rows[p].priority \in Nat
      /\ rows[q].seen \in Int /\ rows[q].expires \in Int /\ rows[q].priority \in Nat
      /\ now \in Int
  BY PartTypes
<1>2. \A w \in DOMAIN Weights : Weights[w] \in Nat
  BY WeightsAssumption
<1>3. /\ Weights.recent10M \in Nat /\ Weights.recent1H \in Nat /\ Weights.old24H \in Nat
      /\ Weights.expires1H \in Nat /\ Weights.expires24H \in Nat
      /\ Weights.multiplier \in Nat /\ Weights.priorityMax \in Nat
  BY <1>2, WeightsAssumption
<1>4. Freshness(rows[p]) >= Freshness(rows[q])
  BY <1>1, <1>3, LimitsAssumption, WeightsAssumption DEF Freshness
<1>5. Nearness(rows[p]) <= Nearness(rows[q])
  BY <1>1, <1>3, LimitsAssumption, WeightsAssumption DEF Nearness
<1>6. Preference(rows[p]) >= Preference(rows[q])
  <2>1. \A a \in Nat, b \in Nat, m \in Nat : a >= b => a * m >= b * m
    OBVIOUS
  <2>2. /\ rows[p].priority * Weights.multiplier >= rows[q].priority * Weights.multiplier
        /\ rows[p].priority * Weights.multiplier \in Int
        /\ rows[q].priority * Weights.multiplier \in Int
    BY <1>1, <1>3, <2>1
  <2> QED BY <1>3, <2>2, ClampGrows DEF Preference
<1> QED
  BY <1>4, <1>5, <1>6, PartTypes, ScoreParts, ClampGrows

LEMMA ListedOrder ==
  ASSUME ListInv
  PROVE  /\ \A p \in HasRow, q \in HasRow : p # q => ListedBefore(p, q) \/ ListedBefore(q, p)
         /\ \A p \in HasRow : ~ListedBefore(p, p)
         /\ \A p \in HasRow, q \in HasRow, r \in HasRow :
              ListedBefore(p, q) /\ ListedBefore(q, r) => ListedBefore(p, r)
<1>1. \A p \in HasRow : p \in Int
  BY ProvidersAssumption DEF HasRow
<1>2. \A p \in HasRow : rows[p].seen \in Int /\ ComputeHintScore(rows[p]) \in Int
  BY PartTypes, ScoreType
<1> QED BY <1>1, <1>2 DEF ListedBefore

LEMMA FetchedOrder ==
  ASSUME ListInv
  PROVE  \A p \in HasRow, q \in HasRow, r \in HasRow :
           FetchedBefore(p, q) /\ FetchedBefore(q, r) => FetchedBefore(p, r)
<1>1. \A p \in HasRow : p \in Int
  BY ProvidersAssumption DEF HasRow
<1>2. \A p \in HasRow : rows[p].seen \in Int /\ rows[p].priority \in Int
  BY PartTypes
<1> QED BY <1>1, <1>2 DEF FetchedBefore
-----------------------------------------------------------------------------
(* What is listed, and its tag.                                            *)

\* As many are listed as the client asked for, at most: their ranks differ.
LEMMA ListedBound ==
  ASSUME ListInv
  PROVE  Cardinality(Listed) <= Limit
<1> DEFINE Before(p) == {q \in Fetched : ListedBefore(q, p)}
           rank == [p \in Listed |-> Cardinality(Before(p))]
<1>1. \A p \in Listed : /\ IsFiniteSet(Before(p)) /\ Cardinality(Before(p)) \in Nat
                        /\ Cardinality(Before(p)) < Limit
  <2> SUFFICES ASSUME NEW p \in Listed
               PROVE  /\ IsFiniteSet(Before(p)) /\ Cardinality(Before(p)) \in Nat
                      /\ Cardinality(Before(p)) < Limit
    OBVIOUS
  <2>1. Before(p) \in SUBSET Fetched OBVIOUS
  <2>2. IsFiniteSet(Before(p)) /\ Cardinality(Before(p)) \in Nat
    BY <2>1, SomeRows, FS_Subset, FS_CardinalityType
  <2> QED BY <2>2 DEF Listed
<1>2. \A p \in Listed, q \in Listed :
        ListedBefore(p, q) => Cardinality(Before(p)) # Cardinality(Before(q))
  <2> SUFFICES ASSUME NEW p \in Listed, NEW q \in Listed, ListedBefore(p, q)
               PROVE  Cardinality(Before(p)) # Cardinality(Before(q))
    OBVIOUS
  <2>1. Before(p) \in SUBSET Before(q) /\ p \in Before(q) /\ p \notin Before(p)
    BY ListedOrder, SomeRows
  <2>2. Before(p) # Before(q) BY <2>1
  <2> HIDE DEF Before
  <2> QED BY <1>1, <2>1, <2>2, FS_Subset
<1>3. \A p \in Listed, q \in Listed : rank[p] = rank[q] => p = q
  <2> SUFFICES ASSUME NEW p \in Listed, NEW q \in Listed, p # q PROVE rank[p] # rank[q]
    OBVIOUS
  <2>1. ListedBefore(p, q) \/ ListedBefore(q, p) BY ListedOrder, SomeRows
  <2>2. rank[p] = Cardinality(Before(p)) /\ rank[q] = Cardinality(Before(q)) OBVIOUS
  <2> HIDE DEF Before, rank
  <2> QED BY <1>2, <2>1, <2>2
<1>4. rank \in [Listed -> 0..(Limit - 1)]
  BY <1>1, LimitsAssumption
<1>5. rank \in Injection(Listed, 0..(Limit - 1))
  <2> HIDE DEF rank
  <2> QED BY <1>3, <1>4 DEF Injection, IsInjective
<1>6. IsFiniteSet(0..(Limit - 1)) /\ Cardinality(0..(Limit - 1)) = Limit
  BY LimitsAssumption, FS_Interval
<1> HIDE DEF rank
<1> QED BY <1>5, <1>6, FS_Injection

LEMMA NewestBounds ==
  ASSUME ListInv
  PROVE  /\ Newest("updated") \in 0..clock
         /\ \A p \in Listed : rows[p].updated <= Newest("updated")
         /\ Listed = {} <=> Newest("updated") = 0
         /\ Newest("expires") \in 0..(MaxTime + MaxTTL)
<1>1. /\ MaxTime \in Nat /\ MaxTTL \in Nat /\ clock \in Nat
      /\ MaxTime + MaxTTL \in Nat
  BY LimitsAssumption DEF ListInv, RequestTimes
<1>2. \A p \in Listed : /\ rows[p].updated \in 1..clock
                        /\ rows[p].expires \in 0..(MaxTime + MaxTTL)
  <2> SUFFICES ASSUME NEW p \in Listed
               PROVE  /\ rows[p].updated \in 1..clock
                      /\ rows[p].expires \in 0..(MaxTime + MaxTTL)
    OBVIOUS
  <2>1. p \in HasRow BY SomeRows
  <2>2. rows[p].expires \in 1..MaxTime + MaxTTL BY <2>1 DEF ListInv, RowTimes, Row
  <2>3. rows[p].updated \in Nat /\ rows[p].seen \in Int BY <2>1, PartTypes
  <2>4. 1 <= rows[p].seen /\ rows[p].seen <= rows[p].updated /\ rows[p].updated <= clock
    BY <2>1 DEF ListInv, RowTimes
  <2> QED BY <1>1, <2>2, <2>3, <2>4
<1> DEFINE U == {0} \cup {rows[p].updated : p \in Listed}
           E == {0} \cup {rows[p].expires : p \in Listed}
<1>3. U \in SUBSET (0..clock) /\ U # {} /\ 0 \in U
  BY <1>1, <1>2
<1>4. E \in SUBSET (0..(MaxTime + MaxTTL)) /\ E # {}
  BY <1>1, <1>2
<1>5. Newest("updated") = Max(U) /\ Newest("expires") = Max(E)
  BY DEF Newest
<1>6. \A p \in Listed : rows[p].updated \in U
  OBVIOUS
<1>7. Listed = {} => U = {0}
  OBVIOUS
<1> HIDE DEF U, E
<1>8. Max(U) \in U /\ \A y \in U : Max(U) >= y
  BY <1>1, <1>3, MaxExists
<1>9. Max(E) \in E
  <2> DEFINE n == MaxTime + MaxTTL
  <2>1. n \in Nat /\ E \in SUBSET (0..n) BY <1>1, <1>4
  <2> HIDE DEF n
  <2> QED BY <1>4, <2>1, MaxExists
<1>10. Newest("updated") \in 0..clock /\ Newest("expires") \in 0..(MaxTime + MaxTTL)
  BY <1>3, <1>4, <1>5, <1>8, <1>9
<1>11. \A p \in Listed : rows[p].updated <= Newest("updated")
  BY <1>2, <1>5, <1>6, <1>8, <1>10
<1>12. Listed = {} <=> Newest("updated") = 0
  <2>1. Listed = {} => Newest("updated") = 0 BY <1>5, <1>7, <1>8
  <2>2. ASSUME NEW p \in Listed PROVE Newest("updated") # 0 BY <1>2, <1>10, <1>11
  <2> QED BY <2>1, <2>2
<1> QED BY <1>10, <1>11, <1>12
-----------------------------------------------------------------------------
(* The invariant.                                                          *)

LEMMA InitList == Init => ListInv
<1> SUFFICES ASSUME Init PROVE ListInv
  OBVIOUS
<1>1. RowTimes BY DEF Init, RowTimes, HasRow
<1>2. RequestTimes BY LimitsAssumption DEF Init, RequestTimes
<1>3. AnswerTimes BY DEF Init, AnswerTimes
<1> QED BY <1>1, <1>2, <1>3 DEF ListInv

LEMMA RecentType ==
  ASSUME ListInv, NEW t \in Recently
  PROVE  t \in 1..clock /\ t \in Times
BY LimitsAssumption DEF Recently, ListInv, RequestTimes, Times

LEMMA UpsertRow ==
  ASSUME ListInv, NEW p \in Providers, UpsertAnnouncement(p)
  PROVE  RowTimes'
<1>1. PICK checked \in Recently, seen \in Recently, updated \in Recently,
           priority \in Priorities, ttl \in Lifetimes :
        /\ checked <= seen /\ seen <= updated
        /\ rows' = [rows EXCEPT ![p] = [priority |-> priority, expires |-> checked + ttl,
                                        seen |-> seen, updated |-> updated]]
  BY DEF UpsertAnnouncement
<1> DEFINE row == [priority |-> priority, expires |-> checked + ttl,
                   seen |-> seen, updated |-> updated]
<1>2. /\ checked \in 1..clock /\ checked \in Times
      /\ seen \in 1..clock /\ updated \in 1..clock /\ seen \in Times /\ updated \in Times
  BY RecentType
<1>3. ttl \in 1..MaxTTL /\ MaxTTL \in Nat /\ MaxTime \in Nat
  BY LimitsAssumption
<1>4. clock \in 1..MaxTime /\ clock' = clock
  BY DEF ListInv, RequestTimes, UpsertAnnouncement
<1>5. checked + ttl \in 1..MaxTime + MaxTTL /\ checked + ttl <= seen + MaxTTL
  BY <1>1, <1>2, <1>3, <1>4
<1>6. /\ row \in Row /\ 1 <= row.seen /\ row.seen <= row.updated /\ row.updated <= clock
      /\ row.expires <= row.seen + MaxTTL
  BY <1>1, <1>2, <1>4, <1>5 DEF Row
<1> HIDE DEF row
<1>7. rows' = [rows EXCEPT ![p] = row] BY <1>1 DEF row
<1>8. DOMAIN rows' = Providers /\ rows' = [q \in Providers |-> rows'[q]]
  BY <1>7 DEF ListInv, RowTimes
<1>9. rows'[p] = row /\ \A q \in Providers \ {p} : rows'[q] = rows[q]
  BY <1>7 DEF ListInv, RowTimes
<1> QED BY <1>4, <1>6, <1>8, <1>9 DEF RowTimes, ListInv, HasRow

LEMMA DeleteRow ==
  ASSUME ListInv, DeleteExpired
  PROVE  RowTimes'
<1>1. PICK t \in Recently :
        rows' = [p \in Providers |->
                   IF p \in HasRow THEN IF rows[p].expires < t THEN None ELSE rows[p]
                   ELSE None]
  BY DEF DeleteExpired
<1>2. \A p \in Providers : rows'[p] # None => p \in HasRow /\ rows'[p] = rows[p]
  BY <1>1
<1>3. DOMAIN rows' = Providers /\ rows' = [p \in Providers |-> rows'[p]]
  BY <1>1
<1>4. clock' = clock BY DEF DeleteExpired
<1> QED BY <1>2, <1>3, <1>4 DEF RowTimes, ListInv, HasRow

LEMMA AnswerType ==
  ASSUME ListInv, ListActiveProviders
  PROVE  AnswerTimes'
<1>1. CASE TagMatches
  BY <1>1 DEF ListActiveProviders, ListInv, AnswerTimes, Answer
<1>2. CASE ~TagMatches
  <2>1. cached' = [listed |-> Listed, tag |-> ComputeETag, queried |-> clock] /\ clock' = clock
    BY <1>2 DEF ListActiveProviders
  <2>2. /\ clock \in Times /\ version \in Times /\ version <= clock
        /\ 0..clock \subseteq Times /\ 0 \in 0..MaxTime + MaxTTL
    BY LimitsAssumption DEF ListInv, RequestTimes, Times
  <2>3. /\ Newest("updated") \in 0..clock /\ Newest("expires") \in 0..MaxTime + MaxTTL
        /\ Listed = {} <=> Newest("updated") = 0
    BY NewestBounds
  <2>4. /\ ComputeETag \in Tag /\ ComputeETag.version = version
        /\ ComputeETag.updated = Newest("updated")
    BY <2>2, <2>3 DEF ComputeETag, Tag
  <2>5. Listed \in SUBSET Providers
    BY SomeRows
  <2>6. cached' \in Answer
    BY <2>1, <2>2, <2>4, <2>5 DEF Answer, Tag
  <2>7. Cardinality(cached'.listed) <= Limit
    BY <2>1, ListedBound
  <2>8. /\ cached'.queried <= clock' /\ cached'.tag.version <= cached'.queried
        /\ cached'.tag.updated <= cached'.queried
        /\ cached'.listed = {} <=> cached'.tag.updated = 0
    <3>1. clock \in Nat /\ Newest("updated") <= clock
      BY <2>3, LimitsAssumption DEF ListInv, RequestTimes
    <3> QED BY <2>1, <2>2, <2>3, <2>4, <3>1
  <2> QED BY <2>6, <2>7, <2>8 DEF AnswerTimes
<1> QED BY <1>1, <1>2

LEMMA NextList == ListInv /\ [Next]_vars => ListInv'
<1> SUFFICES ASSUME ListInv, [Next]_vars PROVE ListInv'
  OBVIOUS
<1> USE DEF ListInv
<1>1. ASSUME NEW p \in Providers, Register(p) PROVE ListInv'
  BY <1>1 DEF Register, RowTimes, RequestTimes, AnswerTimes, HasRow
<1>2. ASSUME NEW p \in Providers, UpsertAnnouncement(p) PROVE ListInv'
  <2>1. RowTimes' BY <1>2, UpsertRow
  <2> QED BY <1>2, <2>1 DEF UpsertAnnouncement, RequestTimes, AnswerTimes
<1>3. CASE DeleteExpired
  <2>1. RowTimes' BY <1>3, DeleteRow
  <2> QED BY <1>3, <2>1 DEF DeleteExpired, RequestTimes, AnswerTimes
<1>4. CASE Publish
  <2>1. published' \in 0..clock BY <1>4, RecentType DEF Publish
  <2> QED BY <1>4, <2>1 DEF Publish, RowTimes, RequestTimes, AnswerTimes, HasRow
<1>5. CASE Tick
  <2>1. RequestTimes'
    BY <1>5, LimitsAssumption DEF Tick, tableVars, RequestTimes
  <2>2. \A p \in HasRow : rows[p].updated <= clock'
    BY <1>5, PartTypes DEF Tick, RowTimes, RequestTimes
  <2>3. RowTimes'
    BY <1>5, <2>2 DEF Tick, tableVars, RowTimes, HasRow
  <2>4. cached # None => cached.queried <= clock'
    BY <1>5, LimitsAssumption DEF Tick, AnswerTimes, Answer, Times, RequestTimes
  <2>5. AnswerTimes'
    BY <1>5, <2>4 DEF Tick, AnswerTimes
  <2> QED BY <2>1, <2>3, <2>5
<1>6. CASE ReadAsset
  BY <1>6 DEF ReadAsset, tableVars, RowTimes, RequestTimes, AnswerTimes, HasRow
<1>7. CASE ReadNow
  BY <1>7 DEF ReadNow, tableVars, RowTimes, RequestTimes, AnswerTimes, HasRow
<1>8. CASE ReadFilterTime
  BY <1>8 DEF ReadFilterTime, tableVars, RowTimes, RequestTimes, AnswerTimes, HasRow
<1>9. CASE ListActiveProviders
  <2>1. AnswerTimes' BY <1>9, AnswerType
  <2> QED BY <1>9, <2>1 DEF ListActiveProviders, tableVars, RowTimes, RequestTimes, HasRow
<1>10. CASE UNCHANGED vars
  BY <1>10 DEF vars, tableVars, RowTimes, RequestTimes, AnswerTimes, HasRow
<1> QED
  BY <1>1, <1>2, <1>3, <1>4, <1>5, <1>6, <1>7, <1>8, <1>9, <1>10 DEF Next, Request

LEMMA ListInvariant == Spec => []ListInv
BY InitList, NextList, PTL DEF Spec

LEMMA Answering ==
  ASSUME [Next]_vars, Answered
  PROVE  ListActiveProviders
BY DEF Answered, Next, Request, Register, UpsertAnnouncement, DeleteExpired, Publish, Tick,
       ReadAsset, ReadNow, ReadFilterTime, vars

\* What a client that is told 304 knows: nothing it would be listed is newer.
LEMMA Unmodified ==
  ASSUME ListInv, [Next]_vars, NotModified
  PROVE  /\ \A p \in Listed : rows[p].updated <= cached.queried
         /\ version <= cached.queried /\ cached.queried \in Int
         /\ Listed = {} <=> cached.listed = {}
<1>1. ListActiveProviders /\ cached' = cached
  BY Answering DEF NotModified
<1>2. CASE TagMatches
  <2>1. cached # None /\ cached.tag = ComputeETag
    BY <1>2 DEF TagMatches
  <2>2. cached.tag.version = version /\ cached.tag.updated = Newest("updated")
    BY <2>1 DEF ComputeETag
  <2>3. /\ cached.queried \in Times
        /\ cached.tag.version <= cached.queried /\ cached.tag.updated <= cached.queried
        /\ cached.listed = {} <=> cached.tag.updated = 0
    BY <2>1 DEF ListInv, AnswerTimes, Answer
  <2>4. cached.queried \in Int
    BY <2>3, LimitsAssumption DEF Times
  <2>5. /\ \A p \in Listed : rows[p].updated <= Newest("updated")
        /\ Newest("updated") \in Int
        /\ Listed = {} <=> Newest("updated") = 0
    BY NewestBounds, LimitsAssumption DEF ListInv, RequestTimes
  <2>6. \A p \in Listed : rows[p].updated \in Int
    BY SomeRows, PartTypes
  <2> QED BY <2>2, <2>3, <2>4, <2>5, <2>6
<1>3. CASE ~TagMatches
  <2>1. cached.listed = Listed /\ cached.queried = clock
    BY <1>1, <1>3 DEF ListActiveProviders
  <2>2. \A p \in Listed : rows[p].updated <= clock
    BY SomeRows DEF ListInv, RowTimes
  <2>3. version <= clock /\ clock \in Int
    BY LimitsAssumption DEF ListInv, RequestTimes
  <2> QED BY <2>1, <2>2, <2>3
<1> QED BY <1>2, <1>3

-----------------------------------------------------------------------------
(* Theorems.                                                               *)

\* Whatever times the tables and a request hold, they are times that were, and
\* no answer lists more providers than were asked for.
THEOREM TypeCorrect == Spec => []TypeOK
<1>1. ListInv => TypeOK
  BY LimitsAssumption
  DEF ListInv, RowTimes, RequestTimes, AnswerTimes, TypeOK, Times
<1> QED BY <1>1, ListInvariant, PTL

\* The cut by one order never hides a provider that is better in everything than
\* one that is listed by the other: for any number of providers, any limits and
\* any configuration of the score with the signs of the default one.
THEOREM DominantListed == Spec => DominantFirst
<1>1. ListInv => [DominantStep]_vars
  <2> SUFFICES ASSUME ListInv, NEW q \in Listed, NEW p \in HasRow,
                      rows[p].expires > at, Dominates(p, q)
               PROVE  p \in Listed /\ ListedBefore(p, q)
    BY DEF DominantStep
  <2>1. p \in ActiveProviders /\ q \in HasRow /\ q \in Fetched
    BY SomeRows DEF ActiveProviders
  <2>2. /\ rows[p].seen > rows[q].seen /\ rows[p].priority >= rows[q].priority
        /\ rows[p].expires >= rows[q].expires /\ (q \in inRegion => p \in inRegion)
    BY DEF Dominates
  <2>3. /\ rows[p].seen \in Int /\ rows[q].seen \in Int
        /\ rows[p].priority \in Int /\ rows[q].priority \in Int
    BY <2>1, PartTypes
  <2>4. FetchedBefore(p, q)
    BY <2>2, <2>3 DEF FetchedBefore
  <2>5. ComputeHintScore(rows[p]) >= ComputeHintScore(rows[q])
    BY <2>1, <2>2, <2>3, ScoreGrows
  <2>6. ListedBefore(p, q)
    BY <2>1, <2>2, <2>3, <2>5, ScoreType DEF ListedBefore
  <2>7. p \in Fetched
    <3> DEFINE Before(x) == {y \in ActiveProviders : FetchedBefore(y, x)}
    <3>1. Before(p) \in SUBSET Before(q) BY <2>1, <2>4, FetchedOrder, SomeRows
    <3>2. Before(q) \in SUBSET ActiveProviders OBVIOUS
    <3>3. Cardinality(Before(q)) < MaxLimit BY <2>1 DEF Fetched
    <3>4. IsFiniteSet(Before(q)) /\ Cardinality(Before(q)) \in Nat
      BY <3>2, SomeRows, FS_Subset, FS_CardinalityType
    <3>5. Cardinality(Before(p)) \in Nat /\ Cardinality(Before(p)) <= Cardinality(Before(q))
      <4> HIDE DEF Before
      <4> QED BY <3>1, <3>4, FS_Subset, FS_CardinalityType
    <3>6. Cardinality(Before(p)) < MaxLimit
      <4> HIDE DEF Before
      <4> QED BY <3>3, <3>4, <3>5, LimitsAssumption
    <3> QED BY <2>1, <3>6 DEF Fetched
  <2>8. p \in Listed
    <3> DEFINE Before(x) == {y \in Fetched : ListedBefore(y, x)}
    <3>1. Before(p) \in SUBSET Before(q) BY <2>1, <2>6, ListedOrder, SomeRows
    <3>2. Before(q) \in SUBSET Fetched OBVIOUS
    <3>3. Cardinality(Before(q)) < Limit BY DEF Listed
    <3>4. IsFiniteSet(Before(q)) /\ Cardinality(Before(q)) \in Nat
      BY <3>2, SomeRows, FS_Subset, FS_CardinalityType
    <3>5. Cardinality(Before(p)) \in Nat /\ Cardinality(Before(p)) <= Cardinality(Before(q))
      <4> HIDE DEF Before
      <4> QED BY <3>1, <3>4, FS_Subset, FS_CardinalityType
    <3>6. Cardinality(Before(p)) < Limit
      <4> HIDE DEF Before
      <4> QED BY <3>3, <3>4, <3>5, LimitsAssumption
    <3> QED BY <2>7, <3>6 DEF Listed
  <2> QED BY <2>6, <2>8
<1> QED BY <1>1, ListInvariant, PTL DEF DominantFirst

\* A tag that matches says that nothing listed was announced, and nothing was
\* published, in a later second than the client's answer was read, although the
\* tag is made of three maxima only.
THEOREM NewsTold == Spec => TagTellsNews
<1>1. ListInv /\ [Next]_vars => [NewsStep]_vars
  <2> SUFFICES ASSUME ListInv, [Next]_vars, NotModified
               PROVE  /\ \A p \in Listed : rows[p].updated <= cached.queried
                      /\ version <= cached.queried
    BY DEF NewsStep
  <2> QED BY Unmodified
<1> QED BY <1>1, ListInvariant, PTL DEF Spec, TagTellsNews

\* Answers of 304, again and again, keep a client at a listing no longer than
\* the longest lifetime, and never at an empty one when there are providers.
THEOREM KeptEnds == Spec => KeptAnswerEnds
<1>1. ListInv /\ [Next]_vars => [KeptStep]_vars
  <2> SUFFICES ASSUME ListInv, [Next]_vars, NotModified
               PROVE  /\ Listed = {} <=> cached.listed = {}
                      /\ Listed # {} => at < cached.queried + MaxTTL
    BY DEF KeptStep
  <2>1. ASSUME NEW p \in Listed PROVE at < cached.queried + MaxTTL
    <3>1. p \in HasRow /\ rows[p].expires > at
      BY SomeRows DEF ActiveProviders
    <3>2. rows[p].expires <= rows[p].seen + MaxTTL /\ rows[p].seen <= rows[p].updated
      BY <3>1 DEF ListInv, RowTimes
    <3>3. rows[p].updated <= cached.queried /\ cached.queried \in Int
      BY Unmodified
    <3>4. /\ rows[p].expires \in Int /\ rows[p].seen \in Int /\ rows[p].updated \in Int
          /\ at \in Int /\ MaxTTL \in Int
      BY <3>1, PartTypes, LimitsAssumption DEF ListInv, RequestTimes
    <3> QED BY <3>1, <3>2, <3>3, <3>4
  <2> QED BY <2>1, Unmodified
<1> QED BY <1>1, ListInvariant, PTL DEF Spec, KeptAnswerEnds
=============================================================================
