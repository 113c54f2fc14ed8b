------------------------------ MODULE Listing -------------------------------
(***************************************************************************)
(* GET /v1/assets/{id}/providers and GET /v1/playback/{id} for one asset   *)
(* and one client, which keeps the last answer and its entity tag: reading *)
(* the rows while providers announce, scoring, ordering and cutting them,  *)
(* and answering 304 when the tag is the one the client has.               *)
(*                                                                         *)
(* Announcements arrive as Announce leaves them: seen is the handler's     *)
(* reading of the clock, updated the repository's own, a little later, and *)
(* the lifetime counts from a reading before both.                         *)
(* Left out: base URLs, and the parts of an answer that are computed from  *)
(* a listed row without any effect on the order or the tag.                *)
(***************************************************************************)
EXTENDS Integers, FiniteSets, FiniteSetsExt

CONSTANTS
  Providers,      \* provider ids, as numbers in their order
  Route,          \* "providers" or "playback": which tag is computed
  Limit,          \* rows the client is answered, already clamped
  MaxLimit,       \* CATALOG_PROVIDERS_QUERY_MAX_LIMIT: rows read at most
  MaxTTL,         \* longest announcement, in ticks
  Lifetimes,      \* lifetimes providers announce
  Priorities,     \* priorities providers announce
  TenMinutes, Hour, Day,  \* in ticks of the clock
  Weights,        \* providerhints.Config
  MaxTime,        \* bound: the clock
  MaxLag,         \* bound: ticks between the first reading and the UPSERT
  MaxChanges,     \* bound: registrations, announcements and publications
  None

ASSUME ProvidersAssumption == Providers \subseteq Nat /\ IsFiniteSet(Providers)
ASSUME LimitsAssumption ==
  /\ Route \in {"providers", "playback"}
  /\ Limit \in Nat \ {0} /\ MaxLimit \in Nat /\ Limit <= MaxLimit
  /\ MaxTTL \in Nat /\ Lifetimes \subseteq 1..MaxTTL /\ Priorities \subseteq 0..100
  /\ TenMinutes \in Nat /\ Hour \in Nat /\ Day \in Nat
  /\ TenMinutes <= Hour /\ Hour <= Day
  /\ MaxTime \in Nat \ {0} /\ MaxLag \in Nat /\ MaxChanges \in Nat
  /\ None \notin Nat

\* Every weight of the configuration is positive; the fresher bonus and the
\* nearer penalty are the larger ones, as in DefaultConfig.
ASSUME WeightsAssumption ==
  /\ DOMAIN Weights = {"recent10M", "recent1H", "old24H", "expires1H", "expires24H",
                       "multiplier", "priorityMax"}
  /\ \A w \in DOMAIN Weights : Weights[w] \in Nat \ {0}
  /\ Weights.recent1H <= Weights.recent10M /\ Weights.expires24H <= Weights.expires1H

VARIABLES
  clock,
  rows,       \* provider_assets of the asset, None without a row
  inRegion,   \* providers whose region is the one the client prefers
  published,  \* assets.updated_at
  changes,
  pc,         \* the statement the request is at
  version,    \* assets.updated_at as the request read it
  now,        \* the handler's time, for the score
  at,         \* the registry's time, for the filter
  cached      \* the client's last answer with a body, None before

tableVars == <<rows, inRegion, published, changes>>
vars == <<clock, tableVars, pc, version, now, at, cached>>

Init ==
  /\ clock = 1
  /\ rows = [p \in Providers |-> None]
  /\ inRegion = {} /\ published = 1 /\ changes = 0
  /\ pc = "idle" /\ version = 0 /\ now = 0 /\ at = 0
  /\ cached = None

-----------------------------------------------------------------------------
(* What happens to the tables.                                             *)

Register(p) ==
  /\ changes < MaxChanges
  /\ changes' = changes + 1
  /\ \/ inRegion' = inRegion \cup {p}
     \/ inRegion' = inRegion \ {p}
  /\ UNCHANGED <<clock, rows, published, pc, version, now, at, cached>>

Recently == {t \in Nat \cap (clock - MaxLag .. clock) : t >= 1}

\* The clock is read to bound the expiry, then for last_seen_at, then for
\* updated_at.
UpsertAnnouncement(p) ==
  /\ changes < MaxChanges
  /\ changes' = changes + 1
  /\ \E checked \in Recently, seen \in Recently, updated \in Recently,
        priority \in Priorities, ttl \in Lifetimes :
       /\ checked <= seen /\ seen <= updated
       /\ rows' = [rows EXCEPT ![p] = [priority |-> priority, expires |-> checked + ttl,
                                       seen |-> seen, updated |-> updated]]
  /\ UNCHANGED <<clock, inRegion, published, pc, version, now, at, cached>>

HasRow == {p \in Providers : rows[p] # None}

\* The cleanup goroutine, see Announce: it reads the clock, then deletes.
DeleteExpired ==
  /\ \E t \in Recently :
       rows' = [p \in Providers |->
                  IF p \in HasRow THEN IF rows[p].expires < t THEN None ELSE rows[p]
                  ELSE None]
  /\ UNCHANGED <<clock, inRegion, published, changes, pc, version, now, at, cached>>

\* A worker publishes the asset again.
Publish ==
  /\ changes < MaxChanges
  /\ changes' = changes + 1
  /\ \E t \in Recently : published' = t
  /\ UNCHANGED <<clock, rows, inRegion, pc, version, now, at, cached>>

Tick ==
  /\ clock < MaxTime
  /\ clock' = clock + 1
  /\ UNCHANGED <<tableVars, pc, version, now, at, cached>>

-----------------------------------------------------------------------------
(* Score and order.                                                        *)

Clamp(n, least, most) == IF n < least THEN least ELSE IF n > most THEN most ELSE n

ComputeHintScore(r) ==
  LET age == now - r.seen
      left == r.expires - now
      freshness == IF age <= TenMinutes THEN Weights.recent10M
                   ELSE IF age <= Hour THEN Weights.recent1H
                   ELSE IF age > Day THEN - Weights.old24H ELSE 0
      nearness == IF left <= Hour THEN Weights.expires1H
                  ELSE IF left <= Day THEN Weights.expires24H ELSE 0
  IN Clamp(50 + Clamp(r.priority * Weights.multiplier, 0, Weights.priorityMax)
             + freshness - nearness, 0, 100)

\* Mutant: the sign of last_seen_at is lost.
FetchedOldestFirst(p, q) ==
  \/ rows[p].priority > rows[q].priority
  \/ /\ rows[p].priority = rows[q].priority
     /\ \/ rows[p].seen < rows[q].seen
        \/ rows[p].seen = rows[q].seen /\ p < q

\* ORDER BY priority DESC, last_seen_at DESC, provider_id ASC
FetchedBefore(p, q) ==
  \/ rows[p].priority > rows[q].priority
  \/ /\ rows[p].priority = rows[q].priority
     /\ \/ rows[p].seen > rows[q].seen
        \/ rows[p].seen = rows[q].seen /\ p < q

\* Mutant: a row listed until it is deleted.
ActiveUntilDeleted == HasRow

ActiveProviders == {p \in HasRow : rows[p].expires > at}

\* The preferred region, the score, the last sign of life, the id.
ListedBefore(p, q) ==
  IF (p \in inRegion) # (q \in inRegion) THEN p \in inRegion
  ELSE \/ ComputeHintScore(rows[p]) > ComputeHintScore(rows[q])
       \/ /\ ComputeHintScore(rows[p]) = ComputeHintScore(rows[q])
          /\ \/ rows[p].seen > rows[q].seen
             \/ rows[p].seen = rows[q].seen /\ p < q

\* LIMIT of the query, and the cut of ListProvidersForAsset: in a total order,
\* those with fewer than so many before them.
Fetched ==
  {p \in ActiveProviders : Cardinality({q \in ActiveProviders : FetchedBefore(q, p)}) < MaxLimit}

\* Mutant: what is fetched is listed whole.
ListedUncut == Fetched

Listed ==
  {p \in Fetched : Cardinality({q \in Fetched : ListedBefore(q, p)}) < Limit}

Newest(field) == Max({0} \cup {rows[p][field] : p \in Listed})

\* Mutant: the tag is made of expiry times only.
TagOfExpiry ==
  [version |-> version, updated |-> 0, expires |-> Newest("expires")]

ComputeETag ==
  [version |-> version, updated |-> Newest("updated"),
   expires |-> IF Route = "providers" THEN Newest("expires") ELSE 0]

\* If-None-Match carries the tag of the client's answer.
TagMatches == cached # None /\ cached.tag = ComputeETag

-----------------------------------------------------------------------------
(* The request.                                                            *)

ReadAsset ==
  /\ pc = "idle"
  /\ pc' = "asset" /\ version' = published
  /\ UNCHANGED <<clock, tableVars, now, at, cached>>

ReadNow ==
  /\ pc = "asset"
  /\ pc' = "now" /\ now' = clock
  /\ UNCHANGED <<clock, tableVars, version, at, cached>>

\* ListAssetProviders looks the asset up once more first; it finds it, as no
\* asset is ever deleted.
ReadFilterTime ==
  /\ pc = "now"
  /\ pc' = "query" /\ at' = clock
  /\ UNCHANGED <<clock, tableVars, version, now, cached>>

\* The query; all that follows it is computed from its rows.  304 leaves the
\* client with the answer it has.
ListActiveProviders ==
  /\ pc = "query"
  /\ pc' = "idle"
  /\ cached' = IF TagMatches THEN cached
               ELSE [listed |-> Listed, tag |-> ComputeETag, queried |-> clock]
  /\ version' = 0 /\ now' = 0 /\ at' = 0
  /\ UNCHANGED <<clock, tableVars>>

Request == ReadAsset \/ ReadNow \/ ReadFilterTime \/ ListActiveProviders

Next ==
  \/ \E p \in Providers : Register(p) \/ UpsertAnnouncement(p)
  \/ DeleteExpired \/ Publish \/ Tick
  \/ Request

Spec == Init /\ [][Next]_vars

-----------------------------------------------------------------------------
(* Properties.                                                             *)

Times == 0..MaxTime
Row == [priority : Priorities, expires : 1..MaxTime + MaxTTL, seen : Times, updated : Times]
Answer == [listed : SUBSET Providers, queried : Times,
           tag : [version : Times, updated : Times, expires : 0..MaxTime + MaxTTL]]

TypeOK ==
  /\ clock \in Times /\ published \in Times
  /\ \A p \in HasRow : rows[p] \in Row
  /\ inRegion \subseteq Providers
  /\ pc \in {"idle", "asset", "now", "query"}
  /\ version \in Times /\ now \in Times /\ at \in Times
  /\ cached # None => cached \in Answer /\ Cardinality(cached.listed) <= Limit

Answered    == pc = "query" /\ pc' = "idle"
NotModified == Answered /\ cached' = cached

\* Only MaxLimit rows are read before region and score order them.  Still a
\* provider is listed only behind those that are better in nothing less: an
\* active provider seen later, with no less priority, no earlier expiry and no
\* worse region is listed too, and before it.
Dominates(p, q) ==
  /\ rows[p].seen > rows[q].seen
  /\ rows[p].priority >= rows[q].priority /\ rows[p].expires >= rows[q].expires
  /\ q \in inRegion => p \in inRegion
DominantStep ==
  Answered =>
    \A q \in Listed : \A p \in HasRow :
      rows[p].expires > at /\ Dominates(p, q) => p \in Listed /\ ListedBefore(p, q)
DominantFirst == [][DominantStep]_vars

\* The tag is only made of maxima, so 304 may keep a client from changes.  It
\* never keeps it from news: an announcement that would be listed, or a
\* publication, stamped in a later second than the client's answer was read.
NewsStep ==
  NotModified =>
    /\ \A p \in Listed : rows[p].updated <= cached.queried
    /\ version <= cached.queried
TagTellsNews == [][NewsStep]_vars

\* A client that is told 304 again and again keeps an answer with providers
\* no longer than MaxTTL, although rows that expire or are deleted need not
\* change the tag, and it never keeps an empty one when there are providers.
KeptStep ==
  NotModified =>
    /\ Listed = {} <=> cached.listed = {}
    /\ Listed # {} => at < cached.queried + MaxTTL
KeptAnswerEnds == [][KeptStep]_vars
=============================================================================
