------------------------------ MODULE Announce ------------------------------
(***************************************************************************)
(* The provider registry of audicatalogd for one asset: providers register *)
(* a public key, announce the asset with signed messages that expire, and  *)
(* a cleanup goroutine deletes expired rows.  Handlers run concurrently;   *)
(* no transaction spans two of their statements.                           *)
(*                                                                         *)
(* Left out: transport, base URL, region and priority of a row (its        *)
(* content is the announcement it stores), and the endpoint columns of     *)
(* providers, which no query of the registry reads back for an asset.      *)
(***************************************************************************)
EXTENDS Integers, FiniteSets

CONSTANTS
  Providers, Keys,
  Announcements,  \* messages clients deliver, each as often as it likes
  Registrations,  \* [provider, key] a client may register
  Handlers,       \* concurrent HTTP handlers
  MaxProviders,   \* CATALOG_MAX_PROVIDERS_PER_ASSET
  MaxTTL,         \* longest announcement, in seconds
  NonceTTL,       \* lifetime of a nonce in the cache, in seconds
  MaxEntries,     \* CATALOG_NONCE_CACHE_MAX_ENTRIES
  MaxTime,        \* bound: the clock
  MaxRestarts,    \* bound: restarts of the server
  None

\* signed is the expiry under the signature; expiresAt and expiresIn are the
\* two request fields, 0 when omitted.
AnnouncementType ==
  [provider : Providers, key : Keys, nonce : Providers \X Nat,
   expiresAt : Int, expiresIn : Int, signed : Int]

ASSUME MessagesAssumption ==
  /\ Announcements \subseteq AnnouncementType
  /\ Registrations \subseteq [provider : Providers, key : Keys]
  /\ Announcements \cap Registrations = {}
ASSUME NoneAssumption ==
  None \notin Keys \cup Announcements \cup Registrations \cup Int
ASSUME SetsAssumption ==
  IsFiniteSet(Providers) /\ IsFiniteSet(Handlers) /\ Handlers # {}
ASSUME LimitsAssumption ==
  /\ MaxProviders \in Nat \ {0} /\ MaxTTL \in Nat \ {0}
  /\ NonceTTL \in Nat \ {0} /\ MaxEntries \in Nat \ {0}
  /\ MaxTime \in Nat /\ MaxRestarts \in Nat

VARIABLES
  clock,
  cataloged,  \* the asset has its row
  key,        \* providers.public_key, None before the INSERT
  expires,    \* provider_assets.expires_at, None without a row
  lastSeen,   \* provider_assets.last_seen_at
  origin,     \* history: the announcement a row was last written from
  seen,       \* the live nonces of the cache: <<nonce, expiry>>
  pc, req,    \* the request in each handler and how far it got
  until,      \* the expiry validateAnnounceInput returned
  stamp,      \* now of Announce
  sweep,      \* now of a cleanup that has not run its DELETE yet
  restarts

tableVars   == <<key, expires, lastSeen, origin>>
handlerVars == <<pc, req, until, stamp>>
vars == <<clock, cataloged, tableVars, seen, handlerVars, sweep, restarts>>

Init ==
  /\ clock = 0
  /\ cataloged = FALSE
  /\ key = [p \in Providers |-> None]
  /\ expires = [p \in Providers |-> None]
  /\ lastSeen = [p \in Providers |-> None]
  /\ origin = [p \in Providers |-> None]
  /\ seen = {}
  /\ pc = [h \in Handlers |-> "idle"]
  /\ req = [h \in Handlers |-> None]
  /\ until = [h \in Handlers |-> 0]
  /\ stamp = [h \in Handlers |-> 0]
  /\ sweep = None
  /\ restarts = 0

HasRow(p) == expires[p] # None

\* The WHERE clause of the list and count queries.
ActiveAt(t) == {p \in Providers : HasRow(p) /\ expires[p] > t}

Advance(h, l) == pc' = [pc EXCEPT ![h] = l] /\ UNCHANGED <<req, until, stamp>>

\* The handler answers.
Leave(h) ==
  /\ pc' = [pc EXCEPT ![h] = "idle"]
  /\ req' = [req EXCEPT ![h] = None]
  /\ until' = [until EXCEPT ![h] = 0]
  /\ stamp' = [stamp EXCEPT ![h] = 0]

-----------------------------------------------------------------------------
(* POST /v1/providers                                                      *)

\* GetProvider finds no row, or one with the same key (else 409).
BeginRegister(h) ==
  /\ pc[h] = "idle"
  /\ \E r \in Registrations :
       /\ key[r.provider] \in {None, r.key}
       /\ req' = [req EXCEPT ![h] = r]
  /\ pc' = [pc EXCEPT ![h] = "registering"]
  /\ UNCHANGED <<clock, cataloged, tableVars, seen, until, stamp, sweep, restarts>>

\* Mutant: ON CONFLICT overwrites the public key.
UpsertProviderRebinding(h) ==
  /\ pc[h] = "registering"
  /\ key' = [key EXCEPT ![req[h].provider] = req[h].key]
  /\ Leave(h)
  /\ UNCHANGED <<clock, cataloged, expires, lastSeen, origin, seen, sweep, restarts>>

\* INSERT ... ON CONFLICT keeps the public key a racing registration stored.
UpsertProvider(h) ==
  /\ pc[h] = "registering"
  /\ key' = [key EXCEPT ![req[h].provider] = IF @ = None THEN req[h].key ELSE @]
  /\ Leave(h)
  /\ UNCHANGED <<clock, cataloged, expires, lastSeen, origin, seen, sweep, restarts>>

-----------------------------------------------------------------------------
(* POST /v1/providers/{providerId}/announce                                *)

\* The nonce cache, which NonceCache has in detail.
Guard == INSTANCE NonceGuard
           WITH Nonces <- Providers \X Nat, time <- clock, live <- seen

\* AddIfNotExists comes before every check of the service: the nonce stays
\* used whatever becomes of the request.  A live nonce answers 409.
NoteNonce(h) ==
  /\ pc[h] = "idle"
  /\ \E r \in Announcements :
       /\ Guard!Accept(r.nonce)
       /\ req' = [req EXCEPT ![h] = r]
  /\ pc' = [pc EXCEPT ![h] = "noted"]
  /\ UNCHANGED <<cataloged, tableVars, until, stamp, sweep, restarts>>

\* Mutant: the longest lifetime is not enforced.
ValidateAnyTTL(h) ==
  /\ pc[h] = "noted"
  /\ LET r == req[h]
         e == IF r.expiresAt = 0 /\ r.expiresIn > 0
                THEN clock + r.expiresIn ELSE r.expiresAt
     IN  /\ e > clock
         /\ until' = [until EXCEPT ![h] = e]
  /\ pc' = [pc EXCEPT ![h] = "valid"]
  /\ UNCHANGED <<clock, cataloged, tableVars, seen, req, stamp, sweep, restarts>>

ValidateAnnounceInput(h) ==
  /\ pc[h] = "noted"
  /\ LET r == req[h]
         e == IF r.expiresAt = 0 /\ r.expiresIn > 0
                THEN clock + r.expiresIn ELSE r.expiresAt
     IN  /\ clock < e /\ e <= clock + MaxTTL
         /\ until' = [until EXCEPT ![h] = e]
  /\ pc' = [pc EXCEPT ![h] = "valid"]
  /\ UNCHANGED <<clock, cataloged, tableVars, seen, req, stamp, sweep, restarts>>

\* GetProvider and GetAsset; neither row is ever deleted, and the stored key
\* never changes, so the signature check of the end is made here.  Then the
\* clock is read once for the rest of the handler.
LookUp(h) ==
  /\ pc[h] = "valid"
  /\ req[h].key = key[req[h].provider] /\ req[h].signed = until[h]
  /\ cataloged
  /\ stamp' = [stamp EXCEPT ![h] = clock]
  /\ pc' = [pc EXCEPT ![h] = "stamped"]
  /\ UNCHANGED <<clock, cataloged, tableVars, seen, req, until, sweep, restarts>>

\* Mutant: an expired row counts as a place already taken.
ReadAnnouncementExpiredToo(h) ==
  /\ pc[h] = "stamped"
  /\ Advance(h, IF HasRow(req[h].provider) THEN "cleared" ELSE "counting")
  /\ UNCHANGED <<clock, cataloged, tableVars, seen, sweep, restarts>>

\* Only a row that is active at the stamp is renewed without counting.
ReadAnnouncement(h) ==
  /\ pc[h] = "stamped"
  /\ Advance(h, IF req[h].provider \in ActiveAt(stamp[h])
                  THEN "cleared" ELSE "counting")
  /\ UNCHANGED <<clock, cataloged, tableVars, seen, sweep, restarts>>

CountActive(h) ==
  /\ pc[h] = "counting"
  /\ Cardinality(ActiveAt(stamp[h])) < MaxProviders
  /\ Advance(h, "cleared")
  /\ UNCHANGED <<clock, cataloged, tableVars, seen, sweep, restarts>>

\* The UPSERT compares nothing: a slower handler overwrites a newer row.
UpsertAnnouncement(h) ==
  /\ pc[h] = "cleared"
  /\ LET p == req[h].provider IN
       /\ expires' = [expires EXCEPT ![p] = until[h]]
       /\ lastSeen' = [lastSeen EXCEPT ![p] = stamp[h]]
       /\ origin' = [origin EXCEPT ![p] = req[h]]
  /\ Leave(h)
  /\ UNCHANGED <<clock, cataloged, key, seen, sweep, restarts>>

\* A check refuses the request, a statement fails, or the client is gone.
Refuse(h) ==
  /\ pc[h] # "idle"
  /\ Leave(h)
  /\ UNCHANGED <<clock, cataloged, tableVars, seen, sweep, restarts>>

-----------------------------------------------------------------------------
(* The cleanup goroutine reads the clock, then runs one DELETE.            *)

BeginCleanup ==
  /\ sweep = None
  /\ sweep' = clock
  /\ UNCHANGED <<clock, cataloged, tableVars, seen, handlerVars, restarts>>

\* Mutant: rows about to expire go with the expired ones.
DeleteSoonExpired ==
  /\ sweep # None
  /\ LET gone == {p \in Providers : HasRow(p) /\ expires[p] <= sweep + 1}
     IN  /\ expires' = [p \in Providers |-> IF p \in gone THEN None ELSE expires[p]]
         /\ lastSeen' = [p \in Providers |-> IF p \in gone THEN None ELSE lastSeen[p]]
         /\ origin' = [p \in Providers |-> IF p \in gone THEN None ELSE origin[p]]
  /\ sweep' = None
  /\ UNCHANGED <<clock, cataloged, key, seen, handlerVars, restarts>>

DeleteExpired ==
  /\ sweep # None
  /\ LET gone == {p \in Providers : HasRow(p) /\ expires[p] < sweep}
     IN  /\ expires' = [p \in Providers |-> IF p \in gone THEN None ELSE expires[p]]
         /\ lastSeen' = [p \in Providers |-> IF p \in gone THEN None ELSE lastSeen[p]]
         /\ origin' = [p \in Providers |-> IF p \in gone THEN None ELSE origin[p]]
  /\ sweep' = None
  /\ UNCHANGED <<clock, cataloged, key, seen, handlerVars, restarts>>

-----------------------------------------------------------------------------
\* Another part of the catalog creates the asset's row.
CatalogAsset ==
  /\ ~cataloged
  /\ cataloged' = TRUE
  /\ UNCHANGED <<clock, tableVars, seen, handlerVars, sweep, restarts>>

\* To AddIfNotExists an expired nonce is the same as none.
Tick ==
  /\ clock < MaxTime
  /\ Guard!Pass
  /\ UNCHANGED <<cataloged, tableVars, handlerVars, sweep, restarts>>

\* The server restarts: handlers, cleanup and the nonce cache are gone.
Restart ==
  /\ restarts < MaxRestarts
  /\ restarts' = restarts + 1
  /\ Guard!Restart
  /\ sweep' = None
  /\ pc' = [h \in Handlers |-> "idle"]
  /\ req' = [h \in Handlers |-> None]
  /\ until' = [h \in Handlers |-> 0]
  /\ stamp' = [h \in Handlers |-> 0]
  /\ UNCHANGED <<cataloged, tableVars>>

Handle(h) ==
  \/ BeginRegister(h) \/ UpsertProvider(h)
  \/ NoteNonce(h) \/ ValidateAnnounceInput(h) \/ LookUp(h)
  \/ ReadAnnouncement(h) \/ CountActive(h) \/ UpsertAnnouncement(h)
  \/ Refuse(h)

Next ==
  \/ \E h \in Handlers : Handle(h)
  \/ BeginCleanup \/ DeleteExpired \/ CatalogAsset \/ Tick \/ Restart

Spec == Init /\ [][Next]_vars

-----------------------------------------------------------------------------
(* Properties.                                                             *)

Listed == ActiveAt(clock)

Announcing == {"noted", "valid", "stamped", "counting", "cleared"}

TypeOK ==
  /\ clock \in Nat /\ cataloged \in BOOLEAN /\ restarts \in 0..MaxRestarts
  /\ key \in [Providers -> Keys \cup {None}]
  /\ expires \in [Providers -> Int \cup {None}]
  /\ lastSeen \in [Providers -> Int \cup {None}]
  /\ origin \in [Providers -> Announcements \cup {None}]
  /\ seen \in SUBSET ((Providers \X Nat) \X Nat)
  /\ pc \in [Handlers -> Announcing \cup {"idle", "registering"}]
  /\ req \in [Handlers -> Announcements \cup Registrations \cup {None}]
  /\ until \in [Handlers -> Int] /\ stamp \in [Handlers -> Nat]
  /\ sweep \in Nat \cup {None}

\* The count and the UPSERT of Announce are separate statements, so the limit
\* can be overrun, but only by the handlers that are at it at once: listings
\* never exceed MaxProviders by as much as the number of handlers.
CapacityBound == Cardinality(Listed) <= MaxProviders + Cardinality(Handlers) - 1

\* A stored announcement belongs to a cataloged asset, was signed with the key
\* its provider has now, for the expiry that is stored, and lives at most
\* MaxTTL after it was last seen, whatever registrations and announcements
\* race with it.
RowAuthentic ==
  \A p \in Providers : HasRow(p) =>
    /\ cataloged
    /\ origin[p].provider = p
    /\ origin[p].key = key[p] /\ origin[p].signed = expires[p]
    /\ lastSeen[p] <= clock /\ expires[p] <= lastSeen[p] + MaxTTL

\* A provider's public key never changes once stored, even when two clients
\* register the same provider_id with different keys at the same time.
KeyStep == \A p \in Providers : key[p] # None => key'[p] = key[p]
KeyPinned == [][KeyStep]_vars

\* A listed announcement disappears only by expiring: neither the cleanup,
\* with its older reading of the clock, nor a restart removes it.
ListedStep ==
  \A p \in Providers : (HasRow(p) /\ expires[p] > clock) => HasRow(p)'
CleanupSparesListed == [][ListedStep]_vars
=============================================================================
