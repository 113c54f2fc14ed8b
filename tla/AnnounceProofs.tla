--------------------------- MODULE AnnounceProofs ---------------------------
(* Proofs about Announce for every value of its constants.                  *)
EXTENDS Announce, FiniteSetTheorems, TLAPS

\* A handler holds an announcement or a registration, by where it stands.
RequestShape ==
  \A h \in Handlers :
    /\ pc[h] \in Announcing => req[h] \in Announcements
    /\ pc[h] = "registering" => req[h] \in Registrations

Shaped == TypeOK /\ RequestShape

LEMMA RequestTypes ==
  /\ \A r \in Announcements : /\ r.provider \in Providers /\ r.key \in Keys
                              /\ r.nonce \in Providers \X Nat
                              /\ r.expiresAt \in Int /\ r.expiresIn \in Int
  /\ \A r \in Registrations : r.provider \in Providers /\ r.key \in Keys
BY MessagesAssumption DEF AnnouncementType

LEMMA HandlerStep ==
  ASSUME Shaped, NEW h \in Handlers, Handle(h)
  PROVE  Shaped'
<1> USE RequestTypes, NoneAssumption, LimitsAssumption
    DEF Shaped, TypeOK, RequestShape, Announcing, tableVars
<1>1. CASE BeginRegister(h)
  BY <1>1 DEF BeginRegister
<1>2. CASE UpsertProvider(h)
  BY <1>2 DEF UpsertProvider, Leave
<1>3. CASE NoteNonce(h)
  BY <1>3 DEF NoteNonce, Guard!Accept
<1>4. CASE ValidateAnnounceInput(h)
  BY <1>4 DEF ValidateAnnounceInput
<1>5. CASE LookUp(h)
  BY <1>5 DEF LookUp
<1>6. CASE ReadAnnouncement(h) \/ CountActive(h)
  BY <1>6 DEF ReadAnnouncement, CountActive, Advance
<1>7. CASE UpsertAnnouncement(h)
  BY <1>7 DEF UpsertAnnouncement, Leave
<1>8. CASE Refuse(h)
  BY <1>8 DEF Refuse, Leave
<1>9. QED
  BY <1>1, <1>2, <1>3, <1>4, <1>5, <1>6, <1>7, <1>8 DEF Handle

LEMMA ShapedStep == Shaped /\ [Next]_vars => Shaped'
<1> SUFFICES ASSUME Shaped, [Next]_vars PROVE Shaped'
  OBVIOUS
<1> USE LimitsAssumption DEF Shaped, TypeOK, RequestShape, Announcing,
                             tableVars, handlerVars
<1>1. ASSUME NEW h \in Handlers, Handle(h) PROVE Shaped'
  BY <1>1, HandlerStep
<1>2. CASE BeginCleanup
  BY <1>2 DEF BeginCleanup
<1>3. CASE DeleteExpired
  BY <1>3 DEF DeleteExpired
<1>4. CASE CatalogAsset
  BY <1>4 DEF CatalogAsset
<1>5. CASE Tick
  BY <1>5 DEF Tick, Guard!Pass
<1>6. CASE Restart
  BY <1>6 DEF Restart, Guard!Restart
<1>7. CASE UNCHANGED vars
  BY <1>7 DEF vars
<1>8. QED
  BY <1>1, <1>2, <1>3, <1>4, <1>5, <1>6, <1>7 DEF Next

LEMMA ShapedInvariant == Spec => []Shaped
<1>1. Init => Shaped
  <2> SUFFICES ASSUME Init PROVE Shaped
    OBVIOUS
  <2> USE LimitsAssumption DEF Init
  <2>1. /\ pc \in [Handlers -> Announcing \cup {"idle", "registering"}]
        /\ RequestShape
    BY DEF RequestShape, Announcing
  <2>2. clock \in Nat /\ restarts \in 0..MaxRestarts
    OBVIOUS
  <2>3. cataloged \in BOOLEAN
    OBVIOUS
  <2>4. seen \in SUBSET ((Providers \X Nat) \X Nat) /\ sweep \in Nat \cup {None}
    OBVIOUS
  <2>5. /\ key \in [Providers -> Keys \cup {None}]
        /\ expires \in [Providers -> Int \cup {None}]
        /\ lastSeen \in [Providers -> Int \cup {None}]
        /\ origin \in [Providers -> Announcements \cup {None}]
    OBVIOUS
  <2>6. /\ req \in [Handlers -> Announcements \cup Registrations \cup {None}]
        /\ until \in [Handlers -> Int] /\ stamp \in [Handlers -> Nat]
    OBVIOUS
  <2>7. QED
    BY <2>1, <2>2, <2>3, <2>4, <2>5, <2>6 DEF Shaped, TypeOK
<1>2. QED
  BY <1>1, ShapedStep, PTL DEF Spec

\* The type invariant: clock, tables, cache and handlers keep the values of
\* their types through every request, cleanup and restart.
THEOREM TypeCorrect == Spec => []TypeOK
<1>1. Shaped => TypeOK
  BY DEF Shaped
<1>2. QED
  BY <1>1, ShapedInvariant, PTL

-----------------------------------------------------------------------------
(* Keys.                                                                    *)

LEMMA KeyKept == Shaped /\ [Next]_vars => KeyStep
<1> SUFFICES ASSUME Shaped, [Next]_vars PROVE KeyStep
  OBVIOUS
<1>1. ASSUME NEW h \in Handlers, UpsertProvider(h) PROVE KeyStep
  BY <1>1 DEF UpsertProvider, KeyStep, Shaped, TypeOK
<1>2. CASE UNCHANGED key
  BY <1>2 DEF KeyStep
<1>3. QED
  BY <1>1, <1>2
  DEF Next, Handle, BeginRegister, NoteNonce, ValidateAnnounceInput, LookUp,
      ReadAnnouncement, CountActive, UpsertAnnouncement, Refuse, BeginCleanup,
      DeleteExpired, CatalogAsset, Tick, Restart, tableVars, vars

\* First registration wins for good: ON CONFLICT leaves the stored public key
\* alone, so no interleaving of registrations changes it.
THEOREM KeysPinned == Spec => KeyPinned
<1>1. Shaped /\ [Next]_vars => [KeyStep]_vars
  BY KeyKept
<1>2. QED
  BY <1>1, ShapedInvariant, PTL DEF Spec, KeyPinned

-----------------------------------------------------------------------------
(* Stored rows.                                                             *)

\* What a handler has established when it reaches a statement: a validated
\* expiry is near, and from LookUp on it fits the stamp, the signature and
\* the provider's key, which nothing changes any more.
Vetted ==
  \A h \in Handlers :
    /\ pc[h] = "valid" => until[h] <= clock + MaxTTL
    /\ pc[h] \in {"stamped", "counting", "cleared"} =>
         /\ cataloged
         /\ stamp[h] <= clock /\ until[h] <= stamp[h] + MaxTTL
         /\ req[h].key = key[req[h].provider] /\ req[h].signed = until[h]

\* The columns of a row are written together.
RowsWhole ==
  \A p \in Providers :
    HasRow(p) => origin[p] \in Announcements /\ lastSeen[p] \in Int

\* RowAuthentic on its own is not inductive: a row is written with what its
\* handler learned several statements earlier.
RowInv == Vetted /\ RowsWhole /\ RowAuthentic

LEMMA HandlerKeepsRows ==
  ASSUME Shaped, RowInv, NEW h \in Handlers, Handle(h)
  PROVE  RowInv'
<1> USE RequestTypes, NoneAssumption, LimitsAssumption
    DEF Shaped, TypeOK, RequestShape, Announcing, tableVars, RowInv, Vetted,
        RowsWhole, RowAuthentic, HasRow
<1>1. CASE BeginRegister(h)
  BY <1>1 DEF BeginRegister
<1>2. CASE UpsertProvider(h)
  <2>1. \A p \in Providers : key[p] # None => key'[p] = key[p]
    BY <1>2 DEF UpsertProvider
  <2>2. Vetted'
    BY <1>2, <2>1 DEF UpsertProvider, Leave
  <2>3. RowsWhole'
    BY <1>2 DEF UpsertProvider
  <2>4. RowAuthentic'
    BY <1>2, <2>1 DEF UpsertProvider
  <2>5. QED
    BY <2>2, <2>3, <2>4
<1>3. CASE NoteNonce(h)
  BY <1>3 DEF NoteNonce, Guard!Accept
<1>4. CASE ValidateAnnounceInput(h)
  BY <1>4 DEF ValidateAnnounceInput
<1>5. CASE LookUp(h)
  BY <1>5 DEF LookUp
<1>6. CASE ReadAnnouncement(h) \/ CountActive(h)
  BY <1>6 DEF ReadAnnouncement, CountActive, Advance
<1>7. CASE UpsertAnnouncement(h)
  <2>1. Vetted'
    BY <1>7 DEF UpsertAnnouncement, Leave
  <2>2. RowsWhole'
    BY <1>7 DEF UpsertAnnouncement
  <2>3. RowAuthentic'
    BY <1>7 DEF UpsertAnnouncement
  <2>4. QED
    BY <2>1, <2>2, <2>3
<1>8. CASE Refuse(h)
  BY <1>8 DEF Refuse, Leave
<1>9. QED
  BY <1>1, <1>2, <1>3, <1>4, <1>5, <1>6, <1>7, <1>8 DEF Handle

LEMMA RowStep == Shaped /\ RowInv /\ [Next]_vars => RowInv'
<1> SUFFICES ASSUME Shaped, RowInv, [Next]_vars PROVE RowInv'
  OBVIOUS
<1> USE LimitsAssumption, NoneAssumption
    DEF Shaped, TypeOK, RowInv, Vetted, RowsWhole, RowAuthentic, HasRow, tableVars, handlerVars
<1>1. ASSUME NEW h \in Handlers, Handle(h) PROVE RowInv'
  BY <1>1, HandlerKeepsRows
<1>2. CASE BeginCleanup
  BY <1>2 DEF BeginCleanup
<1>3. CASE DeleteExpired
  <2>1. Vetted'
    BY <1>3 DEF DeleteExpired
  <2>2. RowsWhole'
    BY <1>3 DEF DeleteExpired
  <2>3. RowAuthentic'
    BY <1>3 DEF DeleteExpired
  <2>4. QED
    BY <2>1, <2>2, <2>3
<1>4. CASE CatalogAsset
  BY <1>4 DEF CatalogAsset
<1>5. CASE Tick
  <2>1. Vetted'
    BY <1>5 DEF Tick, Guard!Pass
  <2>2. RowsWhole' /\ RowAuthentic'
    BY <1>5 DEF Tick, Guard!Pass
  <2>3. QED
    BY <2>1, <2>2
<1>6. CASE Restart
  BY <1>6 DEF Restart, Guard!Restart
<1>7. CASE UNCHANGED vars
  BY <1>7 DEF vars
<1>8. QED
  BY <1>1, <1>2, <1>3, <1>4, <1>5, <1>6, <1>7 DEF Next

LEMMA RowInvariant == Spec => []RowInv
<1>1. Init => RowInv
  BY DEF Init, RowInv, Vetted, RowsWhole, RowAuthentic, HasRow
<1>2. QED
  BY <1>1, RowStep, ShapedInvariant, PTL DEF Spec

\* Every listed row is what its provider signed with the key on record, for
\* any messages, registrations and number of handlers.
THEOREM RowsAuthentic == Spec => []RowAuthentic
<1>1. RowInv => RowAuthentic
  BY DEF RowInv
<1>2. QED
  BY <1>1, RowInvariant, PTL

-----------------------------------------------------------------------------
(* The limit of providers per asset.                                        *)

\* A handler holds a place from the statement on that clears it; one whose
\* row was active at its stamp need not count, so it holds it since then.
Reserving(h) ==
  \/ pc[h] = "cleared"
  \/ pc[h] = "stamped" /\ req[h].provider \in ActiveAt(stamp[h])

Occupied ==
  {p \in Providers : \/ p \in Listed
                     \/ \E h \in Handlers : Reserving(h) /\ req[h].provider = p}

\* CapacityBound with the places held counted in: listed rows alone could be
\* few because they have expired while handlers are about to renew them.
CapacityInv == Cardinality(Occupied) <= MaxProviders + Cardinality(Handlers) - 1

LEMMA Finite ==
  /\ IsFiniteSet(Occupied) /\ Cardinality(Occupied) \in Nat
  /\ \A S \in SUBSET Occupied : Cardinality(S) <= Cardinality(Occupied)
  /\ Cardinality(Handlers) \in Nat \ {0}
<1>1. IsFiniteSet(Occupied) /\ Cardinality(Occupied) \in Nat
  BY SetsAssumption, FS_Subset, FS_CardinalityType DEF Occupied
<1>2. ASSUME NEW S \in SUBSET Occupied PROVE Cardinality(S) <= Cardinality(Occupied)
  BY <1>1, FS_Subset
<1>3. Cardinality(Handlers) \in Nat \ {0}
  BY SetsAssumption, FS_CardinalityType, FS_EmptySet
<1>4. QED
  BY <1>1, <1>2, <1>3

\* Only the count gives places away: no other step occupies one.
LEMMA HandlerOccupiesNothing ==
  ASSUME Shaped, Vetted, NEW h \in Handlers, Handle(h), ~ CountActive(h)
  PROVE  Occupied' \subseteq Occupied
<1> USE RequestTypes, NoneAssumption
    DEF Shaped, TypeOK, RequestShape, Announcing, tableVars, Occupied,
        Listed, Reserving, ActiveAt, HasRow
<1>1. CASE BeginRegister(h)
  BY <1>1 DEF BeginRegister
<1>2. CASE UpsertProvider(h)
  BY <1>2 DEF UpsertProvider, Leave
<1>3. CASE NoteNonce(h)
  BY <1>3 DEF NoteNonce, Guard!Accept
<1>4. CASE ValidateAnnounceInput(h)
  BY <1>4 DEF ValidateAnnounceInput
<1>5. CASE LookUp(h)
  BY <1>5 DEF LookUp
<1>6. CASE ReadAnnouncement(h)
  BY <1>6 DEF ReadAnnouncement, Advance
<1>7. CASE UpsertAnnouncement(h)
  BY <1>7 DEF UpsertAnnouncement, Leave
<1>8. CASE Refuse(h)
  BY <1>8 DEF Refuse, Leave
<1>9. QED
  BY <1>1, <1>2, <1>3, <1>4, <1>5, <1>6, <1>7, <1>8 DEF Handle

\* The count saw fewer rows than the limit, and had an older clock than the
\* listing: whatever all the handlers hold is added to fewer than that.
LEMMA CountKeepsCapacity ==
  ASSUME Shaped, Vetted, NEW h \in Handlers, CountActive(h)
  PROVE  CapacityInv'
<1> DEFINE Holders == {g \in Handlers : pc'[g] \in {"cleared", "stamped"}}
           Held    == {req[g].provider : g \in Holders}
           place   == [g \in Holders |-> req[g].provider]
<1>1. /\ IsFiniteSet(Holders)
      /\ Cardinality(Holders) <= Cardinality(Handlers)
  BY SetsAssumption, FS_Subset
<1>2. place \in Surjection(Holders, Held)
  BY DEF Surjection
<1>3. IsFiniteSet(Held) /\ Cardinality(Held) <= Cardinality(Holders)
  BY <1>1, <1>2, FS_Surjection
<1>4. Listed \subseteq ActiveAt(stamp[h])
  BY DEF CountActive, Vetted, Listed, ActiveAt, HasRow, Shaped, TypeOK
<1>5. IsFiniteSet(ActiveAt(stamp[h]))
  BY SetsAssumption, FS_Subset DEF ActiveAt
<1>6. IsFiniteSet(Listed) /\ Cardinality(Listed) <= Cardinality(ActiveAt(stamp[h]))
  BY <1>4, <1>5, FS_Subset
<1>7. Cardinality(ActiveAt(stamp[h])) < MaxProviders
  BY DEF CountActive
<1>8. /\ IsFiniteSet(Listed \cup Held)
      /\ Cardinality(Listed \cup Held) <= Cardinality(Listed) + Cardinality(Held)
  <2>1. IsFiniteSet(Listed \cap Held)
    BY <1>6, FS_Intersection
  <2>2. Cardinality(Listed \cap Held) \in Nat /\ Cardinality(Listed) \in Nat
        /\ Cardinality(Held) \in Nat
    BY <1>3, <1>6, <2>1, FS_CardinalityType
  <2>3. /\ IsFiniteSet(Listed \cup Held)
        /\ Cardinality(Listed \cup Held)
             = Cardinality(Listed) + Cardinality(Held) - Cardinality(Listed \cap Held)
    BY <1>3, <1>6, FS_Union, Zenon
  <2>4. QED
    BY <2>2, <2>3
<1>9. Occupied' \subseteq Listed \cup Held
  BY DEF CountActive, Advance, tableVars, Occupied, Reserving, Listed,
         ActiveAt, HasRow, Shaped, TypeOK
<1>10. Cardinality(Occupied') <= Cardinality(Listed \cup Held)
  BY <1>8, <1>9, FS_Subset
<1>11. /\ Cardinality(Occupied') \in Nat /\ Cardinality(Listed \cup Held) \in Nat
       /\ Cardinality(Listed) \in Nat /\ Cardinality(Held) \in Nat
       /\ Cardinality(Holders) \in Nat /\ Cardinality(Handlers) \in Nat
       /\ Cardinality(ActiveAt(stamp[h])) \in Nat
  BY <1>1, <1>3, <1>5, <1>6, <1>8, <1>9, SetsAssumption, FS_Subset, FS_CardinalityType
<1>12. QED
  BY <1>1, <1>3, <1>6, <1>7, <1>8, <1>10, <1>11, LimitsAssumption DEF CapacityInv

LEMMA CapacityStep == Shaped /\ Vetted /\ CapacityInv /\ [Next]_vars => CapacityInv'
<1> SUFFICES ASSUME Shaped, Vetted, CapacityInv, [Next]_vars PROVE CapacityInv'
  OBVIOUS
<1>1. ASSUME Occupied' \subseteq Occupied PROVE CapacityInv'
  <2>1. Cardinality(Occupied') <= Cardinality(Occupied)
    BY <1>1, Finite
  <2>2. Cardinality(Occupied') \in Nat
    BY <1>1, Finite, FS_Subset, FS_CardinalityType
  <2>3. QED
    BY <2>1, <2>2, Finite, LimitsAssumption DEF CapacityInv
<1>2. ASSUME NEW h \in Handlers, Handle(h) PROVE CapacityInv'
  BY <1>1, <1>2, HandlerOccupiesNothing, CountKeepsCapacity
<1> USE DEF Shaped, TypeOK, Occupied, Listed, Reserving, ActiveAt, HasRow,
            tableVars, handlerVars
<1>3. CASE BeginCleanup \/ CatalogAsset
  BY <1>1, <1>3 DEF BeginCleanup, CatalogAsset
<1>4. CASE DeleteExpired
  BY <1>1, <1>4, NoneAssumption DEF DeleteExpired
<1>5. CASE Tick
  BY <1>1, <1>5, NoneAssumption DEF Tick, Guard!Pass
<1>6. CASE Restart
  BY <1>1, <1>6 DEF Restart, Guard!Restart
<1>7. CASE UNCHANGED vars
  BY <1>1, <1>7 DEF vars
<1>8. QED
  BY <1>2, <1>3, <1>4, <1>5, <1>6, <1>7 DEF Next

LEMMA CapacityInvariant == Spec => []CapacityInv
<1>1. Init => CapacityInv
  <2> SUFFICES ASSUME Init PROVE CapacityInv
    OBVIOUS
  <2>1. Occupied = {}
    BY DEF Init, Occupied, Listed, ActiveAt, HasRow, Reserving
  <2>2. QED
    BY <2>1, FS_EmptySet, Finite, LimitsAssumption DEF CapacityInv
<1>2. RowInv => Vetted
  BY DEF RowInv
<1>3. QED
  BY <1>1, <1>2, CapacityStep, ShapedInvariant, RowInvariant, PTL DEF Spec

\* The count and the UPSERT race, but for any number of handlers the listing
\* exceeds the limit by fewer than there are handlers.
THEOREM CapacityBounded == Spec => []CapacityBound
<1>1. CapacityInv => CapacityBound
  <2> SUFFICES ASSUME CapacityInv PROVE CapacityBound
    OBVIOUS
  <2>1. Listed \in SUBSET Occupied
    BY DEF Listed, Occupied, ActiveAt
  <2>2. Cardinality(Listed) <= Cardinality(Occupied) /\ Cardinality(Listed) \in Nat
    BY <2>1, Finite, FS_Subset, FS_CardinalityType
  <2>3. QED
    BY <2>2, Finite, LimitsAssumption DEF CapacityInv, CapacityBound
<1>2. QED
  BY <1>1, CapacityInvariant, PTL

-----------------------------------------------------------------------------
(* Deleted rows.                                                            *)

\* The time of a sweep is a time that was.
SweepPast == sweep # None => sweep <= clock

LEMMA SweepStep == Shaped /\ SweepPast /\ [Next]_vars => SweepPast'
<1> SUFFICES ASSUME Shaped, SweepPast, [Next]_vars PROVE SweepPast'
  OBVIOUS
<1> USE NoneAssumption DEF Shaped, TypeOK, SweepPast
<1>1. ASSUME NEW h \in Handlers, Handle(h) PROVE SweepPast'
  BY <1>1 DEF Handle, BeginRegister, UpsertProvider, NoteNonce, Guard!Accept, ValidateAnnounceInput, LookUp,
              ReadAnnouncement, CountActive, UpsertAnnouncement, Refuse
<1>2. CASE BeginCleanup BY <1>2 DEF BeginCleanup
<1>3. CASE DeleteExpired BY <1>3 DEF DeleteExpired
<1>4. CASE CatalogAsset BY <1>4 DEF CatalogAsset
<1>5. CASE Tick BY <1>5 DEF Tick, Guard!Pass
<1>6. CASE Restart BY <1>6 DEF Restart, Guard!Restart
<1>7. CASE UNCHANGED vars BY <1>7 DEF vars
<1> QED BY <1>1, <1>2, <1>3, <1>4, <1>5, <1>6, <1>7 DEF Next

LEMMA SparedStep == Shaped /\ SweepPast /\ [Next]_vars => [ListedStep]_vars
<1> SUFFICES ASSUME Shaped, SweepPast, Next,
                    NEW p \in Providers, HasRow(p), expires[p] > clock
             PROVE  HasRow(p)'
  BY DEF ListedStep
<1> USE NoneAssumption DEF Shaped, TypeOK, HasRow
<1>1. ASSUME NEW h \in Handlers, Handle(h) PROVE HasRow(p)'
  <2>1. CASE UpsertAnnouncement(h)
    BY <2>1 DEF UpsertAnnouncement
  <2>2. CASE expires' = expires
    BY <2>2
  <2> QED
    BY <1>1, <2>1, <2>2
    DEF Handle, BeginRegister, UpsertProvider, NoteNonce, Guard!Accept, ValidateAnnounceInput, LookUp,
        ReadAnnouncement, CountActive, Refuse, tableVars
<1>2. CASE DeleteExpired
  <2>1. sweep \in Nat /\ sweep <= clock /\ expires[p] \in Int
    BY <1>2 DEF DeleteExpired, SweepPast
  <2>2. ~(expires[p] < sweep)
    BY <2>1
  <2> QED BY <1>2, <2>2 DEF DeleteExpired
<1>3. CASE expires' = expires
  BY <1>3
<1> QED
  BY <1>1, <1>2, <1>3 DEF Next, BeginCleanup, CatalogAsset, Tick, Restart, tableVars

\* No step but expiry makes a listed announcement go, however old the reading of
\* the clock is that the cleanup deletes with.
THEOREM ListedSpared == Spec => CleanupSparesListed
<1>1. Init => SweepPast
  BY DEF Init, SweepPast
<1>2. QED
  BY <1>1, SweepStep, SparedStep, ShapedInvariant, PTL DEF Spec, CleanupSparesListed
=============================================================================
