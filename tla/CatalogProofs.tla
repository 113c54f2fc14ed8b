---------------------------- MODULE CatalogProofs ----------------------------
(* Proofs about Catalog for every set of calls.                             *)
EXTENDS Catalog, FiniteSetTheorems, TLAPS

Shaped == TypeOK /\ IsFiniteSet(hints)

Answers == {"none", "ok", "conflict", "not found", "error"}
Bound ==
  \A c \in Calls : pc[c] \in {"payee", "mapping", "insert payee", "insert asset", "publish"}
                     => artist[c] \in ArtistIDs

LEMMA NextNumber == \A n \in Nat : n + 1 \in Nat
OBVIOUS

LEMMA RowsOfCalls ==
  \A c \in Calls :
    /\ ArtistID(c) \in ArtistIDs /\ AssetID(c) \in AssetIDs
    /\ [id |-> ArtistID(c), handle |-> Req[c].handle, key |-> PubKey(c)] \in ArtistRow
    /\ \A i \in ArtistIDs :
         /\ [id |-> PayeeID(c), artist |-> i, fap |-> Req[c].fap, url |-> Req[c].url]
              \in PayeeRow
         /\ [id |-> AssetID(c), artist |-> i, payee |-> Req[c].payee] \in AssetRow
BY DEF ArtistIDs, AssetIDs, ArtistRow, PayeeRow, AssetRow, Field

LEMMA StepShape ==
  ASSUME Shaped, NEW c \in Calls, Serve(c)
  PROVE  Shaped'
<1> USE DEF Shaped, TypeOK, Labels, tables, Goto, Answer
<1>1. CASE Fail(c)
  BY <1>1 DEF Fail
<1>2. CASE GetArtistByHandle(c)
  BY <1>2 DEF GetArtistByHandle, ArtistRow
<1>3. CASE GetArtistByID(c)
  BY <1>3 DEF GetArtistByID, ArtistRow
<1>4. CASE CreateArtist(c)
  <2>1. ArtistID(c) \in ArtistIDs
    BY RowsOfCalls
  <2> DEFINE row == [id |-> ArtistID(c), handle |-> Req[c].handle, key |-> PubKey(c)]
  <2>2. artists' \subseteq ArtistRow
    <3>1. row \in ArtistRow
      BY RowsOfCalls
    <3>2. artists' = artists \/ artists' = artists \cup {row}
      BY <1>4 DEF CreateArtist
    <3> HIDE DEF row
    <3>3. QED
      BY <3>1, <3>2
  <2>3. artist' \in [Calls -> ArtistIDs \cup {None}]
    BY <1>4, <2>1 DEF CreateArtist
  <2>4. pc' \in [Calls -> Labels] /\ answer' \in [Calls -> Answers]
    BY <1>4 DEF CreateArtist, Answers
  <2>5. Bound'
    BY <1>4, <2>1 DEF CreateArtist, Bound
  <2>6. QED
    BY <1>4, <2>2, <2>3, <2>4, <2>5 DEF CreateArtist, Bound, Answers
<1>5. CASE GetPayee(c)
  BY <1>5 DEF GetPayee
<1>6. CASE ListPayeesByArtist(c)
  BY <1>6 DEF ListPayeesByArtist
<1>7. CASE CreatePayee(c)
  <2>1. artist[c] \in ArtistIDs
    BY <1>7 DEF CreatePayee
  <2> DEFINE row == [id |-> PayeeID(c), artist |-> artist[c], fap |-> Req[c].fap, url |-> Req[c].url]
  <2>2. payees' \subseteq PayeeRow
    <3>1. row \in PayeeRow
      BY <2>1, RowsOfCalls
    <3>2. payees' \subseteq payees \cup {row}
      BY <1>7 DEF CreatePayee
    <3> HIDE DEF row
    <3>3. QED
      BY <3>1, <3>2
  <2>3. pc' \in [Calls -> Labels] /\ answer' \in [Calls -> Answers]
    BY <1>7 DEF CreatePayee, Answers
  <2>4. Bound'
    BY <1>7 DEF CreatePayee, Bound
  <2>5. QED
    BY <1>7, <2>2, <2>3, <2>4 DEF CreatePayee, Bound, Answers
<1>8. CASE CreateAsset(c)
  <2>1. artist[c] \in ArtistIDs
    BY <1>8 DEF CreateAsset
  <2> DEFINE row == [id |-> AssetID(c), artist |-> artist[c], payee |-> Req[c].payee]
  <2>2. assets' \subseteq AssetRow
    <3>1. row \in AssetRow
      BY <2>1, RowsOfCalls
    <3>2. assets' \subseteq assets \cup {row}
      BY <1>8 DEF CreateAsset
    <3> HIDE DEF row
    <3>3. QED
      BY <3>1, <3>2
  <2>3. pc' \in [Calls -> Labels] /\ answer' \in [Calls -> Answers]
    BY <1>8 DEF CreateAsset, Answers
  <2>4. Bound'
    BY <1>8 DEF CreateAsset, Bound
  <2>5. QED
    BY <1>8, <2>2, <2>3, <2>4 DEF CreateAsset, Bound, Answers
<1>9. CASE AddHint(c)
  <2>1. Cardinality(HintsOf(c)) + 1 \in Nat
    <3>1. HintsOf(c) \in SUBSET hints
      BY DEF HintsOf
    <3>2. IsFiniteSet(HintsOf(c))
      BY <3>1, FS_Subset
    <3>3. Cardinality(HintsOf(c)) \in Nat
      BY <3>2, FS_CardinalityType
    <3>4. QED
      BY <3>3, NextNumber, Zenon
  <2> DEFINE row == [asset |-> AssetID(c), call |-> c,
                     n |-> Cardinality(HintsOf(c)) + 1]
  <2>2. row \in HintRow
    BY <2>1, RowsOfCalls DEF HintRow
  <2>3. hints' = hints \cup {row}
    BY <1>9 DEF AddHint
  <2>4. IsFiniteSet(hints \cup {row})
    BY FS_AddElement
  <2>5. hints' \subseteq HintRow /\ IsFiniteSet(hints')
    <3> HIDE DEF row
    <3> QED BY <2>2, <2>3, <2>4
  <2>6. pc' \in [Calls -> Labels] /\ answer' \in [Calls -> Answers]
    BY <1>9 DEF AddHint, Answers
  <2>7. Bound'
    BY <1>9 DEF AddHint, Bound
  <2>8. QED
    BY <1>9, <2>5, <2>6, <2>7 DEF AddHint, Bound, Answers
<1>10. CASE UpsertAsset(c)
  <2>1. artist[c] \in ArtistIDs
    BY <1>10 DEF UpsertAsset
  <2> DEFINE row == [id |-> AssetID(c), artist |-> artist[c], payee |-> Req[c].payee]
  <2>2. assets' \subseteq AssetRow
    <3>1. row \in AssetRow
      BY <2>1, RowsOfCalls
    <3>2. assets' \subseteq assets \cup {row}
      BY <1>10 DEF UpsertAsset
    <3> HIDE DEF row
    <3>3. QED
      BY <3>1, <3>2
  <2>3. pc' \in [Calls -> Labels] /\ answer' \in [Calls -> Answers]
    BY <1>10 DEF UpsertAsset, Answers
  <2>4. Bound'
    BY <1>10 DEF UpsertAsset, Bound
  <2>5. QED
    BY <1>10, <2>2, <2>3, <2>4 DEF UpsertAsset, Bound, Answers
<1>11. CASE GetAsset(c)
  <2>1. pc' \in [Calls -> Labels] /\ answer' \in [Calls -> Answers]
    BY <1>11 DEF GetAsset, Answers
  <2>2. Bound'
    BY <1>11 DEF GetAsset, Bound
  <2>3. QED
    BY <1>11, <2>1, <2>2 DEF GetAsset, Bound, Answers
<1>12. QED
  BY <1>1, <1>2, <1>3, <1>4, <1>5, <1>6, <1>7, <1>8, <1>9, <1>10, <1>11 DEF Serve

LEMMA ShapedInvariant == Spec => []Shaped
<1>1. Init => Shaped
  <2> SUFFICES ASSUME Init PROVE Shaped
    OBVIOUS
  <2>1. \A c \in Calls : First(c) \in {"insert artist", "handle", "hints", "artist id"}
    BY RequestsAssumption DEF First, Kinds
  <2>2. QED
    BY <2>1, FS_EmptySet DEF Init, Shaped, TypeOK, Labels
<1>2. Shaped /\ [Next]_vars => Shaped'
  <2> SUFFICES ASSUME Shaped, [Next]_vars PROVE Shaped'
    OBVIOUS
  <2>1. CASE UNCHANGED vars
    BY <2>1 DEF vars, Shaped, TypeOK
  <2>2. QED
    BY <2>1, StepShape DEF Next
<1>3. QED
  BY <1>1, <1>2, PTL DEF Spec

\* The type invariant: rows are built from the requests of the calls.
THEOREM TypeCorrect == Spec => []TypeOK
<1>1. Shaped => TypeOK
  BY DEF Shaped
<1>2. QED
  BY <1>1, ShapedInvariant, PTL
-----------------------------------------------------------------------------
(* A step of a call only adds artists and payees, adds at most one payee,   *)
(* and leaves the other calls where they are.                               *)

LEMMA Growth ==
  ASSUME NEW c \in Calls, Serve(c)
  PROVE  artists \subseteq artists' /\ payees \subseteq payees'
<1> USE DEF tables
<1>1. QED
  BY DEF Serve, Fail, GetArtistByHandle, GetArtistByID, CreateArtist, GetPayee,
         ListPayeesByArtist, CreatePayee, CreateAsset, GetAsset, AddHint, UpsertAsset

LEMMA OthersWait ==
  ASSUME TypeOK, NEW c \in Calls, Serve(c), NEW d \in Calls \ {c}
  PROVE  /\ pc'[d] = pc[d] /\ artist'[d] = artist[d]
         /\ answer'[d] = answer[d] /\ seen'[d] = seen[d]
<1> USE DEF TypeOK, Goto, Answer, tables
<1>1. CASE Fail(c)               BY <1>1 DEF Fail
<1>2. CASE GetArtistByHandle(c)  BY <1>2 DEF GetArtistByHandle
<1>3. CASE GetArtistByID(c)      BY <1>3 DEF GetArtistByID
<1>4. CASE CreateArtist(c)       BY <1>4 DEF CreateArtist
<1>5. CASE GetPayee(c)           BY <1>5 DEF GetPayee
<1>6. CASE ListPayeesByArtist(c) BY <1>6 DEF ListPayeesByArtist
<1>7. CASE CreatePayee(c)        BY <1>7 DEF CreatePayee
<1>8. CASE CreateAsset(c)        BY <1>8 DEF CreateAsset
<1>9. CASE AddHint(c)            BY <1>9 DEF AddHint
<1>10. CASE UpsertAsset(c)       BY <1>10 DEF UpsertAsset
<1>11. CASE GetAsset(c)          BY <1>11 DEF GetAsset
<1>12. QED
  BY <1>1, <1>2, <1>3, <1>4, <1>5, <1>6, <1>7, <1>8, <1>9, <1>10, <1>11 DEF Serve

-----------------------------------------------------------------------------
(* Payees belong to the artist: what a call has looked up is still there    *)
(* when it inserts, because nothing is ever deleted.                        *)

Known(i)     == \E a \in artists : a.id = i
Paid(i, art) == \E p \in payees : p.id = i /\ p.artist = art

Backed(c) ==
  /\ pc[c] \in {"payee", "mapping", "insert payee", "insert asset", "publish"}
       => Known(artist[c])
  /\ pc[c] \in {"insert asset", "publish"} => Paid(Req[c].payee, artist[c])

PayInv == PayeeOfArtist /\ \A c \in Calls : Backed(c)

LEMMA StillBacked ==
  ASSUME TypeOK, NEW c \in Calls, Serve(c), NEW d \in Calls \ {c}, Backed(d)
  PROVE  Backed(d)'
<1>1. artists \subseteq artists' /\ payees \subseteq payees'
  BY Growth
<1>2. pc'[d] = pc[d] /\ artist'[d] = artist[d]
  BY OthersWait
<1>3. QED
  BY <1>1, <1>2 DEF Backed, Known, Paid

\* One row more, or one in another's place, is all the property has to check.
LEMMA AssetPaid ==
  ASSUME PayeeOfArtist, UNCHANGED <<artists, payees>>, NEW s,
         Paid(s.payee, s.artist), assets' \subseteq assets \cup {s}
  PROVE  PayeeOfArtist'
BY DEF PayeeOfArtist, Paid

LEMMA PayeeKnown ==
  ASSUME PayeeOfArtist, UNCHANGED <<artists, assets>>, NEW p,
         Known(p.artist), payees \subseteq payees', payees' \subseteq payees \cup {p}
  PROVE  PayeeOfArtist'
BY DEF PayeeOfArtist, Known

LEMMA StepBacked ==
  ASSUME TypeOK, PayInv, NEW c \in Calls, Serve(c)
  PROVE  Backed(c)' /\ PayeeOfArtist'
<1> USE DEF TypeOK, Goto, Answer, tables, Backed, Known, Paid
<1>a. Backed(c) /\ PayeeOfArtist
  BY DEF PayInv
<1>1. CASE Fail(c)
  BY <1>1, <1>a DEF Fail, PayeeOfArtist
<1>2. CASE GetArtistByHandle(c)
  BY <1>2, <1>a DEF GetArtistByHandle, PayeeOfArtist
<1>3. CASE GetArtistByID(c)
  BY <1>3, <1>a DEF GetArtistByID, PayeeOfArtist
<1>4. CASE CreateArtist(c)
  <2>1. PayeeOfArtist'
    BY <1>4, <1>a, Growth DEF CreateArtist, PayeeOfArtist
  <2>2. Backed(c)'
    <3>1. CASE pc'[c] = "done"
      BY <3>1
    <3>2. CASE pc'[c] # "done"
      <4> DEFINE row == [id |-> ArtistID(c), handle |-> Req[c].handle, key |-> PubKey(c)]
      <4>1. row \in artists' /\ artist'[c] = ArtistID(c) /\ pc'[c] = "payee"
        BY <1>4, <3>2 DEF CreateArtist
      <4>2. row.id = ArtistID(c)
        OBVIOUS
      <4>3. Known(artist[c])'
        BY <4>1, <4>2
      <4>4. QED
        BY <4>1, <4>3
    <3>3. QED
      BY <3>1, <3>2
  <2>3. QED
    BY <2>1, <2>2
<1>5. CASE GetPayee(c)
  BY <1>5, <1>a DEF GetPayee, PayeeFits, PayeeOfArtist
<1>6. CASE ListPayeesByArtist(c)
  BY <1>6, <1>a DEF ListPayeesByArtist, PayeeOfArtist
<1>7. CASE CreatePayee(c)
  <2>1. PayeeOfArtist'
    <3> DEFINE row == [id |-> PayeeID(c), artist |-> artist[c],
                       fap |-> Req[c].fap, url |-> Req[c].url]
    <3>1. /\ payees \subseteq payees' /\ payees' \subseteq payees \cup {row}
          /\ UNCHANGED <<artists, assets>>
      BY <1>7 DEF CreatePayee
    <3>2. Known(row.artist)
      BY <1>7, <1>a DEF CreatePayee
    <3> HIDE DEF row, Known
    <3>3. QED
      BY <1>a, <3>1, <3>2, PayeeKnown
  <2>2. Backed(c)'
    BY <1>7 DEF CreatePayee
  <2>3. QED
    BY <2>1, <2>2
<1>8. CASE CreateAsset(c)
  <2>1. PayeeOfArtist'
    <3> DEFINE row == [id |-> AssetID(c), artist |-> artist[c], payee |-> Req[c].payee]
    <3>1. assets' \subseteq assets \cup {row} /\ UNCHANGED <<artists, payees>>
      BY <1>8 DEF CreateAsset
    <3>2. Paid(row.payee, row.artist)
      BY <1>8, <1>a DEF CreateAsset
    <3> HIDE DEF row, Paid
    <3>3. QED
      BY <1>a, <3>1, <3>2, AssetPaid
  <2>2. Backed(c)'
    BY <1>8 DEF CreateAsset
  <2>3. QED
    BY <2>1, <2>2
<1>9. CASE GetAsset(c) \/ AddHint(c)
  BY <1>9, <1>a DEF GetAsset, AddHint, PayeeOfArtist
<1>10. CASE UpsertAsset(c)
  <2>1. PayeeOfArtist'
    <3> DEFINE row == [id |-> AssetID(c), artist |-> artist[c], payee |-> Req[c].payee]
    <3>1. assets' \subseteq assets \cup {row} /\ UNCHANGED <<artists, payees>>
      BY <1>10 DEF UpsertAsset
    <3>2. Paid(row.payee, row.artist)
      BY <1>10, <1>a DEF UpsertAsset
    <3> HIDE DEF row, Paid
    <3>3. QED
      BY <1>a, <3>1, <3>2, AssetPaid
  <2>2. Backed(c)'
    BY <1>10 DEF UpsertAsset
  <2>3. QED
    BY <2>1, <2>2
<1>11. QED
  BY <1>1, <1>2, <1>3, <1>4, <1>5, <1>6, <1>7, <1>8, <1>9, <1>10 DEF Serve

LEMMA PayInvariant == Spec => []PayInv
<1>1. Init => PayInv
  <2> SUFFICES ASSUME Init PROVE PayInv
    OBVIOUS
  <2>1. \A c \in Calls : First(c) \in {"insert artist", "handle", "hints", "artist id"}
    BY RequestsAssumption DEF First, Kinds
  <2>2. QED
    BY <2>1 DEF Init, PayInv, PayeeOfArtist, Backed
<1>2. TypeOK /\ PayInv /\ [Next]_vars => PayInv'
  <2> SUFFICES ASSUME TypeOK, PayInv, [Next]_vars PROVE PayInv'
    OBVIOUS
  <2>1. CASE UNCHANGED vars
    BY <2>1 DEF vars, PayInv, PayeeOfArtist, Backed, Known, Paid
  <2>2. CASE Next
    <3>1. PICK c \in Calls : Serve(c)
      BY <2>2 DEF Next
    <3>2. \A d \in Calls \ {c} : Backed(d)'
      BY <3>1, StillBacked DEF PayInv
    <3>3. Backed(c)' /\ PayeeOfArtist'
      BY <3>1, StepBacked
    <3>4. QED
      BY <3>2, <3>3 DEF PayInv
  <2>3. QED
    BY <2>1, <2>2
<1>3. QED
  BY <1>1, <1>2, TypeCorrect, PTL DEF Spec

\* A published price is always paid to the asset's artist, with any number of
\* calls that create, upload and bootstrap at once.
THEOREM PaysArtist == Spec => []PayeeOfArtist
<1>1. PayInv => PayeeOfArtist
  BY DEF PayInv
<1>2. QED
  BY <1>1, PayInvariant, PTL

-----------------------------------------------------------------------------
(* Bootstraps: a handle and an id have one row each, a bootstrap on its way *)
(* has found or made the row that has both, and it inserts a payee only     *)
(* when the artist had none for the FAP payee when it began.                *)

Unique == \A a, b \in artists : (a.id = b.id \/ a.handle = b.handle) => a = b
Mine(c) == \E a \in artists : a.id = ArtistID(c) /\ a.handle = Req[c].handle
Stored(c) == \E p \in payees : /\ p.id = PayeeID(c) /\ p.artist = ArtistID(c)
                               /\ p.fap = Req[c].fap /\ p.url = Req[c].url

Bootstrapping(c) ==
  Req[c].kind = "bootstrap" =>
    /\ seen[c] \subseteq payees
    /\ pc[c] \in {"payee", "mapping", "insert payee"} =>
         artist[c] = ArtistID(c) /\ Mine(c)
    /\ pc[c] = "insert payee" => Mapped(c) = {}
    /\ pc[c] \notin {"insert asset", "publish", "hints", "insert hint"}
    /\ answer[c] = "ok" => Mine(c) /\ Stored(c)

BootInv == Unique /\ \A c \in Calls : Bootstrapping(c)

LEMMA StillBootstrapping ==
  ASSUME TypeOK, NEW c \in Calls, Serve(c), NEW d \in Calls \ {c}, Bootstrapping(d)
  PROVE  Bootstrapping(d)'
<1>1. artists \subseteq artists' /\ payees \subseteq payees'
  BY Growth
<1>2. /\ pc'[d] = pc[d] /\ artist'[d] = artist[d]
      /\ answer'[d] = answer[d] /\ seen'[d] = seen[d]
  BY OthersWait
<1>3. QED
  BY <1>1, <1>2 DEF Bootstrapping, Mine, Stored, Mapped

LEMMA StepUnique ==
  ASSUME Unique, NEW c \in Calls, Serve(c)
  PROVE  Unique'
<1>1. CASE artists' = artists
  BY <1>1 DEF Unique
<1>2. CASE CreateArtist(c) /\ artists' # artists
  <2> DEFINE row == [id |-> ArtistID(c), handle |-> Req[c].handle, key |-> PubKey(c)]
  <2>1. /\ artists' = artists \cup {row}
        /\ \A a \in artists : a.id # ArtistID(c) /\ a.handle # Req[c].handle
    BY <1>2 DEF CreateArtist
  <2>2. row.id = ArtistID(c) /\ row.handle = Req[c].handle
    OBVIOUS
  <2> HIDE DEF row
  <2>3. QED
    BY <2>1, <2>2 DEF Unique
<1>3. QED
  BY <1>1, <1>2 DEF Serve, Fail, GetArtistByHandle, GetArtistByID, GetPayee, tables,
       ListPayeesByArtist, CreatePayee, CreateAsset, GetAsset, AddHint, UpsertAsset

LEMMA StepBootstrapping ==
  ASSUME TypeOK, NEW c \in Calls, Serve(c), Bootstrapping(c)
  PROVE  Bootstrapping(c)'
<1> SUFFICES ASSUME Req[c].kind = "bootstrap" PROVE Bootstrapping(c)'
  BY DEF Bootstrapping
<1> USE DEF TypeOK, Goto, Answer, tables, Bootstrapping
<1>1. CASE Fail(c)
  BY <1>1 DEF Fail, Mine, Stored, Mapped
<1>2. CASE GetArtistByHandle(c)
  BY <1>2 DEF GetArtistByHandle, Mine, Stored, Mapped
<1>3. CASE GetArtistByID(c)
  BY <1>3 DEF GetArtistByID, Mine, Stored, Mapped
<1>4. CASE CreateArtist(c)
  <2>1. /\ seen' = seen /\ payees' = payees
        /\ \/ pc'[c] = "done" /\ answer'[c] = "conflict"
           \/ /\ pc'[c] = "payee" /\ answer'[c] = answer[c]
              /\ artist'[c] = ArtistID(c)
    BY <1>4 DEF CreateArtist
  <2>2. CASE pc'[c] = "done" /\ answer'[c] = "conflict"
    BY <2>1, <2>2
  <2>3. CASE pc'[c] = "payee" /\ answer'[c] = answer[c] /\ artist'[c] = ArtistID(c)
    <3>1. Mine(c)'
      <4> DEFINE row == [id |-> ArtistID(c), handle |-> Req[c].handle, key |-> PubKey(c)]
      <4>1. row \in artists'
        BY <1>4, <2>3 DEF CreateArtist
      <4>2. row.id = ArtistID(c) /\ row.handle = Req[c].handle
        OBVIOUS
      <4> HIDE DEF row
      <4>3. QED
        BY <4>1, <4>2 DEF Mine
    <3>2. answer[c] = "ok" => Stored(c)'
      BY <2>1 DEF Stored
    <3>3. QED
      BY <2>1, <2>3, <3>1, <3>2
  <2>4. QED
    BY <2>1, <2>2, <2>3
<1>5. CASE GetPayee(c)
  BY <1>5 DEF GetPayee, PayeeFits, Mine, Stored, Mapped
<1>6. CASE ListPayeesByArtist(c)
  BY <1>6 DEF ListPayeesByArtist, Mine, Stored, Mapped
<1>7. CASE CreatePayee(c)
  <2>1. /\ seen' = seen /\ artists' = artists /\ payees \subseteq payees'
        /\ pc'[c] = "done" /\ answer'[c] \in {"conflict", "ok"}
        /\ Mine(c) /\ artist[c] = ArtistID(c)
    BY <1>7 DEF CreatePayee
  <2>2. answer'[c] = "ok" => Stored(c)'
    <3> DEFINE row == [id |-> PayeeID(c), artist |-> artist[c],
                       fap |-> Req[c].fap, url |-> Req[c].url]
    <3>1. answer'[c] = "ok" => row \in payees'
      BY <1>7 DEF CreatePayee
    <3>2. /\ row.id = PayeeID(c) /\ row.artist = artist[c]
          /\ row.fap = Req[c].fap /\ row.url = Req[c].url
      OBVIOUS
    <3> HIDE DEF row
    <3>3. QED
      BY <2>1, <3>1, <3>2 DEF Stored
  <2>3. Mine(c)'
    BY <2>1 DEF Mine
  <2>4. seen'[c] \subseteq payees'
    BY <2>1
  <2>5. QED
    BY <2>1, <2>2, <2>3, <2>4
<1>8. CASE CreateAsset(c)
  BY <1>8 DEF CreateAsset
<1>9. CASE GetAsset(c) \/ AddHint(c)
  BY <1>9 DEF GetAsset, AddHint
<1>10. CASE UpsertAsset(c)
  BY <1>10 DEF UpsertAsset
<1>11. QED
  BY <1>1, <1>2, <1>3, <1>4, <1>5, <1>6, <1>7, <1>8, <1>9, <1>10 DEF Serve

LEMMA BootInvariant == Spec => []BootInv
<1>1. Init => BootInv
  <2> SUFFICES ASSUME Init PROVE BootInv
    OBVIOUS
  <2>1. \A c \in Calls : Req[c].kind = "bootstrap" => First(c) = "handle"
    BY DEF First
  <2>2. QED
    BY <2>1 DEF Init, BootInv, Unique, Bootstrapping
<1>2. TypeOK /\ BootInv /\ [Next]_vars => BootInv'
  <2> SUFFICES ASSUME TypeOK, BootInv, [Next]_vars PROVE BootInv'
    OBVIOUS
  <2>1. CASE UNCHANGED vars
    BY <2>1 DEF vars, BootInv, Unique, Bootstrapping, Mine, Stored, Mapped
  <2>2. CASE Next
    <3>1. PICK c \in Calls : Serve(c)
      BY <2>2 DEF Next
    <3>2. \A d \in Calls \ {c} : Bootstrapping(d)'
      BY <3>1, StillBootstrapping DEF BootInv
    <3>3. Bootstrapping(c)' /\ Unique'
      BY <3>1, StepBootstrapping, StepUnique DEF BootInv
    <3>4. QED
      BY <3>2, <3>3 DEF BootInv
  <2>3. QED
    BY <2>1, <2>2
<1>3. QED
  BY <1>1, <1>2, TypeCorrect, PTL DEF Spec

\* Bootstraps of a handle that succeed speak of one artist, and its payee is
\* stored as they asked.
THEOREM OneArtist == Spec => []BootstrapsAgree
<1>1. BootInv => BootstrapsAgree
  <2> SUFFICES ASSUME BootInv, NEW c \in Calls,
                      Req[c].kind = "bootstrap", answer[c] = "ok"
               PROVE  /\ \A a \in artists : a.handle = Req[c].handle <=> a.id = ArtistID(c)
                      /\ Stored(c)
    BY DEF BootstrapsAgree, Stored
  <2>1. Mine(c) /\ Stored(c)
    BY DEF BootInv, Bootstrapping
  <2>2. PICK mine \in artists : mine.id = ArtistID(c) /\ mine.handle = Req[c].handle
    BY <2>1 DEF Mine
  <2>3. \A a \in artists : (a.id = mine.id \/ a.handle = mine.handle) => a = mine
    BY <2>2 DEF BootInv, Unique
  <2>4. QED
    BY <2>1, <2>2, <2>3
<1>2. QED
  BY <1>1, BootInvariant, PTL

\* No bootstrap stores a second payee for a FAP payee the artist already had
\* when it began.
THEOREM ReusesWhatItSaw == Spec => ReusesMapping
<1>1. TypeOK /\ BootInv /\ [Next]_vars => [ReuseStep]_vars
  <2> SUFFICES ASSUME TypeOK, BootInv, NEW c \in Calls, Serve(c),
                      NEW d \in Calls, Req[d].kind = "bootstrap",
                      payees' # payees, pc'[d] # pc[d]
               PROVE  Mapped(d) = {}
    BY DEF Next, ReuseStep
  <2>1. d = c
    BY OthersWait
  <2>2. CreatePayee(c)
    BY DEF Serve, Fail, GetArtistByHandle, GetArtistByID, CreateArtist, GetPayee, tables,
           ListPayeesByArtist, CreateAsset, GetAsset, AddHint, UpsertAsset
  <2>3. QED
    BY <2>1, <2>2 DEF CreatePayee, BootInv, Bootstrapping
<1>2. QED
  BY <1>1, TypeCorrect, BootInvariant, PTL DEF Spec, ReusesMapping

-----------------------------------------------------------------------------
(* Hints are numbered by their call without a gap, up to what it wanted.    *)

Count(c) == Cardinality(HintsOf(c))
Creates(c) == Req[c].kind \in {"asset", "hint"}

Numbered(c) ==
  /\ Count(c) \in 0..Wanted(c)
  /\ {h.n : h \in HintsOf(c)} = 1..Count(c)
  /\ Creates(c) /\ answer[c] = "ok" => Count(c) = Wanted(c)

\* A call about to insert a hint has one to insert, and has found its asset.
Found(c) ==
  pc[c] = "insert hint" =>
    Count(c) # Wanted(c) /\ \E s \in assets : s.id = AssetID(c)

\* Only a call that creates neither asset nor hint comes to these statements.
Elsewhere(c) ==
  Creates(c) =>
    pc[c] \notin {"insert artist", "artist id", "mapping", "insert payee", "publish"}

HintInv ==
  /\ \A h \in hints : \E s \in assets : s.id = h.asset
  /\ \A c \in Calls : Numbered(c) /\ Elsewhere(c) /\ Found(c)

LEMMA WantedType ==
  ASSUME NEW c \in Calls
  PROVE  Wanted(c) \in Nat
BY RequestsAssumption DEF Wanted

LEMMA CountType ==
  ASSUME Shaped, NEW c \in Calls
  PROVE  IsFiniteSet(HintsOf(c)) /\ Count(c) \in Nat
<1>1. HintsOf(c) \in SUBSET hints BY DEF HintsOf
<1>2. IsFiniteSet(HintsOf(c)) BY <1>1, FS_Subset DEF Shaped
<1> QED BY <1>2, FS_CardinalityType DEF Count

LEMMA StillAssets ==
  ASSUME NEW c \in Calls, Serve(c)
  PROVE  \A i : (\E s \in assets : s.id = i) => \E s \in assets' : s.id = i
<1>1. CASE UpsertAsset(c)
  <2> DEFINE row == [id |-> AssetID(c), artist |-> artist[c], payee |-> Req[c].payee]
  <2>1. row.id = AssetID(c) OBVIOUS
  <2>2. assets' = {s \in assets : s.id # AssetID(c)} \cup {row} BY <1>1 DEF UpsertAsset
  <2> HIDE DEF row
  <2> QED BY <2>1, <2>2
<1>2. CASE CreateAsset(c) BY <1>2 DEF CreateAsset
<1>3. CASE assets' = assets BY <1>3
<1> QED
  BY <1>1, <1>2, <1>3
  DEF Serve, Fail, GetArtistByHandle, GetArtistByID, CreateArtist, GetPayee,
      ListPayeesByArtist, CreatePayee, GetAsset, AddHint, tables

LEMMA AddNumbered ==
  ASSUME Shaped, HintInv, NEW c \in Calls, AddHint(c)
  PROVE  HintInv'
<1> DEFINE row == [asset |-> AssetID(c), call |-> c, n |-> Count(c) + 1]
<1>1. Count(c) \in Nat /\ Wanted(c) \in Nat /\ IsFiniteSet(HintsOf(c))
  BY CountType, WantedType
<1>2. /\ hints' = hints \cup {row} /\ UNCHANGED <<assets, answer>>
      /\ pc'[c] = "hints" /\ \A d \in Calls \ {c} : pc'[d] = pc[d]
      /\ Count(c) # Wanted(c) /\ \E s \in assets : s.id = AssetID(c)
  BY DEF AddHint, Goto, Count, HintInv, Found, Shaped, TypeOK
<1>3. row.n = Count(c) + 1 /\ row.call = c /\ row.asset = AssetID(c) OBVIOUS
<1> HIDE DEF row
<1>4. HintsOf(c)' = HintsOf(c) \cup {row} /\ \A d \in Calls \ {c} : HintsOf(d)' = HintsOf(d)
  BY <1>2, <1>3 DEF HintsOf
<1>5. {h.n : h \in HintsOf(c)} = 1..Count(c) /\ Count(c) <= Wanted(c)
  BY <1>1 DEF HintInv, Numbered
<1>6. row \notin HintsOf(c)
  <2>1. Count(c) + 1 \notin 1..Count(c) BY <1>1
  <2> QED BY <1>3, <1>5, <2>1
<1>7. Count(c)' = Count(c) + 1
  BY <1>1, <1>4, <1>6, FS_AddElement DEF Count
<1>8. {h.n : h \in HintsOf(c)'} = 1..(Count(c) + 1)
  <2>1. {h.n : h \in HintsOf(c)'} = {h.n : h \in HintsOf(c)} \cup {row.n} BY <1>4
  <2>2. 1..(Count(c) + 1) = (1..Count(c)) \cup {Count(c) + 1} BY <1>1
  <2> QED BY <1>3, <1>5, <2>1, <2>2
<1>9. Count(c) + 1 \in 0..Wanted(c) BY <1>1, <1>2, <1>5
<1>a. Creates(c) /\ answer[c] = "ok" => Count(c) = Wanted(c) BY DEF HintInv, Numbered
<1>10. Numbered(c)' BY <1>a, <1>2, <1>7, <1>8, <1>9 DEF Numbered, Creates, Wanted
<1>11. \A d \in Calls \ {c} : Numbered(d)' /\ Found(d)'
  BY <1>2, <1>4 DEF HintInv, Numbered, Found, Creates, Count
<1>12. Found(c)' BY <1>2 DEF Found
<1>13. \A d \in Calls : Elsewhere(d)' BY <1>2 DEF HintInv, Elsewhere, Creates
<1>14. \A h \in hints' : \E s \in assets' : s.id = h.asset
  BY <1>2, <1>3 DEF HintInv
<1> QED BY <1>10, <1>11, <1>12, <1>13, <1>14 DEF HintInv

LEMMA StepHints ==
  ASSUME Shaped, HintInv, NEW c \in Calls, Serve(c)
  PROVE  HintInv'
<1>1. CASE AddHint(c) BY <1>1, AddNumbered
<1>2. CASE ~AddHint(c)
  <2>1. hints' = hints
    BY <1>2 DEF Serve, Fail, GetArtistByHandle, GetArtistByID, CreateArtist, GetPayee,
                ListPayeesByArtist, CreatePayee, CreateAsset, GetAsset, UpsertAsset, tables
  <2>2. \A d \in Calls : HintsOf(d)' = HintsOf(d) /\ Count(d)' = Count(d)
    BY <2>1 DEF HintsOf, Count
  <2>3. Creates(c) =>
          (answer'[c] = "ok" => answer[c] = "ok" \/ Count(c) = Wanted(c)) /\ Elsewhere(c)'
    <3> SUFFICES ASSUME Creates(c)
                 PROVE  /\ answer'[c] = "ok" => answer[c] = "ok" \/ Count(c) = Wanted(c)
                        /\ Elsewhere(c)'
      OBVIOUS
    <3> USE DEF Shaped, TypeOK, Goto, Answer, Creates, Elsewhere
    <3>0. Elsewhere(c) /\ Req[c].kind \in {"asset", "hint"} BY DEF HintInv
    <3>1. CASE Fail(c)               BY <3>0, <3>1 DEF Fail
    <3>2. CASE GetArtistByHandle(c)  BY <3>0, <3>2 DEF GetArtistByHandle
    <3>3. CASE GetPayee(c)           BY <3>0, <3>3 DEF GetPayee
    <3>4. CASE CreateAsset(c)        BY <3>0, <3>4 DEF CreateAsset
    <3>5. CASE GetAsset(c)           BY <3>0, <3>5 DEF GetAsset, Count
    <3> QED
      BY <1>2, <3>0, <3>1, <3>2, <3>3, <3>4, <3>5
      DEF Serve, GetArtistByID, CreateArtist, ListPayeesByArtist, CreatePayee, UpsertAsset
  <2>4. \A d \in Calls \ {c} : answer'[d] = answer[d] /\ pc'[d] = pc[d]
    BY OthersWait DEF Shaped
  <2>5. \A d \in Calls : Numbered(d)' BY <2>2, <2>3, <2>4 DEF HintInv, Numbered, Creates, Wanted
  <2>6. \A d \in Calls : Elsewhere(d)' BY <2>3, <2>4 DEF HintInv, Elsewhere, Creates
  <2>7. \A h \in hints' : \E s \in assets' : s.id = h.asset
    BY <2>1, StillAssets DEF HintInv
  <2>8. Found(c)'
    <3>1. CASE GetAsset(c)
      <4>1. pc'[c] = "insert hint" =>
              Cardinality(HintsOf(c)) # Wanted(c) /\ \E s \in assets : s.id = AssetID(c)
        BY <3>1 DEF GetAsset, Goto, Answer, Shaped, TypeOK
      <4>2. Count(c)' = Count(c) /\ assets' = assets BY <2>2, <3>1 DEF GetAsset, tables
      <4> QED BY <4>1, <4>2 DEF Found, Count, Wanted
    <3>2. CASE ~GetAsset(c)
      <4>1. pc'[c] # "insert hint"
        BY <1>2, <3>2
        DEF Serve, Fail, GetArtistByHandle, GetArtistByID, CreateArtist, GetPayee,
            ListPayeesByArtist, CreatePayee, CreateAsset, UpsertAsset, Goto, Answer,
            Shaped, TypeOK
      <4> QED BY <4>1 DEF Found
    <3> QED BY <3>1, <3>2
  <2>9. \A d \in Calls \ {c} : Found(d)'
    BY <2>2, <2>4, StillAssets DEF HintInv, Found, Wanted
  <2> QED BY <2>5, <2>6, <2>7, <2>8, <2>9 DEF HintInv
<1> QED BY <1>1, <1>2

LEMMA HintInvariant == Spec => []HintInv
<1>1. Init => HintInv
  <2> SUFFICES ASSUME Init PROVE HintInv
    OBVIOUS
  <2>1. \A c \in Calls : HintsOf(c) = {} /\ Count(c) = 0
    BY FS_EmptySet DEF Init, HintsOf, Count
  <2>2. \A c \in Calls : Numbered(c) BY <2>1, WantedType DEF Init, Numbered
  <2>3. \A c \in Calls : Elsewhere(c) /\ Found(c)
    BY RequestsAssumption DEF Init, Elsewhere, Found, Creates, First, Kinds
  <2>4. QED
    BY <2>2, <2>3 DEF Init, HintInv
<1>2. Shaped /\ HintInv /\ [Next]_vars => HintInv'
  <2> SUFFICES ASSUME Shaped, HintInv, [Next]_vars PROVE HintInv'
    OBVIOUS
  <2>1. CASE UNCHANGED vars
    BY <2>1 DEF vars, HintInv, Numbered, Elsewhere, Found, Creates, Count, HintsOf
  <2>2. QED
    BY <2>1, StepHints DEF Next
<1>3. QED
  BY <1>1, <1>2, ShapedInvariant, PTL DEF Spec

\* An answered creation has every hint it asked for, numbered without a gap,
\* and no hint is without its asset, whatever calls run or fail meanwhile.
THEOREM CompleteHints == Spec => []HintsComplete
<1>1. HintInv => HintsComplete
  BY DEF HintInv, Numbered, Creates, HintsComplete
<1>2. QED
  BY <1>1, HintInvariant, PTL

-----------------------------------------------------------------------------
(* What a call has looked up is all a foreign key would have asked for.     *)

\* Each statement that stores a row is a transaction of the tables with their
\* foreign keys enforced; all other steps leave the tables alone.
LEMMA StepSchema ==
  ASSUME TypeOK, PayInv, HintInv, NEW c \in Calls, Serve(c)
  PROVE  [Schema!Next]_Schema!vars
<1> USE DEF Goto, Answer, tables
<1>1. CASE CreateArtist(c) /\ artists' # artists
  <2>1. PICK a : a = [id |-> ArtistID(c), handle |-> Req[c].handle, key |-> PubKey(c)]
    OBVIOUS
  <2>2. /\ artists' = artists \cup {a} /\ UNCHANGED <<payees, assets, hints>>
        /\ \A b \in artists : b.id # a.id /\ b.handle # a.handle /\ b.key # a.key
    BY <1>1, <2>1 DEF CreateArtist
  <2>3. a \in artists' \ artists BY <1>1, <2>2
  <2>4. Schema!InsertArtist(a) BY <2>2 DEF Schema!InsertArtist
  <2> QED BY <2>3, <2>4 DEF Schema!Next
<1>2. CASE CreatePayee(c) /\ payees' # payees
  <2>1. PICK p : p = [id |-> PayeeID(c), artist |-> artist[c],
                      fap |-> Req[c].fap, url |-> Req[c].url]
    OBVIOUS
  <2>2. /\ payees' = payees \cup {p} /\ UNCHANGED <<artists, assets, hints>>
        /\ \A q \in payees : q.id # p.id
    BY <1>2, <2>1 DEF CreatePayee
  <2>3. Known(p.artist) BY <1>2, <2>1 DEF CreatePayee, PayInv, Backed
  <2>4. p \in payees' \ payees BY <1>2, <2>2
  <2>5. Schema!InsertPayee(p) BY <2>2, <2>3 DEF Schema!InsertPayee, Known
  <2> QED BY <2>4, <2>5 DEF Schema!Next
<1>3. CASE (CreateAsset(c) \/ UpsertAsset(c)) /\ assets' # assets
  <2>1. PICK s : s = [id |-> AssetID(c), artist |-> artist[c], payee |-> Req[c].payee]
    OBVIOUS
  <2>2. assets' = {t \in assets : t.id # s.id} \cup {s} /\ UNCHANGED <<artists, payees, hints>>
    BY <1>3, <2>1 DEF CreateAsset, UpsertAsset
  <2>3. Known(s.artist) /\ Paid(s.payee, s.artist)
    BY <1>3, <2>1 DEF CreateAsset, UpsertAsset, PayInv, Backed
  <2>4. s \in assets' BY <2>2
  <2>5. Schema!StoreAsset(s)
    BY <2>2, <2>3 DEF Schema!StoreAsset, Schema!MayRefer, Known, Paid
  <2> QED BY <2>4, <2>5 DEF Schema!Next
<1>4. CASE AddHint(c) /\ hints' # hints
  <2>1. PICK h : h = [asset |-> AssetID(c), call |-> c, n |-> Cardinality(HintsOf(c)) + 1]
    OBVIOUS
  <2>2. /\ hints' = hints \cup {h} /\ UNCHANGED <<artists, payees, assets>>
        /\ \E s \in assets : s.id = h.asset
    BY <1>4, <2>1 DEF AddHint, HintInv, Found
  <2>3. h \in hints' \ hints BY <1>4, <2>2
  <2>4. Schema!InsertHint(h) BY <2>2 DEF Schema!InsertHint
  <2> QED BY <2>3, <2>4 DEF Schema!Next
<1>5. CASE UNCHANGED tables BY <1>5 DEF Schema!vars
<1> QED
  BY <1>1, <1>2, <1>3, <1>4, <1>5
  DEF Serve, Fail, GetArtistByHandle, GetArtistByID, CreateArtist, GetPayee,
      ListPayeesByArtist, CreatePayee, CreateAsset, GetAsset, AddHint, UpsertAsset

\* Overlapping calls store only what a database with its foreign keys enforced
\* would have let them store.
THEOREM RefinesSchema == Spec => ImplementsSchema
<1>1. Init => Schema!Init BY DEF Init, Schema!Init
<1>2. TypeOK /\ PayInv /\ HintInv /\ [Next]_vars => [Schema!Next]_Schema!vars
  <2> SUFFICES ASSUME TypeOK, PayInv, HintInv, [Next]_vars PROVE [Schema!Next]_Schema!vars
    OBVIOUS
  <2>1. CASE UNCHANGED vars BY <2>1 DEF vars, Schema!vars
  <2>2. CASE Next BY <2>2, StepSchema DEF Next
  <2> QED BY <2>1, <2>2
<1> QED
  BY <1>1, <1>2, TypeCorrect, PayInvariant, HintInvariant, PTL DEF Spec, ImplementsSchema, Schema!Spec
=============================================================================
