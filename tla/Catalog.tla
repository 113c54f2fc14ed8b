------------------------------ MODULE Catalog ------------------------------
(***************************************************************************)
(* The catalog tables and the calls that fill them: POST /v1/artists,      *)
(* /v1/payees, /v1/assets, /v1/assets/{id}/providers, the bootstrap of an  *)
(* artist with its payee, and the upload whose publication upserts an      *)
(* asset.  Every service looks rows up, compares and inserts in separate   *)
(* statements; every element of Calls is one call, begun at any time, so   *)
(* all of them may overlap.  A call whose rows are stored but whose answer *)
(* is lost counts as answered.                                             *)
(*                                                                         *)
(* Nothing deletes from these tables.  PRAGMA foreign_keys is set on one   *)
(* connection of the pool only, so no action relies on a foreign key.      *)
(***************************************************************************)
EXTENDS Naturals, FiniteSets

CONSTANTS Calls, Req, None,
          MaxFailures   \* bound on failing calls, for TLC

(* A request names what the client chose; None leaves the choice to the    *)
(* service.  The hash and the random generator only have to be injective.  *)
Kinds == {"artist", "payee", "bootstrap", "asset", "hint", "upload"}

ASSUME RequestsAssumption ==
  /\ IsFiniteSet(Calls) /\ None \notin Calls /\ MaxFailures \in Nat
  /\ \A c \in Calls :
       /\ DOMAIN Req[c] = {"kind", "handle", "artist", "key", "payee", "fap", "url", "asset", "hints"}
       /\ Req[c].kind \in Kinds /\ Req[c].hints \in Nat
       /\ Req[c].kind \in {"upload", "asset"} => Req[c].payee # None
       /\ Req[c].kind = "upload" => Req[c].artist # None

VARIABLES
  artists,   \* rows [id, handle, key]
  payees,    \* rows [id, artist, fap, url]
  assets,    \* rows [id, artist, payee]
  hints,     \* rows [asset, call, n]
  pc,        \* the statement each call is at
  artist,    \* the artist each call has found
  answer,    \* its answer
  seen       \* history: the payees there were when a bootstrap started

vars == <<artists, payees, assets, hints, pc, artist, answer, seen>>
tables == <<artists, payees, assets, hints>>

\* The first statement of a call's service; a call at it has not begun.
First(c) ==
  CASE Req[c].kind = "artist" -> "insert artist"
    [] Req[c].kind \in {"payee", "bootstrap", "asset"} -> "handle"
    [] Req[c].kind = "hint" -> "hints"
    [] Req[c].kind = "upload" -> "artist id"

Init ==
  /\ artists = {} /\ payees = {} /\ assets = {} /\ hints = {}
  /\ pc = [c \in Calls |-> First(c)]
  /\ artist = [c \in Calls |-> None]
  /\ answer = [c \in Calls |-> "none"]
  /\ seen = [c \in Calls |-> {}]

-----------------------------------------------------------------------------
Default(chosen, otherwise) == IF chosen = None THEN otherwise ELSE chosen

\* Bootstrap derives ids from the handle, the other services draw them.
ArtistID(c) ==
  IF Req[c].kind = "bootstrap" THEN Default(Req[c].artist, <<"ar", Req[c].handle>>)
  ELSE <<"art", c>>
PubKey(c)  == Default(Req[c].key, <<"key", Req[c].handle>>)
PayeeID(c) ==
  IF Req[c].kind = "bootstrap" THEN Default(Req[c].payee, <<"pe", Req[c].handle, Req[c].fap>>)
  ELSE <<"pay", c>>
AssetID(c) == Default(Req[c].asset, <<"asset", c>>)

Goto(c, label) == pc' = [pc EXCEPT ![c] = label]

Answer(c, a) == /\ answer' = [answer EXCEPT ![c] = a]
                /\ Goto(c, "done")

\* A statement fails or the client goes away: what is stored stays.
Fail(c) ==
  /\ pc[c] # "done"
  /\ Cardinality({d \in Calls : answer[d] = "error"}) < MaxFailures
  /\ Answer(c, "error")
  /\ UNCHANGED <<tables, artist, seen>>

\* GetArtistByHandle; the handle belongs to the artist bootstrap would make,
\* or the call is refused.
GetArtistByHandle(c) ==
  /\ pc[c] = "handle"
  /\ \/ \E a \in artists :
          /\ a.handle = Req[c].handle
          /\ IF Req[c].kind = "bootstrap" /\ a.id # ArtistID(c)
               THEN Answer(c, "conflict") /\ UNCHANGED artist
               ELSE /\ artist' = [artist EXCEPT ![c] = a.id]
                    /\ Goto(c, CASE Req[c].kind = "payee" -> "insert payee"
                                 [] OTHER -> "payee")
                    /\ UNCHANGED answer
     \/ /\ \A a \in artists : a.handle # Req[c].handle
        /\ IF Req[c].kind = "bootstrap"
             THEN Goto(c, "artist id") /\ UNCHANGED answer
             ELSE Answer(c, "not found")
        /\ UNCHANGED artist
  /\ seen' = IF Req[c].kind = "bootstrap" THEN [seen EXCEPT ![c] = payees] ELSE seen
  /\ UNCHANGED tables

\* GetArtistByID of bootstrap (the handle may have appeared since) and upload.
GetArtistByID(c) ==
  /\ pc[c] = "artist id"
  /\ LET id == IF Req[c].kind = "upload" THEN Req[c].artist ELSE ArtistID(c) IN
     \/ \E a \in artists :
          /\ a.id = id
          /\ IF Req[c].kind = "bootstrap" /\ a.handle # Req[c].handle
               THEN Answer(c, "conflict") /\ UNCHANGED artist
               ELSE /\ artist' = [artist EXCEPT ![c] = id]
                    /\ Goto(c, "payee") /\ UNCHANGED answer
     \/ /\ \A a \in artists : a.id # id
        /\ IF Req[c].kind = "upload" THEN Answer(c, "not found")
           ELSE Goto(c, "insert artist") /\ UNCHANGED answer
        /\ UNCHANGED artist
  /\ UNCHANGED <<tables, seen>>

\* Mutant: artist_id is the only unique column.
CreateArtistAnyHandle(c) ==
  /\ pc[c] = "insert artist"
  /\ IF \E a \in artists : a.id = ArtistID(c)
       THEN Answer(c, "conflict") /\ UNCHANGED <<artists, artist>>
       ELSE /\ artists' = artists \cup
                 {[id |-> ArtistID(c), handle |-> Req[c].handle, key |-> PubKey(c)]}
            /\ artist' = [artist EXCEPT ![c] = ArtistID(c)]
            /\ IF Req[c].kind = "artist" THEN Answer(c, "ok")
               ELSE Goto(c, "payee") /\ UNCHANGED answer
  /\ UNCHANGED <<payees, assets, hints, seen>>

\* artist_id, handle and pubkey_hex are unique.
CreateArtist(c) ==
  /\ pc[c] = "insert artist"
  /\ IF \E a \in artists : \/ a.id = ArtistID(c)
                           \/ a.handle = Req[c].handle
                           \/ a.key = PubKey(c)
       THEN Answer(c, "conflict") /\ UNCHANGED <<artists, artist>>
       ELSE /\ artists' = artists \cup
                 {[id |-> ArtistID(c), handle |-> Req[c].handle, key |-> PubKey(c)]}
            /\ artist' = [artist EXCEPT ![c] = ArtistID(c)]
            /\ IF Req[c].kind = "artist" THEN Answer(c, "ok")
               ELSE Goto(c, "payee") /\ UNCHANGED answer
  /\ UNCHANGED <<payees, assets, hints, seen>>

-----------------------------------------------------------------------------
(* Payees.                                                                 *)

\* Mutant: a call accepts another artist's payee.
PayeeFitsAny(c, p) ==
  Req[c].kind = "bootstrap" => p.fap = Req[c].fap /\ p.url = Req[c].url

PayeeFits(c, p) ==
  /\ p.artist = artist[c]
  /\ Req[c].kind = "bootstrap" => p.fap = Req[c].fap /\ p.url = Req[c].url

\* GetPayee: an asset or upload names the payee of its artist, bootstrap
\* goes on when the id is free.
GetPayee(c) ==
  /\ pc[c] = "payee"
  /\ LET id == IF Req[c].kind = "bootstrap" THEN PayeeID(c) ELSE Req[c].payee IN
     \/ \E p \in payees :
          /\ p.id = id
          /\ \/ ~ PayeeFits(c, p) /\ Answer(c, "conflict")
             \/ PayeeFits(c, p) /\ Req[c].kind = "bootstrap" /\ Answer(c, "ok")
             \/ PayeeFits(c, p) /\ Req[c].kind = "asset" /\ Goto(c, "insert asset")
                                /\ UNCHANGED answer
             \/ PayeeFits(c, p) /\ Req[c].kind = "upload" /\ Goto(c, "publish")
                                /\ UNCHANGED answer
     \/ /\ \A p \in payees : p.id # id
        /\ IF Req[c].kind = "bootstrap" THEN Goto(c, "mapping") /\ UNCHANGED answer
           ELSE Answer(c, "not found")
  /\ UNCHANGED <<tables, artist, seen>>

\* Bootstrap reuses the artist's payee for the FAP payee, under its id only.
\* (When racing calls have stored two of them, which is older is left open.)
ListPayeesByArtist(c) ==
  /\ pc[c] = "mapping"
  /\ LET mapped == {p \in payees : p.artist = artist[c] /\ p.fap = Req[c].fap} IN
       IF mapped = {} THEN Goto(c, "insert payee") /\ UNCHANGED answer
       ELSE \E p \in mapped :
              Answer(c, IF p.id = PayeeID(c) /\ p.url = Req[c].url THEN "ok" ELSE "conflict")
  /\ UNCHANGED <<tables, artist, seen>>

CreatePayee(c) ==
  /\ pc[c] = "insert payee"
  /\ IF \E p \in payees : p.id = PayeeID(c)
       THEN Answer(c, "conflict") /\ UNCHANGED payees
       ELSE /\ payees' = payees \cup
                 {[id |-> PayeeID(c), artist |-> artist[c],
                    fap |-> Req[c].fap, url |-> Req[c].url]}
            /\ Answer(c, "ok")
  /\ UNCHANGED <<artists, assets, hints, artist, seen>>

-----------------------------------------------------------------------------
(* Assets and provider hints.                                              *)

CreateAsset(c) ==
  /\ pc[c] = "insert asset"
  /\ IF \E s \in assets : s.id = AssetID(c)
       THEN Answer(c, "conflict") /\ UNCHANGED assets
       ELSE /\ assets' = assets \cup
                 {[id |-> AssetID(c), artist |-> artist[c], payee |-> Req[c].payee]}
            /\ Goto(c, "hints") /\ UNCHANGED answer
  /\ UNCHANGED <<artists, payees, hints, artist, seen>>

HintsOf(c) == {h \in hints : h.call = c}
Wanted(c)  == IF Req[c].kind = "hint" THEN 1 ELSE Req[c].hints

\* Mutant: the call stops one hint early.
GetAssetShort(c) ==
  /\ pc[c] = "hints"
  /\ IF Cardinality(HintsOf(c)) + 1 >= Wanted(c) THEN Answer(c, "ok")
     ELSE IF \A s \in assets : s.id # AssetID(c) THEN Answer(c, "not found")
     ELSE Goto(c, "insert hint") /\ UNCHANGED answer
  /\ UNCHANGED <<tables, artist, seen>>

\* Mutant: the asset of a hint is not looked up.
GetAssetSkipped(c) ==
  /\ pc[c] = "hints"
  /\ IF Cardinality(HintsOf(c)) = Wanted(c) THEN Answer(c, "ok")
     ELSE Goto(c, "insert hint") /\ UNCHANGED answer
  /\ UNCHANGED <<tables, artist, seen>>

\* AddProviderHint, once for each hint of the request: the lookup of the asset ...
GetAsset(c) ==
  /\ pc[c] = "hints"
  /\ IF Cardinality(HintsOf(c)) = Wanted(c) THEN Answer(c, "ok")
     ELSE IF \A s \in assets : s.id # AssetID(c) THEN Answer(c, "not found")
     ELSE Goto(c, "insert hint") /\ UNCHANGED answer
  /\ UNCHANGED <<tables, artist, seen>>

\* ... and the INSERT, which no foreign key may guard.
AddHint(c) ==
  /\ pc[c] = "insert hint"
  /\ hints' = hints \cup {[asset |-> AssetID(c), call |-> c,
                           n |-> Cardinality(HintsOf(c)) + 1]}
  /\ Goto(c, "hints")
  /\ UNCHANGED <<artists, payees, assets, artist, answer, seen>>

\* Mutant: the upsert leaves payee_id as it was.
UpsertAssetKeepingPayee(c) ==
  /\ pc[c] = "publish"
  /\ LET before == {s \in assets : s.id = AssetID(c)} IN
       assets' = (assets \ before) \cup
         {[id |-> AssetID(c), artist |-> artist[c],
           payee |-> IF before = {} THEN Req[c].payee ELSE (CHOOSE s \in before : TRUE).payee]}
  /\ Answer(c, "ok")
  /\ UNCHANGED <<artists, payees, hints, artist, seen>>

\* An uploaded asset is published at any later time, over what is there.
UpsertAsset(c) ==
  /\ pc[c] = "publish"
  /\ assets' = {s \in assets : s.id # AssetID(c)} \cup
       {[id |-> AssetID(c), artist |-> artist[c], payee |-> Req[c].payee]}
  /\ Answer(c, "ok")
  /\ UNCHANGED <<artists, payees, hints, artist, seen>>

Serve(c) ==
  \/ Fail(c)
  \/ GetArtistByHandle(c) \/ GetArtistByID(c) \/ CreateArtist(c)
  \/ GetPayee(c) \/ ListPayeesByArtist(c) \/ CreatePayee(c)
  \/ CreateAsset(c) \/ GetAsset(c) \/ AddHint(c) \/ UpsertAsset(c)

Next == \E c \in Calls : Serve(c)

Spec == Init /\ [][Next]_vars

-----------------------------------------------------------------------------
(* Properties.                                                             *)

Labels == {"done", "handle", "artist id", "insert artist", "payee", "mapping",
           "insert payee", "insert asset", "hints", "insert hint", "publish"}

ArtistIDs == {ArtistID(c) : c \in Calls}
AssetIDs  == {AssetID(c) : c \in Calls}
Field(f)  == {Req[c][f] : c \in Calls}
ArtistRow == [id : ArtistIDs, handle : Field("handle"), key : {PubKey(c) : c \in Calls}]
PayeeRow  == [id : {PayeeID(c) : c \in Calls}, artist : ArtistIDs,
              fap : Field("fap"), url : Field("url")]
AssetRow  == [id : AssetIDs, artist : ArtistIDs, payee : Field("payee")]
HintRow   == [asset : AssetIDs, call : Calls, n : Nat]

TypeOK ==
  /\ artists \subseteq ArtistRow /\ payees \subseteq PayeeRow
  /\ assets \subseteq AssetRow /\ hints \subseteq HintRow
  /\ pc \in [Calls -> Labels]
  /\ artist \in [Calls -> ArtistIDs \cup {None}]
  /\ \A c \in Calls : pc[c] \in {"payee", "mapping", "insert payee", "insert asset", "publish"}
                       => artist[c] \in ArtistIDs
  /\ answer \in [Calls -> {"none", "ok", "conflict", "not found", "error"}]
  /\ seen \in [Calls -> SUBSET PayeeRow]

\* Without any foreign key, and with uploads published long after they were
\* checked and over assets others created, a published price is always paid
\* to the artist: the payee of an asset exists and belongs to the asset's
\* artist, and the artist of a payee exists.
PayeeOfArtist ==
  /\ \A s \in assets : \E p \in payees : p.id = s.payee /\ p.artist = s.artist
  /\ \A p \in payees : \E a \in artists : a.id = p.artist

\* Handles and ids identify artists whatever bootstraps and creations race:
\* two bootstraps of a handle that succeed speak of one artist, the only one
\* with this handle, and its payee is stored as requested.
BootstrapsAgree ==
  \A c \in Calls :
    (Req[c].kind = "bootstrap" /\ answer[c] = "ok") =>
      /\ \A a \in artists : a.handle = Req[c].handle <=> a.id = ArtistID(c)
      /\ \E p \in payees : /\ p.id = PayeeID(c) /\ p.artist = ArtistID(c)
                           /\ p.fap = Req[c].fap /\ p.url = Req[c].url

\* "Created or reused": a bootstrap creates no payee when the artist already
\* had one for the FAP payee as the bootstrap began.  (Two that overlap can
\* give the artist two.)
Mapped(c) == {p \in seen[c] : p.artist = ArtistID(c) /\ p.fap = Req[c].fap}
ReuseStep ==
  \A c \in Calls :
    (Req[c].kind = "bootstrap" /\ payees' # payees /\ pc'[c] # pc[c]) => Mapped(c) = {}
ReusesMapping == [][ReuseStep]_vars

\* An answered creation has all its hints; hints of calls that failed half
\* way stay, but never without their asset.
HintsComplete ==
  /\ \A h \in hints : \E s \in assets : s.id = h.asset
  /\ \A c \in Calls :
       (Req[c].kind \in {"asset", "hint"} /\ answer[c] = "ok") =>
         {h.n : h \in HintsOf(c)} = 1 .. Wanted(c)

\* Overlapping calls that look up, compare and insert in separate statements,
\* on connections without foreign keys, never store a row that a transaction
\* with all foreign keys would have refused.
Schema == INSTANCE CatalogSchema
ImplementsSchema == Schema!Spec
=============================================================================
