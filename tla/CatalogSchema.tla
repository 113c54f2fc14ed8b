--------------------------- MODULE CatalogSchema ---------------------------
(***************************************************************************)
(* The catalog tables as 001_init.sql declares them, in a database that    *)
(* enforces every foreign key in the statement itself, together with the   *)
(* rule of the services that a price is paid to the artist of the asset.   *)
(* Each action is one transaction that checks and stores one row; rows are *)
(* never deleted, and only an asset is ever written again.                 *)
(***************************************************************************)
VARIABLES
  artists,  \* rows [id, handle, key, ...]
  payees,   \* rows [id, artist, ...]
  assets,   \* rows [id, artist, payee, ...]
  hints     \* rows [asset, ...]

vars == <<artists, payees, assets, hints>>

Init == artists = {} /\ payees = {} /\ assets = {} /\ hints = {}

InsertArtist(a) ==
  /\ \A b \in artists : b.id # a.id /\ b.handle # a.handle /\ b.key # a.key
  /\ artists' = artists \cup {a}
  /\ UNCHANGED <<payees, assets, hints>>

InsertPayee(p) ==
  /\ \A q \in payees : q.id # p.id
  /\ \E a \in artists : a.id = p.artist
  /\ payees' = payees \cup {p}
  /\ UNCHANGED <<artists, assets, hints>>

\* The foreign keys of an asset, and whose payee it names.
MayRefer(s) ==
  /\ \E a \in artists : a.id = s.artist
  /\ \E p \in payees : p.id = s.payee /\ p.artist = s.artist

\* An INSERT of a new asset, or INSERT ... ON CONFLICT(asset_id) DO UPDATE.  One
\* action for both: since the upsert may overwrite any asset, what the primary key
\* would refuse an INSERT is no row that could not be stored.
StoreAsset(s) ==
  /\ MayRefer(s)
  /\ assets' = {t \in assets : t.id # s.id} \cup {s}
  /\ UNCHANGED <<artists, payees, hints>>

InsertHint(h) ==
  /\ \E s \in assets : s.id = h.asset
  /\ hints' = hints \cup {h}
  /\ UNCHANGED <<artists, payees, assets>>

Next ==
  \/ \E a \in artists' \ artists : InsertArtist(a)
  \/ \E p \in payees' \ payees : InsertPayee(p)
  \/ \E s \in assets' : StoreAsset(s)
  \/ \E h \in hints' \ hints : InsertHint(h)

Spec == Init /\ [][Next]_vars
=============================================================================
