------------------------------- MODULE Browse -------------------------------
(***************************************************************************)
(* The lists of the catalog: GET /v1/browse/artists, GET /v1/browse/new    *)
(* and GET /v1/artists/{handle}/assets.  A request reads the artists, the  *)
(* moderation state of each, the assets of each and the state of each of   *)
(* these, one statement after the other and without a transaction, while   *)
(* artists are created, assets published, also under another artist, and   *)
(* targets evaluated.                                                      *)
(*                                                                         *)
(* Lists are sorted at the end; the order in which artists and assets are  *)
(* looked at is left open.  Badges, payees and hints are read for what an  *)
(* entry shows and left out: payees and hints are never deleted.           *)
(***************************************************************************)
EXTENDS Naturals, Sequences

CONSTANTS
  Artists, Assets, Requests,
  MaxChanges, \* bound: statements of others
  None

ASSUME NamesAssumption ==
  /\ Artists \cap Assets = {}
  /\ None \notin Artists \cup Assets
  /\ {"artists", "new"} \cap (Artists \cup {None}) = {}
ASSUME ChangesAssumption == MaxChanges \in Nat

VARIABLES
  artists,  \* the artists table
  owner,    \* assets.artist_id, None without a row
  state,    \* moderation_state.state of artists and assets
  changes,
  pc,
  route,    \* of each request: "artists", "new", or the artist of the handle
  todo,     \* artists it has still to build
  shown,    \* artists it shows, those whose assets it has listed taken away
  at, rows, \* the artist whose assets it looks at, the assets it has still to
  answer,   \* the assets it lists, each with the artist it was found under
  standing, \* history: what was there when it began, and has neither moved nor
            \* been hidden since
  opened    \* history: what was not hidden at some moment since it began

catalog == <<artists, owner, state, changes>>
request == <<pc, route, todo, shown, at, rows, answer>>
history == <<standing, opened>>
vars == <<catalog, request, history>>

Targets == Artists \cup Assets
States(t) == IF t \in Artists THEN {"allow", "warn", "delist"} ELSE {"allow", "warn", "quarantine"}

\* A catalog as earlier calls have left it.
Init ==
  /\ artists \in SUBSET Artists
  /\ owner \in [Assets -> artists \cup {None}]
  /\ state \in {s \in [Targets -> {"allow", "warn", "quarantine", "delist"}] :
                  \A t \in Targets : s[t] \in States(t)}
  /\ changes = 0
  /\ pc = [r \in Requests |-> "idle"]
  /\ route = [r \in Requests |-> None]
  /\ todo = [r \in Requests |-> {}]
  /\ shown = [r \in Requests |-> {}]
  /\ at = [r \in Requests |-> None]
  /\ rows = [r \in Requests |-> {}]
  /\ answer = [r \in Requests |-> <<>>]
  /\ standing = [r \in Requests |-> {}]
  /\ opened = [r \in Requests |-> {}]

Hides(t) == state[t] \in (IF t \in Artists THEN {"delist"} ELSE {"delist", "quarantine"})
Visible == {t \in Targets : ~Hides(t)}
Present == artists \cup {x \in Assets : owner[x] # None}

-----------------------------------------------------------------------------
(* The handlers and the services they call.                                *)

Begin(r) ==
  /\ pc[r] = "idle"
  /\ pc' = [pc EXCEPT ![r] = "busy"]
  /\ standing' = [standing EXCEPT ![r] = Present \cap Visible]
  /\ opened' = [opened EXCEPT ![r] = Visible]
  /\ UNCHANGED <<catalog, at, rows, answer>>

ListArtists(r) ==
  /\ Begin(r)
  /\ \E p \in {"artists", "new"} : route' = [route EXCEPT ![r] = p]
  /\ todo' = [todo EXCEPT ![r] = artists]
  /\ UNCHANGED shown

\* The moderation of the artist is not asked for.
GetArtistByHandle(r) ==
  /\ Begin(r)
  /\ \E a \in artists :
       /\ route' = [route EXCEPT ![r] = a]
       /\ shown' = [shown EXCEPT ![r] = {a}]
  /\ UNCHANGED todo

\* Mutant: an artist is left out in the state that hides an asset.
BuildArtistQuarantined(r) ==
  /\ pc[r] = "busy"
  /\ \E a \in todo[r] :
       /\ todo' = [todo EXCEPT ![r] = @ \ {a}]
       /\ shown' = [shown EXCEPT ![r] = IF state[a] = "quarantine" THEN @ ELSE @ \cup {a}]
  /\ UNCHANGED <<catalog, pc, route, at, rows, answer, history>>

BuildArtist(r) ==
  /\ pc[r] = "busy"
  /\ \E a \in todo[r] :
       /\ todo' = [todo EXCEPT ![r] = @ \ {a}]
       /\ shown' = [shown EXCEPT ![r] = IF Hides(a) THEN @ ELSE @ \cup {a}]
  /\ UNCHANGED <<catalog, pc, route, at, rows, answer, history>>

ListAssetsByArtist(r) ==
  /\ pc[r] = "busy" /\ todo[r] = {} /\ rows[r] = {} /\ route[r] # "artists"
  /\ \E a \in shown[r] :
       /\ at' = [at EXCEPT ![r] = a]
       /\ shown' = [shown EXCEPT ![r] = @ \ {a}]
       /\ rows' = [rows EXCEPT ![r] = {x \in Assets : owner[x] = a}]
  /\ UNCHANGED <<catalog, pc, route, todo, answer, history>>

\* Mutant: the loop ends at the first asset that is hidden.
ReadAssetUntilHidden(r) ==
  /\ pc[r] = "busy"
  /\ \E x \in rows[r] :
       /\ rows' = [rows EXCEPT ![r] = IF Hides(x) THEN {} ELSE @ \ {x}]
       /\ answer' = [answer EXCEPT ![r] =
                       IF Hides(x) THEN @ ELSE Append(@, [asset |-> x, artist |-> at[r]])]
  /\ UNCHANGED <<catalog, pc, route, todo, shown, at, history>>

ReadAsset(r) ==
  /\ pc[r] = "busy"
  /\ \E x \in rows[r] :
       /\ rows' = [rows EXCEPT ![r] = @ \ {x}]
       /\ answer' = [answer EXCEPT ![r] =
                       IF Hides(x) THEN @ ELSE Append(@, [asset |-> x, artist |-> at[r]])]
  /\ UNCHANGED <<catalog, pc, route, todo, shown, at, history>>

Answer(r) ==
  /\ pc[r] = "busy" /\ todo[r] = {} /\ rows[r] = {}
  /\ route[r] = "artists" \/ shown[r] = {}
  /\ pc' = [pc EXCEPT ![r] = "answered"]
  /\ UNCHANGED <<catalog, route, todo, shown, at, rows, answer, history>>

\* The client has the answer, or a statement has failed and it has an error.
Leave(r) ==
  /\ pc[r] # "idle"
  /\ pc' = [pc EXCEPT ![r] = "idle"]
  /\ route' = [route EXCEPT ![r] = None]
  /\ todo' = [todo EXCEPT ![r] = {}]
  /\ shown' = [shown EXCEPT ![r] = {}]
  /\ at' = [at EXCEPT ![r] = None]
  /\ rows' = [rows EXCEPT ![r] = {}]
  /\ answer' = [answer EXCEPT ![r] = <<>>]
  /\ standing' = [standing EXCEPT ![r] = {}]
  /\ opened' = [opened EXCEPT ![r] = {}]
  /\ UNCHANGED catalog

Handle(r) ==
  \/ ListArtists(r) \/ GetArtistByHandle(r) \/ BuildArtist(r)
  \/ ListAssetsByArtist(r) \/ ReadAsset(r) \/ Answer(r) \/ Leave(r)

-----------------------------------------------------------------------------
(* The statements of others that a list can see.                           *)

Change ==
  /\ changes < MaxChanges
  /\ changes' = changes + 1
  /\ standing' = [r \in Requests |->
                    {t \in standing[r] \cap Visible' : t \in Assets => owner'[t] = owner[t]}]
  /\ opened' = [r \in Requests |-> IF pc[r] = "idle" THEN {} ELSE opened[r] \cup Visible']
  /\ UNCHANGED request

CreateArtist ==
  /\ \E a \in Artists \ artists : artists' = artists \cup {a}
  /\ UNCHANGED <<owner, state>>
  /\ Change

\* An asset is created, or the publication of an upload stores it anew.
PublishAsset ==
  /\ \E x \in Assets, a \in artists :
       /\ owner[x] # a
       /\ owner' = [owner EXCEPT ![x] = a]
  /\ UNCHANGED <<artists, state>>
  /\ Change

\* The evaluation of a report: Moderation's UpsertState.
UpsertState ==
  /\ \E t \in Targets, s \in {"allow", "warn", "quarantine", "delist"} :
       /\ s \in States(t) \ {state[t]}
       /\ state' = [state EXCEPT ![t] = s]
  /\ UNCHANGED <<artists, owner>>
  /\ Change

Next ==
  \/ \E r \in Requests : Handle(r)
  \/ CreateArtist \/ PublishAsset \/ UpsertState

Spec == Init /\ [][Next]_vars

-----------------------------------------------------------------------------
(* Properties.                                                             *)

Lists == Seq([asset : Assets, artist : artists])

TypeOK ==
  /\ artists \subseteq Artists
  /\ owner \in [Assets -> artists \cup {None}]
  /\ state \in [Targets -> {"allow", "warn", "quarantine", "delist"}]
  /\ changes \in 0..MaxChanges
  /\ pc \in [Requests -> {"idle", "busy", "answered"}]
  /\ route \in [Requests -> artists \cup {"artists", "new", None}]
  /\ todo \in [Requests -> SUBSET artists] /\ shown \in [Requests -> SUBSET artists]
  /\ at \in [Requests -> artists \cup {None}]
  /\ rows \in [Requests -> SUBSET Assets]
  /\ answer \in [Requests -> Lists]
  /\ standing \in [Requests -> SUBSET Targets] /\ opened \in [Requests -> SUBSET Targets]
  /\ \A r \in Requests : /\ pc[r] # "busy" => todo[r] = {} /\ rows[r] = {}
                         /\ rows[r] # {} => at[r] # None

\* Whatever is published, created and evaluated while a list is read: it holds
\* every artist that was there and visible all the time, and holds exactly once
\* every asset that was, and stayed with one of the artists that it covers.
StandingListedOnce ==
  \A r \in Requests : pc[r] = "answered" =>
    /\ route[r] = "artists" => standing[r] \cap Artists \subseteq shown[r]
    /\ \A x \in standing[r] \cap Assets :
         (\/ owner[x] = route[r]
          \/ route[r] = "new" /\ owner[x] \in standing[r]) =>
         \E i \in DOMAIN answer[r] :
           \A j \in DOMAIN answer[r] : answer[r][j].asset = x <=> j = i

\* What was hidden all the time is in no list, nor are, in the list of new
\* assets, the assets found under an artist that was; a list of one artist's
\* assets does not ask for the artist's state.
HiddenNotListed ==
  \A r \in Requests : pc[r] = "answered" =>
    /\ route[r] = "artists" => shown[r] \subseteq opened[r]
    /\ \A i \in DOMAIN answer[r] :
         /\ answer[r][i].asset \in opened[r]
         /\ route[r] = "new" => answer[r][i].artist \in opened[r]
=============================================================================
