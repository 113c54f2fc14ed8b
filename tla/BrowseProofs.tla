---------------------------- MODULE BrowseProofs ----------------------------
(***************************************************************************)
(* Proofs about Browse, for any artists, assets and requests and any       *)
(* number of changes.                                                      *)
(***************************************************************************)
EXTENDS Browse, SequenceTheorems, TLAPS

\* An asset that a list covers: it stayed with the artist of the handle, or with
\* one that was visible all the time.
Covered(r, x) ==
  \/ owner[x] = route[r]
  \/ route[r] = "new" /\ owner[x] \in standing[r]

\* Where a list is with an asset: before its artist, at its artist, past it.
Ahead(r, x) ==
  /\ owner[x] \in todo[r] \cup shown[r]
  /\ x \notin rows[r]
  /\ \A i \in DOMAIN answer[r] : answer[r][i].asset # x
InRows(r, x) ==
  /\ owner[x] \notin todo[r] \cup shown[r]
  /\ x \in rows[r]
  /\ \A i \in DOMAIN answer[r] : answer[r][i].asset # x
Listed(r, x) ==
  /\ owner[x] \notin todo[r] \cup shown[r]
  /\ x \notin rows[r]
  /\ \E i \in DOMAIN answer[r] : \A j \in DOMAIN answer[r] : answer[r][j].asset = x <=> j = i

\* What a list has seen was visible when it saw it, and what stands is visible.
Seen(r) ==
  /\ Visible \subseteq opened[r]
  /\ standing[r] \subseteq Present \cap Visible
  /\ route[r] \notin {"artists", "new"} => todo[r] = {}
  /\ route[r] \in {"artists", "new"} => shown[r] \subseteq opened[r]
  /\ route[r] = "new" /\ rows[r] # {} => at[r] \in opened[r]
  /\ \A i \in DOMAIN answer[r] :
       /\ answer[r][i].asset \in opened[r]
       /\ route[r] = "new" => answer[r][i].artist \in opened[r]

\* What stands is shown or not yet looked at.
Kept(r) ==
  /\ route[r] = "artists" => standing[r] \cap Artists \subseteq todo[r] \cup shown[r]
  /\ \A x \in standing[r] \cap Assets :
       Covered(r, x) => Ahead(r, x) \/ InRows(r, x) \/ Listed(r, x)

RequestInv(r) ==
  /\ pc[r] = "idle" => answer[r] = <<>> /\ shown[r] = {} /\ standing[r] = {}
  /\ pc[r] = "answered" => route[r] = "artists" \/ shown[r] = {}
  /\ pc[r] # "idle" => Seen(r) /\ Kept(r)

IInv == TypeOK /\ \A r \in Requests : RequestInv(r)

-----------------------------------------------------------------------------
(* Types.                                                                  *)

LEMMA InitInv == Init => IInv
<1> USE NamesAssumption, ChangesAssumption
<1> SUFFICES ASSUME Init PROVE IInv OBVIOUS
<1>1. TypeOK
  <2>1. <<>> \in Lists BY DEF Lists
  <2> QED BY <2>1 DEF Init, TypeOK
<1>2. \A r \in Requests : RequestInv(r) BY DEF Init, RequestInv
<1> QED BY <1>1, <1>2 DEF IInv

\* A request's step changes its own variables only.
Same(q) ==
  /\ pc'[q] = pc[q] /\ route'[q] = route[q] /\ todo'[q] = todo[q] /\ shown'[q] = shown[q]
  /\ at'[q] = at[q] /\ rows'[q] = rows[q] /\ answer'[q] = answer[q]
  /\ standing'[q] = standing[q] /\ opened'[q] = opened[q]
Others(r) ==
  /\ UNCHANGED catalog
  /\ \A q \in Requests \ {r} : Same(q)

LEMMA HandleOthers ==
  ASSUME TypeOK, NEW r \in Requests, Handle(r)
  PROVE  Others(r)
<1>1. CASE ListArtists(r) BY <1>1 DEF ListArtists, Begin, Others, Same, TypeOK, catalog
<1>2. CASE GetArtistByHandle(r) BY <1>2 DEF GetArtistByHandle, Begin, Others, Same, TypeOK, catalog
<1>3. CASE BuildArtist(r) BY <1>3 DEF BuildArtist, Others, Same, TypeOK, catalog, history
<1>4. CASE ListAssetsByArtist(r) BY <1>4 DEF ListAssetsByArtist, Others, Same, TypeOK, catalog, history
<1>5. CASE ReadAsset(r) BY <1>5 DEF ReadAsset, Others, Same, TypeOK, catalog, history
<1>6. CASE Answer(r) BY <1>6 DEF Answer, Others, Same, TypeOK, catalog, history
<1>7. CASE Leave(r) BY <1>7 DEF Leave, Others, Same, TypeOK, catalog
<1> QED BY <1>1, <1>2, <1>3, <1>4, <1>5, <1>6, <1>7 DEF Handle

LEMMA HandleType ==
  ASSUME TypeOK, NEW r \in Requests, Handle(r)
  PROVE  TypeOK'
<1> USE NamesAssumption
<1>0. UNCHANGED <<artists, owner, state, changes>>
  BY HandleOthers DEF Others, catalog
<1>l. Lists' = Lists BY <1>0 DEF Lists
<1>v. Visible \subseteq Targets /\ Present \subseteq Targets
  BY DEF Visible, Present, Targets, TypeOK
<1>b. ASSUME Begin(r)
      PROVE  /\ pc' \in [Requests -> {"idle", "busy", "answered"}]
             /\ standing' \in [Requests -> SUBSET Targets]
             /\ opened' \in [Requests -> SUBSET Targets]
             /\ UNCHANGED <<at, rows, answer>>
             /\ pc[r] = "idle" /\ pc' = [pc EXCEPT ![r] = "busy"]
  BY <1>b, <1>v DEF Begin, TypeOK
<1>1. CASE ListArtists(r)
  <2>1. /\ route' \in [Requests -> artists \cup {"artists", "new", None}]
        /\ todo' \in [Requests -> SUBSET artists]
        /\ todo' = [todo EXCEPT ![r] = artists] /\ UNCHANGED shown
    BY <1>1 DEF ListArtists, TypeOK
  <2>2. Begin(r) BY <1>1 DEF ListArtists
  <2>3. \A q \in Requests : pc'[q] # "busy" => todo'[q] = {} /\ rows'[q] = {}
    BY <1>b, <2>1, <2>2 DEF TypeOK
  <2> QED BY <1>0, <1>l, <1>b, <2>1, <2>2, <2>3 DEF TypeOK
<1>2. CASE GetArtistByHandle(r)
  <2>1. /\ route' \in [Requests -> artists \cup {"artists", "new", None}]
        /\ shown' \in [Requests -> SUBSET artists] /\ UNCHANGED todo
    BY <1>2 DEF GetArtistByHandle, TypeOK
  <2>2. Begin(r) BY <1>2 DEF GetArtistByHandle
  <2>3. \A q \in Requests : pc'[q] # "busy" => todo'[q] = {} /\ rows'[q] = {}
    BY <1>b, <2>1, <2>2 DEF TypeOK
  <2> QED BY <1>0, <1>l, <1>b, <2>1, <2>2, <2>3 DEF TypeOK
<1>3. CASE BuildArtist(r) BY <1>0, <1>l, <1>3 DEF BuildArtist, TypeOK, history
<1>4. CASE ListAssetsByArtist(r)
  <2>1. PICK a \in shown[r] : /\ at' = [at EXCEPT ![r] = a]
                              /\ shown' = [shown EXCEPT ![r] = @ \ {a}]
    BY <1>4 DEF ListAssetsByArtist
  <2>2. a \in artists /\ a # None BY DEF TypeOK
  <2> QED BY <1>0, <1>l, <1>4, <2>1, <2>2 DEF ListAssetsByArtist, TypeOK, history
<1>5. CASE ReadAsset(r)
  <2>1. PICK x \in rows[r] :
          /\ rows' = [rows EXCEPT ![r] = @ \ {x}]
          /\ answer' = [answer EXCEPT ![r] =
                          IF Hides(x) THEN @ ELSE Append(@, [asset |-> x, artist |-> at[r]])]
    BY <1>5 DEF ReadAsset
  <2>2. x \in Assets /\ at[r] \in artists
    <3>1. x \in Assets /\ rows[r] # {} BY <2>1 DEF TypeOK
    <3>2. at[r] \in artists \cup {None} /\ (rows[r] # {} => at[r] # None) BY DEF TypeOK
    <3> QED BY <3>1, <3>2
  <2>3. answer' \in [Requests -> Lists]
    <3>1. answer[r] \in Lists BY DEF TypeOK
    <3>2. Append(answer[r], [asset |-> x, artist |-> at[r]]) \in Lists
      BY <2>2, <3>1 DEF Lists
    <3> QED BY <2>1, <3>1, <3>2 DEF TypeOK
  <2> QED BY <1>0, <1>l, <1>5, <2>1, <2>3 DEF ReadAsset, TypeOK, history
<1>6. CASE Answer(r) BY <1>0, <1>l, <1>6 DEF Answer, TypeOK, history
<1>7. CASE Leave(r)
  <2>1. <<>> \in Lists BY DEF Lists
  <2> QED BY <1>0, <1>l, <1>7, <2>1 DEF Leave, TypeOK
<1> QED BY <1>1, <1>2, <1>3, <1>4, <1>5, <1>6, <1>7 DEF Handle

LEMMA ChangeType ==
  ASSUME TypeOK, CreateArtist \/ PublishAsset \/ UpsertState
  PROVE  TypeOK'
<1> USE NamesAssumption, ChangesAssumption
<1>1. Change BY DEF CreateArtist, PublishAsset, UpsertState
<1>2. /\ artists \subseteq artists' /\ artists' \subseteq Artists
      /\ owner' \in [Assets -> artists' \cup {None}]
  BY DEF CreateArtist, PublishAsset, UpsertState, TypeOK
<1>3. state' \in [Targets -> {"allow", "warn", "quarantine", "delist"}]
  BY DEF CreateArtist, PublishAsset, UpsertState, TypeOK
<1>4. changes' \in 0..MaxChanges BY <1>1 DEF Change, TypeOK
<1>5. /\ standing' \in [Requests -> SUBSET Targets]
      /\ opened' \in [Requests -> SUBSET Targets]
  BY <1>1 DEF Change, TypeOK, Visible
<1>6. UNCHANGED <<pc, route, todo, shown, at, rows, answer>> BY <1>1 DEF Change, request
<1>7. Lists \subseteq Lists'
  <2> DEFINE Old == [asset : Assets, artist : artists]
             New == [asset : Assets, artist : artists']
  <2>1. Old \subseteq New BY <1>2
  <2> HIDE DEF Old, New
  <2>2. Seq(Old) \subseteq Seq(New) BY <2>1
  <2> QED BY <2>2 DEF Lists, Old, New
<1>8. answer' \in [Requests -> Lists'] BY <1>6, <1>7 DEF TypeOK
<1> QED BY <1>2, <1>3, <1>4, <1>5, <1>6, <1>8 DEF TypeOK

-----------------------------------------------------------------------------
(* A request's own steps.                                                  *)

LEMMA SameCatalog ==
  ASSUME UNCHANGED catalog
  PROVE  /\ UNCHANGED <<artists, owner, state>>
         /\ Visible' = Visible /\ Present' = Present
         /\ \A t : Hides(t)' = Hides(t)
BY DEF catalog, Visible, Present, Hides, Targets

LEMMA SameKeeps ==
  ASSUME UNCHANGED catalog, NEW q \in Requests, Same(q), RequestInv(q)
  PROVE  RequestInv(q)'
<1>1. /\ UNCHANGED owner /\ Visible' = Visible /\ Present' = Present
  BY SameCatalog
<1>2. Seen(q)' <=> Seen(q) BY <1>1 DEF Seen, Same
<1>3. Kept(q)' <=> Kept(q) BY <1>1 DEF Kept, Covered, Ahead, InRows, Listed, Same
<1> QED BY <1>2, <1>3 DEF RequestInv, Same

LEMMA BeginKeeps ==
  ASSUME IInv, NEW r \in Requests, ListArtists(r) \/ GetArtistByHandle(r)
  PROVE  RequestInv(r)'
<1> USE NamesAssumption
<1>1. Begin(r) BY DEF ListArtists, GetArtistByHandle
<1>2. /\ UNCHANGED <<artists, owner>> /\ Visible' = Visible /\ Present' = Present
  BY <1>1, SameCatalog DEF Begin
<1>3. /\ pc[r] = "idle" /\ pc'[r] = "busy"
      /\ standing'[r] = Present \cap Visible /\ opened'[r] = Visible
      /\ rows'[r] = {} /\ answer'[r] = <<>>
      /\ todo[r] = {} /\ shown[r] = {}
  BY <1>1 DEF Begin, IInv, TypeOK, RequestInv
<1>4. \/ route'[r] \in {"artists", "new"} /\ todo'[r] = artists /\ shown'[r] = {}
      \/ route'[r] \in artists /\ todo'[r] = {} /\ shown'[r] = {route'[r]}
  BY <1>3 DEF ListArtists, GetArtistByHandle, IInv, TypeOK
<1>5. artists \subseteq Artists /\ owner \in [Assets -> artists \cup {None}]
  BY DEF IInv, TypeOK
<1>6. Seen(r)' BY <1>2, <1>3, <1>4, <1>5 DEF Seen
<1>7. Kept(r)'
  <2>1. standing'[r] \cap Artists \subseteq artists BY <1>3, <1>5 DEF Present
  <2>2. ASSUME NEW x \in standing'[r] \cap Assets, Covered(r, x)'
        PROVE  Ahead(r, x)'
    <3>1. owner'[x] = owner[x] /\ owner[x] \in artists
      BY <1>2, <1>3, <1>5 DEF Present
    <3>2. owner[x] \in todo'[r] \cup shown'[r]
      BY <1>4, <1>5, <2>2, <3>1 DEF Covered
    <3> QED BY <1>3, <3>1, <3>2 DEF Ahead
  <2>3. route'[r] = "artists" => standing'[r] \cap Artists \subseteq todo'[r] \cup shown'[r]
    BY <1>4, <1>5, <2>1
  <2> QED BY <2>2, <2>3 DEF Kept
<1> QED BY <1>3, <1>6, <1>7 DEF RequestInv

LEMMA BuildKeeps ==
  ASSUME IInv, NEW r \in Requests, BuildArtist(r)
  PROVE  RequestInv(r)'
<1> USE NamesAssumption
<1>1. PICK a \in todo[r] :
        /\ todo' = [todo EXCEPT ![r] = @ \ {a}]
        /\ shown' = [shown EXCEPT ![r] = IF Hides(a) THEN @ ELSE @ \cup {a}]
  BY DEF BuildArtist
<1>2. /\ UNCHANGED <<owner, pc, route, at, rows, answer, standing, opened>>
      /\ Visible' = Visible /\ Present' = Present /\ pc[r] = "busy"
  BY SameCatalog DEF BuildArtist, history
<1>3. /\ todo'[r] = todo[r] \ {a}
      /\ shown'[r] = IF Hides(a) THEN shown[r] ELSE shown[r] \cup {a}
  BY <1>1 DEF IInv, TypeOK
<1>4. Seen(r) /\ Kept(r) BY <1>2 DEF IInv, RequestInv
<1>5. a \in Artists /\ (a \in Visible <=> ~Hides(a)) BY <1>1 DEF IInv, TypeOK, Visible, Targets
<1>6. Seen(r)' BY <1>2, <1>3, <1>4, <1>5 DEF Seen
<1>7. Kept(r)'
  <2>1. a \in standing[r] => ~Hides(a) BY <1>4, <1>5 DEF Seen
  <2>2. ASSUME NEW x \in standing[r] \cap Assets, Covered(r, x)
        PROVE  Ahead(r, x)' \/ InRows(r, x)' \/ Listed(r, x)'
    <3>1. Ahead(r, x) \/ InRows(r, x) \/ Listed(r, x) BY <1>4, <2>2 DEF Kept
    <3>2. owner[x] = a => ~Hides(a)
      BY <1>1, <1>4, <1>5, <2>1, <2>2 DEF Covered, Seen
    <3>3. owner[x] \in todo[r] \cup shown[r] <=> owner[x] \in todo'[r] \cup shown'[r]
      BY <1>1, <1>3, <3>2
    <3> QED BY <1>2, <3>1, <3>3 DEF Ahead, InRows, Listed
  <2> QED BY <1>2, <1>3, <1>4, <2>1, <2>2 DEF Kept, Covered
<1> QED BY <1>2, <1>6, <1>7 DEF RequestInv

LEMMA ListAssetsKeeps ==
  ASSUME IInv, NEW r \in Requests, ListAssetsByArtist(r)
  PROVE  RequestInv(r)'
<1> USE NamesAssumption
<1>1. PICK a \in shown[r] :
        /\ at' = [at EXCEPT ![r] = a]
        /\ shown' = [shown EXCEPT ![r] = @ \ {a}]
        /\ rows' = [rows EXCEPT ![r] = {x \in Assets : owner[x] = a}]
  BY DEF ListAssetsByArtist
<1>2. /\ UNCHANGED <<owner, pc, route, todo, answer, standing, opened>>
      /\ Visible' = Visible /\ Present' = Present
      /\ pc[r] = "busy" /\ todo[r] = {} /\ rows[r] = {} /\ route[r] # "artists"
  BY SameCatalog DEF ListAssetsByArtist, history
<1>3. /\ at'[r] = a /\ shown'[r] = shown[r] \ {a}
      /\ rows'[r] = {x \in Assets : owner[x] = a}
  BY <1>1 DEF IInv, TypeOK
<1>4. Seen(r) /\ Kept(r) BY <1>2 DEF IInv, RequestInv
<1>5. Seen(r)' BY <1>1, <1>2, <1>3, <1>4 DEF Seen
<1>6. Kept(r)'
  <2>1. ASSUME NEW x \in standing[r] \cap Assets, Covered(r, x)
        PROVE  Ahead(r, x)' \/ InRows(r, x)' \/ Listed(r, x)'
    <3>1. Ahead(r, x) \/ Listed(r, x) BY <1>2, <1>4, <2>1 DEF Kept, InRows
    <3>2. CASE owner[x] = a
      <4>1. Ahead(r, x) BY <1>1, <3>1, <3>2 DEF Listed
      <4> QED BY <1>2, <1>3, <3>2, <4>1 DEF Ahead, InRows
    <3>3. CASE owner[x] # a
      BY <1>2, <1>3, <3>1, <3>3 DEF Ahead, Listed
    <3> QED BY <3>2, <3>3
  <2> QED BY <1>2, <2>1 DEF Kept, Covered
<1> QED BY <1>2, <1>5, <1>6 DEF RequestInv

LEMMA ReadAssetKeeps ==
  ASSUME IInv, NEW r \in Requests, ReadAsset(r)
  PROVE  RequestInv(r)'
<1> USE NamesAssumption
<1>1. PICK y \in rows[r] :
        /\ rows' = [rows EXCEPT ![r] = @ \ {y}]
        /\ answer' = [answer EXCEPT ![r] =
                        IF Hides(y) THEN @ ELSE Append(@, [asset |-> y, artist |-> at[r]])]
  BY DEF ReadAsset
<1>2. /\ UNCHANGED <<owner, pc, route, todo, shown, at, standing, opened>>
      /\ Visible' = Visible /\ Present' = Present /\ pc[r] = "busy"
  BY SameCatalog DEF ReadAsset, history
<1>3. /\ y \in Assets /\ rows'[r] = rows[r] \ {y} /\ rows[r] # {}
      /\ answer[r] \in Seq([asset : Assets, artist : artists])
      /\ at[r] \in artists
  BY <1>1 DEF IInv, TypeOK, Lists
<1>4. answer'[r] = IF Hides(y) THEN answer[r]
                   ELSE Append(answer[r], [asset |-> y, artist |-> at[r]])
  BY <1>1 DEF IInv, TypeOK
<1>5. Seen(r) /\ Kept(r) BY <1>2 DEF IInv, RequestInv
<1>6. y \in Visible <=> ~Hides(y) BY <1>3 DEF Visible, Targets
<1>7. CASE Hides(y)
  <2>1. answer'[r] = answer[r] BY <1>4, <1>7
  <2>2. Seen(r)' BY <1>2, <1>3, <1>5, <2>1 DEF Seen
  <2>3. Kept(r)'
    <3>1. y \notin standing[r] BY <1>5, <1>6, <1>7 DEF Seen
    <3>2. ASSUME NEW x \in standing[r] \cap Assets, Covered(r, x)
          PROVE  Ahead(r, x)' \/ InRows(r, x)' \/ Listed(r, x)'
      <4>1. x # y /\ (Ahead(r, x) \/ InRows(r, x) \/ Listed(r, x))
        BY <1>5, <3>1, <3>2 DEF Kept
      <4> QED BY <1>2, <1>3, <2>1, <4>1 DEF Ahead, InRows, Listed
    <3> QED BY <1>2, <1>5, <3>2 DEF Kept, Covered
  <2> QED BY <1>2, <2>2, <2>3 DEF RequestInv
<1>8. CASE ~Hides(y)
  <2> DEFINE n == Len(answer[r])
  <2>1. /\ n \in Nat /\ DOMAIN answer[r] = 1..n /\ DOMAIN answer'[r] = 1..(n + 1)
        /\ \A i \in 1..n : answer'[r][i] = answer[r][i]
        /\ answer'[r][n + 1] = [asset |-> y, artist |-> at[r]]
    BY <1>3, <1>4, <1>8
  <2>2. Seen(r)'
    <3>1. ASSUME NEW i \in DOMAIN answer'[r]
          PROVE  /\ answer'[r][i].asset \in opened[r]
                 /\ route[r] = "new" => answer'[r][i].artist \in opened[r]
      <4>1. CASE i \in 1..n BY <1>5, <2>1, <4>1 DEF Seen
      <4>2. CASE i = n + 1
        <5>1. answer'[r][i].asset = y /\ answer'[r][i].artist = at[r] BY <2>1, <4>2
        <5> QED BY <1>3, <1>5, <1>6, <1>8, <5>1 DEF Seen
      <4> QED BY <2>1, <3>1, <4>1, <4>2
    <3> QED BY <1>2, <1>3, <1>5, <3>1 DEF Seen
  <2>3. Kept(r)'
    <3>1. ASSUME NEW x \in standing[r] \cap Assets, Covered(r, x)
          PROVE  Ahead(r, x)' \/ InRows(r, x)' \/ Listed(r, x)'
      <4>1. Ahead(r, x) \/ InRows(r, x) \/ Listed(r, x) BY <1>5, <3>1 DEF Kept
      <4>2. answer'[r][n + 1].asset = y BY <2>1
      <4>3. CASE x = y
        <5>1. InRows(r, x) BY <1>1, <4>1, <4>3 DEF Ahead, Listed
        <5>2. \A j \in 1..(n + 1) : answer'[r][j].asset = x <=> j = n + 1
          <6> SUFFICES ASSUME NEW j \in 1..(n + 1)
                       PROVE  answer'[r][j].asset = x <=> j = n + 1
            OBVIOUS
          <6>1. CASE j \in 1..n
            <7>1. answer'[r][j].asset # x BY <2>1, <5>1, <6>1 DEF InRows
            <7> QED BY <2>1, <6>1, <7>1
          <6>2. CASE j = n + 1 BY <4>2, <4>3, <6>2
          <6> QED BY <2>1, <6>1, <6>2
        <5>3. n + 1 \in DOMAIN answer'[r] BY <2>1
        <5> QED BY <1>2, <1>3, <2>1, <4>3, <5>1, <5>2, <5>3 DEF InRows, Listed
      <4>4. CASE x # y
        <5>1. ASSUME \A i \in DOMAIN answer[r] : answer[r][i].asset # x
              PROVE  \A i \in DOMAIN answer'[r] : answer'[r][i].asset # x
          <6> SUFFICES ASSUME NEW i \in 1..(n + 1) PROVE answer'[r][i].asset # x BY <2>1
          <6>1. CASE i \in 1..n BY <2>1, <5>1, <6>1
          <6>2. CASE i = n + 1 BY <4>2, <4>4, <6>2
          <6> QED BY <2>1, <6>1, <6>2
        <5>2. ASSUME Listed(r, x) PROVE Listed(r, x)'
          <6>1. PICK i \in DOMAIN answer[r] :
                  \A j \in DOMAIN answer[r] : answer[r][j].asset = x <=> j = i
            BY <5>2 DEF Listed
          <6>2. \A j \in 1..(n + 1) : answer'[r][j].asset = x <=> j = i
            <7> SUFFICES ASSUME NEW j \in 1..(n + 1)
                         PROVE  answer'[r][j].asset = x <=> j = i
              OBVIOUS
            <7>1. CASE j \in 1..n BY <2>1, <6>1, <7>1
            <7>2. CASE j = n + 1
              <8>1. answer'[r][j].asset # x BY <4>2, <4>4, <7>2
              <8>2. j # i BY <2>1, <6>1, <7>2
              <8> QED BY <8>1, <8>2
            <7> QED BY <2>1, <7>1, <7>2
          <6>3. i \in DOMAIN answer'[r] BY <2>1, <6>1
          <6> QED BY <1>2, <1>3, <2>1, <5>2, <6>2, <6>3 DEF Listed
        <5> QED BY <1>2, <1>3, <4>1, <4>4, <5>1, <5>2 DEF Ahead, InRows
      <4> QED BY <4>3, <4>4
    <3> QED BY <1>2, <1>5, <3>1 DEF Kept, Covered
  <2> QED BY <1>2, <2>2, <2>3 DEF RequestInv
<1> QED BY <1>7, <1>8

LEMMA EndKeeps ==
  ASSUME IInv, NEW r \in Requests, Answer(r) \/ Leave(r)
  PROVE  RequestInv(r)'
<1>1. CASE Answer(r)
  <2>1. /\ UNCHANGED <<owner, route, todo, shown, at, rows, answer, standing, opened>>
        /\ Visible' = Visible /\ Present' = Present
        /\ pc[r] = "busy" /\ pc'[r] = "answered"
        /\ route[r] = "artists" \/ shown[r] = {}
    BY <1>1, SameCatalog DEF Answer, history, IInv, TypeOK
  <2>2. Seen(r) /\ Kept(r) BY <2>1 DEF IInv, RequestInv
  <2>3. Seen(r)' BY <2>1, <2>2 DEF Seen
  <2>4. Kept(r)' BY <2>1, <2>2 DEF Kept, Covered, Ahead, InRows, Listed
  <2> QED BY <2>1, <2>3, <2>4 DEF RequestInv
<1>2. CASE Leave(r)
  <2>1. pc'[r] = "idle" /\ answer'[r] = <<>> /\ shown'[r] = {} /\ standing'[r] = {}
    BY <1>2 DEF Leave, IInv, TypeOK
  <2> QED BY <2>1 DEF RequestInv
<1> QED BY <1>1, <1>2

-----------------------------------------------------------------------------
(* The steps of others.                                                    *)

LEMMA ChangeKeeps ==
  ASSUME IInv, CreateArtist \/ PublishAsset \/ UpsertState, NEW r \in Requests
  PROVE  RequestInv(r)'
<1>1. Change BY DEF CreateArtist, PublishAsset, UpsertState
<1>2. UNCHANGED <<pc, route, todo, shown, at, rows, answer>> BY <1>1 DEF Change, request
<1>3. /\ standing'[r] = {t \in standing[r] \cap Visible' : t \in Assets => owner'[t] = owner[t]}
      /\ opened'[r] = IF pc[r] = "idle" THEN {} ELSE opened[r] \cup Visible'
  BY <1>1 DEF Change
<1>4. CASE pc[r] = "idle" BY <1>2, <1>3, <1>4 DEF IInv, RequestInv
<1>5. CASE pc[r] # "idle"
  <2>1. Seen(r) /\ Kept(r) BY <1>5 DEF IInv, RequestInv
  <2>2. artists \subseteq artists'
    BY DEF CreateArtist, PublishAsset, UpsertState
  <2>3. standing'[r] \subseteq Present'
    <3> SUFFICES ASSUME NEW t \in standing'[r] PROVE t \in Present' OBVIOUS
    <3>1. t \in Present /\ (t \in Assets => owner'[t] = owner[t])
      BY <1>3, <2>1 DEF Seen
    <3> QED BY <2>2, <3>1 DEF Present
  <2>4. Seen(r)' BY <1>2, <1>3, <1>5, <2>1, <2>3 DEF Seen
  <2>5. Kept(r)'
    <3>1. ASSUME NEW x \in standing'[r] \cap Assets, Covered(r, x)'
          PROVE  Ahead(r, x)' \/ InRows(r, x)' \/ Listed(r, x)'
      <4>1. x \in standing[r] \cap Assets /\ owner'[x] = owner[x] BY <1>3, <3>1
      <4>2. Covered(r, x) BY <1>2, <1>3, <3>1, <4>1 DEF Covered
      <4>3. Ahead(r, x) \/ InRows(r, x) \/ Listed(r, x) BY <2>1, <4>1, <4>2 DEF Kept
      <4> QED BY <1>2, <4>1, <4>3 DEF Ahead, InRows, Listed
    <3>2. standing'[r] \subseteq standing[r] BY <1>3
    <3> QED BY <1>2, <2>1, <3>1, <3>2 DEF Kept
  <2> QED BY <1>2, <1>5, <2>4, <2>5 DEF IInv, RequestInv
<1> QED BY <1>4, <1>5

-----------------------------------------------------------------------------
(* Theorems.                                                               *)

LEMMA StepInv == IInv /\ [Next]_vars => IInv'
<1> SUFFICES ASSUME IInv, [Next]_vars PROVE IInv' OBVIOUS
<1>1. ASSUME NEW r \in Requests, Handle(r) PROVE IInv'
  <2>1. TypeOK' BY <1>1, HandleType DEF IInv
  <2>2. RequestInv(r)'
    BY <1>1, BeginKeeps, BuildKeeps, ListAssetsKeeps, ReadAssetKeeps, EndKeeps DEF Handle
  <2>3. ASSUME NEW q \in Requests \ {r} PROVE RequestInv(q)'
    BY <1>1, HandleOthers, SameKeeps DEF IInv, Others
  <2> QED BY <2>1, <2>2, <2>3 DEF IInv
<1>2. CASE CreateArtist \/ PublishAsset \/ UpsertState
  <2>1. TypeOK' BY <1>2, ChangeType DEF IInv
  <2> QED BY <1>2, <2>1, ChangeKeeps DEF IInv
<1>3. CASE UNCHANGED vars
  <2>1. TypeOK' BY <1>3 DEF vars, catalog, request, history, IInv, TypeOK, Lists, Targets
  <2>2. UNCHANGED catalog /\ \A q \in Requests : Same(q)
    BY <1>3 DEF vars, request, history, Same
  <2> QED BY <2>1, <2>2, SameKeeps DEF IInv
<1> QED BY <1>1, <1>2, <1>3 DEF Next

\* What every request has seen, kept and left to do holds in every reachable state.
THEOREM Invariant == Spec => []IInv
<1>1. Init => IInv BY InitInv
<1>2. IInv /\ [Next]_vars => IInv' BY StepInv
<1> QED BY <1>1, <1>2, PTL DEF Spec

\* Requests and tables keep their types, for any artists, assets and requests.
THEOREM TypeCorrect == Spec => []TypeOK
<1>1. IInv => TypeOK BY DEF IInv
<1> QED BY <1>1, Invariant, PTL

\* GET /v1/browse/artists, /v1/browse/new and /v1/artists/{handle}/assets hold
\* what was there, visible and unmoved all the time, every asset exactly once.
THEOREM StandingAreListedOnce == Spec => []StandingListedOnce
<1>1. IInv => StandingListedOnce
  <2> USE NamesAssumption
  <2> SUFFICES ASSUME IInv, NEW r \in Requests, pc[r] = "answered"
               PROVE  /\ route[r] = "artists" => standing[r] \cap Artists \subseteq shown[r]
                      /\ \A x \in standing[r] \cap Assets :
                           Covered(r, x) =>
                             \E i \in DOMAIN answer[r] :
                               \A j \in DOMAIN answer[r] : answer[r][j].asset = x <=> j = i
    BY DEF StandingListedOnce, Covered
  <2>1. /\ Kept(r) /\ todo[r] = {} /\ rows[r] = {}
        /\ route[r] = "artists" \/ shown[r] = {}
    BY DEF IInv, RequestInv, TypeOK
  <2>2. ASSUME NEW x \in standing[r] \cap Assets, Covered(r, x) PROVE Listed(r, x)
    <3>1. route[r] # "artists" BY <2>2 DEF Covered, IInv, TypeOK
    <3> QED BY <2>1, <2>2, <3>1 DEF Kept, Ahead, InRows
  <2> QED BY <2>1, <2>2 DEF Kept, Listed
<1> QED BY <1>1, Invariant, PTL

\* No list holds what was hidden all the time it was read.
THEOREM HiddenAreNotListed == Spec => []HiddenNotListed
<1>1. IInv => HiddenNotListed
  BY DEF IInv, RequestInv, Seen, HiddenNotListed
<1> QED BY <1>1, Invariant, PTL
=============================================================================
