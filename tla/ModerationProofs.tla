-------------------------- MODULE ModerationProofs --------------------------
(***************************************************************************)
(* Proofs about Moderation, for any targets, reports, handlers, proofs and *)
(* runs of the worker (badges: for runs that do not overlap).              *)
(***************************************************************************)
EXTENDS Moderation, FiniteSetTheorems, TLAPS

States == {"allow", "warn", "quarantine", "delist"}
Badges == Trusted \cup {"unverified", "flagged"}
TypeLists == Seq(ReportTypes)

\* Types of the reports and their evaluations.
ReportType ==
  /\ filed \in SUBSET Reports /\ aged \in SUBSET filed
  /\ state \in [Targets -> States]
  /\ pc \in [Handlers -> {"idle", "counting", "decided"}]
  /\ rep \in [Handlers -> Reports \cup {None}]
  /\ old \in [Handlers -> SUBSET Reports]
  /\ left \in [Handlers -> TypeLists]
  /\ hits \in [Handlers -> SUBSET ReportTypes]
  /\ trusted \in [Handlers -> BOOLEAN] /\ shared \in [Handlers -> BOOLEAN]
  /\ failed \in SUBSET filed
  /\ troubled \in SUBSET Targets

\* Types of the proofs and their checks.
CheckType ==
  /\ proof \in [Proofs -> {"absent", "pending", "verified", "failed", "expired"}]
  /\ badge \in [Artists -> Badges]
  /\ cpc \in [Checkers -> {"idle", "checking", "listed", "read"}]
  /\ todo \in [Checkers -> SUBSET Proofs]
  /\ affected \in [Checkers -> SUBSET Artists]
  /\ about \in [Checkers -> Artists \cup {None}]
  /\ snap \in [Checkers -> SUBSET ProofTypes]
  /\ mod \in [Checkers -> States]
  /\ missed \in SUBSET Artists

\* A call that evaluates has stored its report, and finds the reports outside of
\* its window outside of every later one.
Evaluations ==
  \A h \in Handlers :
    /\ pc[h] # "idle" => rep[h] \in filed /\ old[h] \subseteq aged
    /\ pc[h] = "idle" => left[h] = <<>> /\ hits[h] = {}
    /\ pc[h] = "decided" => left[h] = <<>>

\* A recomputation is about an artist the run has touched, after its last proof.
Recomputations ==
  \A c \in Checkers :
    /\ cpc[c] \in {"listed", "read"} => about[c] \in affected[c] /\ todo[c] = {}
    /\ cpc[c] = "idle" => affected[c] = {}

-----------------------------------------------------------------------------
(* Operators.                                                              *)

LEMMA DecisionState ==
  ASSUME NEW kind, NEW reached, NEW verified
  PROVE  Decision(kind, reached, verified) \in States
BY DEF Decision, States

LEMMA CountedTypes ==
  ASSUME NEW t \in Targets
  PROVE  /\ Counted(KindOf[t]) \in TypeLists
         /\ \A type : Threshold(KindOf[t], type) \in Nat \ {0}
<1>1. KindOf[t] \in {"artist", "asset", "url"} BY ReportsAssumption
<1>2. CASE KindOf[t] = "artist" BY <1>2 DEF Counted, Threshold, TypeLists, ReportTypes
<1>3. CASE KindOf[t] = "asset" BY <1>3 DEF Counted, Threshold, TypeLists, ReportTypes
<1>4. CASE KindOf[t] = "url" BY <1>4 DEF Counted, Threshold, TypeLists, ReportTypes
<1> QED BY <1>1, <1>2, <1>3, <1>4

LEMMA BadgeState ==
  ASSUME NEW types, NEW moderation
  PROVE  ComputeBadge(types, moderation) \in Badges
BY DEF ComputeBadge, Trusted, Badges

LEMMA ListHead ==
  ASSUME NEW s \in TypeLists, s # <<>>
  PROVE  /\ Head(s) \in ReportTypes /\ Tail(s) \in TypeLists
         /\ 1 \in DOMAIN s /\ Head(s) = s[1]
         /\ \A i \in DOMAIN Tail(s) : i + 1 \in DOMAIN s /\ Tail(s)[i] = s[i + 1]
         /\ \A i \in DOMAIN s : i = 1 \/ (i - 1 \in DOMAIN Tail(s) /\ Tail(s)[i - 1] = s[i])
BY DEF TypeLists

LEMMA EmptyList == <<>> \in TypeLists
BY DEF TypeLists

LEMMA Types == TypeOK <=> ReportType /\ CheckType
BY DEF TypeOK, ReportType, CheckType, States, Badges, TypeLists

LEMMA InitShape ==
  Init => ReportType /\ CheckType /\ Evaluations /\ Recomputations
<1> USE ReportsAssumption, ProofsAssumption, NoneAssumption
<1> SUFFICES ASSUME Init PROVE ReportType /\ CheckType /\ Evaluations /\ Recomputations OBVIOUS
<1>1. ReportType BY EmptyList DEF Init, ReportType, States
<1>2. CheckType BY DEF Init, CheckType, States, Badges
<1>3. Evaluations BY DEF Init, Evaluations
<1>4. Recomputations BY DEF Init, Recomputations
<1> QED BY <1>1, <1>2, <1>3, <1>4

-----------------------------------------------------------------------------
(* Types: steps of the handlers.                                           *)

LEMMA InsertShape ==
  ASSUME ReportType, Evaluations, NEW h \in Handlers, InsertReport(h)
  PROVE  ReportType' /\ Evaluations'
<1> USE ReportsAssumption
<1>1. PICK r \in Reports \ filed :
        /\ filed' = filed \cup {r}
        /\ rep' = [rep EXCEPT ![h] = r]
        /\ left' = [left EXCEPT ![h] = Counted(KindOf[TargetOf[r]])]
        /\ shared' = [g \in Handlers |->
                        IF g = h THEN Evaluating(TargetOf[r]) # {}
                        ELSE shared[g] \/ g \in Evaluating(TargetOf[r])]
  BY DEF InsertReport
<1>2. Counted(KindOf[TargetOf[r]]) \in TypeLists BY CountedTypes
<1>3. shared' \in [Handlers -> BOOLEAN]
  <2>1. \A g \in Handlers : shared'[g] \in BOOLEAN BY <1>1 DEF ReportType
  <2> QED BY <1>1, <2>1
<1>4. ReportType' BY <1>1, <1>2, <1>3 DEF InsertReport, ReportType
<1>5. Evaluations' BY <1>1 DEF InsertReport, Evaluations, ReportType
<1> QED BY <1>4, <1>5

LEMMA CountShape ==
  ASSUME ReportType, Evaluations, NEW h \in Handlers, CountReports(h)
  PROVE  ReportType' /\ Evaluations'
<1>1. left[h] \in TypeLists /\ left[h] # <<>> BY DEF CountReports, ReportType
<1>2. Head(left[h]) \in ReportTypes /\ Tail(left[h]) \in TypeLists BY <1>1, ListHead
<1>3. hits' \in [Handlers -> SUBSET ReportTypes] BY <1>2 DEF CountReports, ReportType
<1>4. left' \in [Handlers -> TypeLists] BY <1>2 DEF CountReports, ReportType
<1>5. ReportType' BY <1>3, <1>4 DEF CountReports, ReportType, reportVars
<1>6. Evaluations' BY DEF CountReports, Evaluations, ReportType, reportVars
<1> QED BY <1>5, <1>6

LEMMA VerifiedShape ==
  ASSUME ReportType, Evaluations, NEW h \in Handlers, IsArtistVerified(h)
  PROVE  ReportType' /\ Evaluations'
<1>1. trusted' \in [Handlers -> BOOLEAN] BY DEF IsArtistVerified, ReportType
<1>2. ReportType' BY <1>1 DEF IsArtistVerified, ReportType, reportVars
<1>3. Evaluations' BY DEF IsArtistVerified, Evaluations, ReportType, reportVars
<1> QED BY <1>2, <1>3

LEMMA FinishShape ==
  ASSUME ReportType, Evaluations, NEW h \in Handlers, UpsertState(h) \/ EvaluationFails(h)
  PROVE  ReportType' /\ Evaluations'
<1> USE ReportsAssumption
<1>1. Finish(h) /\ UNCHANGED <<filed, aged>>
  BY DEF UpsertState, EvaluationFails, reportVars
<1>2. pc[h] # "idle" /\ rep[h] \in filed /\ Target(h) \in Targets
  BY DEF UpsertState, EvaluationFails, Evaluations, ReportType, Target
<1>3. state' \in [Targets -> States]
  <2>1. CASE UpsertState(h)
    <3>1. Decision(Kind(h), hits[h], trusted[h]) \in States BY DecisionState
    <3> QED BY <2>1, <3>1 DEF UpsertState, ReportType
  <2>2. CASE EvaluationFails(h) BY <2>2 DEF EvaluationFails, reportVars, ReportType
  <2> QED BY <2>1, <2>2
<1>4. failed' \in SUBSET filed /\ troubled' \in SUBSET Targets
  BY <1>2 DEF UpsertState, EvaluationFails, ReportType
<1>5. /\ pc' \in [Handlers -> {"idle", "counting", "decided"}]
      /\ rep' \in [Handlers -> Reports \cup {None}]
      /\ old' \in [Handlers -> SUBSET Reports]
      /\ left' \in [Handlers -> TypeLists]
      /\ hits' \in [Handlers -> SUBSET ReportTypes]
      /\ trusted' \in [Handlers -> BOOLEAN] /\ shared' \in [Handlers -> BOOLEAN]
  BY <1>1, EmptyList DEF Finish, ReportType
<1>6. ReportType' BY <1>1, <1>3, <1>4, <1>5 DEF ReportType
<1>7. Evaluations' BY <1>1 DEF Finish, Evaluations, ReportType
<1> QED BY <1>6, <1>7

LEMMA AgeShape ==
  ASSUME ReportType, Evaluations, AgeReport
  PROVE  ReportType' /\ Evaluations'
<1>1. PICK r \in filed \ aged : aged' = aged \cup {r} BY DEF AgeReport
<1>2. ReportType' BY <1>1 DEF AgeReport, ReportType, evalVars
<1>3. Evaluations' BY <1>1 DEF AgeReport, Evaluations, evalVars
<1> QED BY <1>2, <1>3

\* The handlers and the worker share tables, and each writes only its own.
LEMMA HandlersFrame ==
  ASSUME (\E h \in Handlers : Evaluate(h)) \/ AgeReport
  PROVE  UNCHANGED <<proofVars, checkVars, missed>>
BY DEF Evaluate, InsertReport, CountReports, IsArtistVerified, UpsertState, EvaluationFails, AgeReport

LEMMA CheckersFrame ==
  ASSUME (\E c \in Checkers : RunOnce(c)) \/ SubmitProof \/ ExpireProof
  PROVE  UNCHANGED <<reportVars, evalVars>>
BY DEF RunOnce, ListByStatus, VerifyProof, ListByArtist, ReadModeration, UpsertBadge,
       RunFails, SubmitProof, ExpireProof

-----------------------------------------------------------------------------
(* Types: steps of the worker.                                             *)

LEMMA ListShape ==
  ASSUME CheckType, Recomputations, NEW c \in Checkers, ListByStatus(c) \/ ListByArtist(c)
  PROVE  CheckType' /\ Recomputations'
<1> USE ProofsAssumption
<1>1. CASE ListByStatus(c)
  <2>1. PICK S \in SUBSET Proofs : todo' = [todo EXCEPT ![c] = S]
    BY <1>1 DEF ListByStatus
  <2>2. CheckType' BY <1>1, <2>1 DEF ListByStatus, CheckType, proofVars
  <2>3. Recomputations' BY <1>1, <2>1 DEF ListByStatus, Recomputations, CheckType, proofVars
  <2> QED BY <2>2, <2>3
<1>2. CASE ListByArtist(c)
  <2>1. PICK a \in affected[c] :
          /\ about' = [about EXCEPT ![c] = a]
          /\ snap' = [snap EXCEPT ![c] = VerifiedTypes(a)]
          /\ missed' = missed \ {a}
    BY <1>2 DEF ListByArtist
  <2>2. a \in Artists /\ VerifiedTypes(a) \in SUBSET ProofTypes
    BY DEF CheckType, VerifiedTypes
  <2>3. CheckType' BY <1>2, <2>1, <2>2 DEF ListByArtist, CheckType, proofVars
  <2>4. Recomputations' BY <1>2, <2>1 DEF ListByArtist, Recomputations, CheckType, proofVars
  <2> QED BY <2>3, <2>4
<1> QED BY <1>1, <1>2

LEMMA VerifyShape ==
  ASSUME CheckType, Recomputations, NEW c \in Checkers, VerifyProof(c)
  PROVE  CheckType' /\ Recomputations'
<1>1. PICK p \in todo[c], s \in {"verified", "failed"} :
        /\ proof' = [proof EXCEPT ![p] = s]
        /\ todo' = [todo EXCEPT ![c] = @ \ {p}]
        /\ affected' = [affected EXCEPT ![c] = @ \cup {ArtistOf[p]}]
        /\ missed' = missed \ {ArtistOf[p]}
  BY DEF VerifyProof
<1>2. p \in Proofs /\ ArtistOf[p] \in Artists BY ProofsAssumption DEF CheckType
<1>3. CheckType' BY <1>1, <1>2 DEF VerifyProof, CheckType
<1>4. Recomputations' BY <1>1, <1>2 DEF VerifyProof, Recomputations, CheckType
<1> QED BY <1>3, <1>4

LEMMA RecomputeShape ==
  ASSUME ReportType, CheckType, Recomputations, NEW c \in Checkers,
         ReadModeration(c) \/ UpsertBadge(c) \/ RunFails(c)
  PROVE  CheckType' /\ Recomputations'
<1>1. CASE ReadModeration(c)
  <2>1. state[about[c]] \in States
    <3>1. about[c] \in Artists BY <1>1 DEF ReadModeration, Recomputations, CheckType
    <3> QED BY <3>1 DEF Artists, ReportType
  <2>2. CheckType' BY <1>1, <2>1 DEF ReadModeration, CheckType, proofVars
  <2>3. Recomputations' BY <1>1 DEF ReadModeration, Recomputations, CheckType, proofVars
  <2> QED BY <2>2, <2>3
<1>2. CASE UpsertBadge(c)
  <2>1. ComputeBadge(snap[c], mod[c]) \in Badges BY BadgeState
  <2>2. about[c] \in Artists /\ todo[c] = {}
    BY <1>2 DEF UpsertBadge, Recomputations, CheckType
  <2>3. CheckType' BY <1>2, <2>1, <2>2 DEF UpsertBadge, Quit, CheckType, States
  <2>4. Recomputations' BY <1>2 DEF UpsertBadge, Quit, Recomputations, CheckType
  <2> QED BY <2>3, <2>4
<1>3. CASE RunFails(c)
  <2>1. CheckType' BY <1>3 DEF RunFails, Quit, CheckType, proofVars, States
  <2>2. Recomputations' BY <1>3 DEF RunFails, Quit, Recomputations, CheckType
  <2> QED BY <2>1, <2>2
<1> QED BY <1>1, <1>2, <1>3

LEMMA ProofShape ==
  ASSUME CheckType, Recomputations, SubmitProof \/ ExpireProof
  PROVE  CheckType' /\ Recomputations'
<1>1. PICK p \in Proofs, s \in {"pending", "expired"} :
        /\ proof' = [proof EXCEPT ![p] = s]
        /\ missed' \in {missed, missed \cup {ArtistOf[p]}}
        /\ UNCHANGED <<badge, checkVars>>
  BY DEF SubmitProof, ExpireProof
<1>2. ArtistOf[p] \in Artists BY ProofsAssumption
<1>3. CheckType' BY <1>1, <1>2 DEF CheckType, checkVars
<1>4. Recomputations' BY <1>1 DEF Recomputations, checkVars
<1> QED BY <1>3, <1>4

Shape == ReportType /\ CheckType /\ Evaluations /\ Recomputations

LEMMA ShapeStep == Shape /\ [Next]_vars => Shape'
<1> SUFFICES ASSUME Shape, [Next]_vars PROVE Shape' OBVIOUS
<1> USE DEF Shape
<1>1. ASSUME NEW h \in Handlers, Evaluate(h) PROVE Shape'
  <2>1. ReportType' /\ Evaluations'
    BY <1>1, InsertShape, CountShape, VerifiedShape, FinishShape DEF Evaluate
  <2>2. UNCHANGED <<proofVars, checkVars, missed>> BY <1>1, HandlersFrame
  <2>3. CheckType' /\ Recomputations'
    BY <2>2 DEF CheckType, Recomputations, proofVars, checkVars
  <2> QED BY <2>1, <2>3
<1>2. ASSUME NEW c \in Checkers, RunOnce(c) PROVE Shape'
  <2>1. CheckType' /\ Recomputations'
    BY <1>2, ListShape, VerifyShape, RecomputeShape DEF RunOnce
  <2>2. UNCHANGED <<reportVars, evalVars>> BY <1>2, CheckersFrame
  <2>3. ReportType' /\ Evaluations'
    BY <2>2 DEF ReportType, Evaluations, reportVars, evalVars
  <2> QED BY <2>1, <2>3
<1>3. CASE AgeReport
  <2>1. UNCHANGED <<proofVars, checkVars, missed>> BY <1>3, HandlersFrame
  <2>2. CheckType' /\ Recomputations'
    BY <2>1 DEF CheckType, Recomputations, proofVars, checkVars
  <2> QED BY <1>3, <2>2, AgeShape
<1>4. CASE SubmitProof \/ ExpireProof
  <2>1. UNCHANGED <<reportVars, evalVars>> BY <1>4, CheckersFrame
  <2>2. ReportType' /\ Evaluations'
    BY <2>1 DEF ReportType, Evaluations, reportVars, evalVars
  <2> QED BY <1>4, <2>2, ProofShape
<1>5. CASE UNCHANGED vars
  BY <1>5 DEF vars, reportVars, evalVars, proofVars, checkVars, ReportType, Evaluations,
              CheckType, Recomputations
<1> QED BY <1>1, <1>2, <1>3, <1>4, <1>5 DEF Next

\* Every variable keeps its type, for any number of handlers and worker runs.
THEOREM TypeCorrect == Spec => []TypeOK
<1>1. Init => Shape BY InitShape DEF Shape
<1>2. Shape => TypeOK BY Types DEF Shape
<1> QED BY <1>1, <1>2, ShapeStep, PTL DEF Spec

-----------------------------------------------------------------------------
(* Nobody is restricted without the reports for it.                        *)

Filed(R, t, type) == {r \in R : TargetOf[r] = t /\ TypeOf[r] = type}
IsCounted(t, type) == \E i \in DOMAIN Counted(KindOf[t]) : Counted(KindOf[t])[i] = type
Enough(R, t, type) ==
  IsCounted(t, type) /\ Cardinality(Filed(R, t, type)) >= Threshold(KindOf[t], type)

LEMMA CountedType ==
  ASSUME NEW t \in Targets, NEW type, IsCounted(t, type)
  PROVE  type \in ReportTypes
BY CountedTypes DEF IsCounted, TypeLists

LEMMA ReachedByType ==
  ASSUME NEW t \in Targets, NEW R
  PROVE  Reached(R, t) <=> \E type : Enough(R, t, type)
<1>1. \A type \in ReportTypes :
        (CASE KindOf[t] = "artist" -> 3
           [] KindOf[t] = "asset"  -> IF type = "spam" THEN 3 ELSE 2
           [] KindOf[t] = "url"    -> 1) = Threshold(KindOf[t], type)
  BY DEF Threshold
<1>2. \A type : Enough(R, t, type) => type \in ReportTypes BY CountedType DEF Enough
<1> QED BY <1>1, <1>2 DEF Reached, Enough, IsCounted, Filed

\* More reports never lose a threshold.
LEMMA MoreReports ==
  ASSUME NEW S \in SUBSET Reports, NEW R \in SUBSET S, NEW t \in Targets, NEW type,
         Enough(R, t, type)
  PROVE  Enough(S, t, type)
<1>1. Filed(R, t, type) \subseteq Filed(S, t, type) BY DEF Filed
<1>2. IsFiniteSet(Filed(S, t, type))
  BY ReportsAssumption, FS_Subset DEF Filed
<1>3. /\ Cardinality(Filed(R, t, type)) \in Nat /\ Cardinality(Filed(S, t, type)) \in Nat
      /\ Cardinality(Filed(R, t, type)) <= Cardinality(Filed(S, t, type))
  BY <1>1, <1>2, FS_Subset, FS_CardinalityType
<1>4. Threshold(KindOf[t], type) \in Nat BY CountedTypes
<1> QED BY <1>3, <1>4 DEF Enough

LEMMA MoreReached ==
  ASSUME NEW S \in SUBSET Reports, NEW R \in SUBSET S, NEW t \in Targets, Reached(R, t)
  PROVE  Reached(S, t)
BY ReachedByType, MoreReports

\* A decision restricts only for a type that reached its threshold ...
LEMMA DecisionNeedsType ==
  ASSUME NEW kind, NEW reached, NEW verified, Decision(kind, reached, verified) # "allow"
  PROVE  \E type : type \in reached
BY DEF Decision

\* ... and for every type that did.
LEMMA DecisionRestricts ==
  ASSUME NEW t \in Targets, NEW reached, NEW verified, NEW type \in reached,
         \A other \in reached : IsCounted(t, other)
  PROVE  Decision(KindOf[t], reached, verified) # "allow"
<1>1. KindOf[t] \in {"artist", "asset", "url"} BY ReportsAssumption
<1>2. CASE KindOf[t] = "artist"
  <2>1. type = "impersonation" BY <1>2 DEF IsCounted, Counted
  <2> QED BY <1>2, <2>1 DEF Decision
<1>3. CASE KindOf[t] = "asset"
  <2>1. \A other \in reached : other \in {"scam", "malware", "spam"}
    BY <1>3 DEF IsCounted, Counted
  <2>2. CASE {"scam", "malware"} \cap reached # {} BY <1>3, <2>2 DEF Decision
  <2>3. CASE {"scam", "malware"} \cap reached = {}
    <3>1. reached = {"spam"} BY <2>1, <2>3
    <3> QED BY <1>3, <2>3, <3>1 DEF Decision
  <2> QED BY <2>2, <2>3
<1>4. CASE KindOf[t] = "url"
  <2>1. type = "malware" BY <1>4 DEF IsCounted, Counted
  <2> QED BY <1>4, <2>1 DEF Decision
<1> QED BY <1>1, <1>2, <1>3, <1>4

\* What every evaluation and recomputation holds in hand is justified already.
HitsJustified ==
  \A h \in Handlers : pc[h] # "idle" =>
    /\ \A type \in hits[h] : Enough(filed, Target(h), type)
    /\ \A i \in DOMAIN left[h] : IsCounted(Target(h), left[h][i])
ReadsJustified ==
  \A c \in Checkers : (cpc[c] = "read" /\ mod[c] = "delist") => Reached(filed, about[c])

Justified == HitsJustified /\ ReadsJustified /\ RestrictionJustified

\* Steps that store no decision and no badge keep what is justified.
LEMMA ReadsKept ==
  ASSUME Shape, Shape', ReadsJustified, RestrictionJustified,
         UNCHANGED <<state, badge, checkVars>>, filed \subseteq filed'
  PROVE  ReadsJustified' /\ RestrictionJustified'
<1>1. \A t \in Targets : Reached(filed, t) => Reached(filed', t)
  BY MoreReached DEF Shape, ReportType
<1>2. \A c \in Checkers : cpc[c] = "read" => about[c] \in Targets
  BY DEF Shape, Recomputations, CheckType, Artists
<1>3. ReadsJustified' BY <1>1, <1>2 DEF ReadsJustified, checkVars
<1>4. RestrictionJustified' BY <1>1 DEF RestrictionJustified, Artists
<1> QED BY <1>3, <1>4

LEMMA JustifiedInsert ==
  ASSUME Shape, Shape', Justified, NEW h \in Handlers, InsertReport(h)
  PROVE  Justified'
<1> USE ReportsAssumption
<1>1. PICK r \in Reports \ filed :
        /\ filed' = filed \cup {r}
        /\ rep' = [rep EXCEPT ![h] = r]
        /\ left' = [left EXCEPT ![h] = Counted(KindOf[TargetOf[r]])]
  BY DEF InsertReport
<1>2. ReadsJustified' /\ RestrictionJustified'
  BY <1>1, ReadsKept DEF InsertReport, Justified, proofVars
<1>3. HitsJustified'
  <2> SUFFICES ASSUME NEW g \in Handlers, pc'[g] # "idle"
               PROVE  /\ \A type \in hits'[g] : Enough(filed', Target(g)', type)
                      /\ \A i \in DOMAIN left'[g] : IsCounted(Target(g)', left'[g][i])
    BY DEF HitsJustified
  <2>1. CASE g = h
    <3>1. hits'[g] = {} /\ Target(g)' = TargetOf[r] /\ left'[g] = Counted(KindOf[TargetOf[r]])
      BY <1>1, <2>1 DEF InsertReport, Shape, ReportType, Evaluations, Target
    <3> QED BY <3>1 DEF IsCounted
  <2>2. CASE g # h
    <3>1. pc[g] # "idle" /\ hits'[g] = hits[g] /\ Target(g)' = Target(g) /\ left'[g] = left[g]
      BY <1>1, <2>2 DEF InsertReport, Shape, ReportType, Target
    <3>2. Target(g) \in Targets BY <3>1 DEF Shape, ReportType, Evaluations, Target
    <3>3. \A type \in hits[g] : Enough(filed', Target(g), type)
      BY <1>1, <3>1, <3>2, MoreReports DEF Justified, HitsJustified, Shape, ReportType
    <3> QED BY <3>1, <3>3 DEF Justified, HitsJustified
  <2> QED BY <2>1, <2>2
<1> QED BY <1>2, <1>3 DEF Justified

LEMMA JustifiedCount ==
  ASSUME Shape, Shape', Justified, NEW h \in Handlers, CountReports(h)
  PROVE  Justified'
<1> DEFINE type == Head(left[h])
<1>1. ReadsJustified' /\ RestrictionJustified'
  BY ReadsKept DEF CountReports, Justified, proofVars, reportVars
<1>2. Target(h) \in Targets /\ pc[h] # "idle"
  BY ReportsAssumption DEF CountReports, Shape, ReportType, Evaluations, Target
<1>3. left[h] \in TypeLists /\ left[h] # <<>> BY DEF CountReports, Shape, ReportType
<1>4. IsCounted(Target(h), type)
  BY <1>2, <1>3, ListHead DEF Justified, HitsJustified
<1>5. Cardinality(InWindow(h, type)) >= Threshold(Kind(h), type) =>
        Enough(filed, Target(h), type)
  <2> SUFFICES ASSUME Cardinality(InWindow(h, type)) >= Threshold(Kind(h), type)
               PROVE  Enough(filed, Target(h), type)
    OBVIOUS
  <2>1. Enough(filed \ old[h], Target(h), type) BY <1>4 DEF Enough, Filed, InWindow, Kind
  <2> QED BY <1>2, <2>1, MoreReports DEF Shape, ReportType
<1>6. hits'[h] \subseteq hits[h] \cup {type} /\ left'[h] = Tail(left[h])
  BY DEF CountReports, Shape, ReportType
<1>7. type \in hits'[h] => type \in hits[h] \/ Enough(filed, Target(h), type)
  BY <1>5 DEF CountReports, Shape, ReportType
<1>8. \A i \in DOMAIN left'[h] : IsCounted(Target(h), left'[h][i])
  BY <1>2, <1>3, <1>6, ListHead DEF Justified, HitsJustified
<1>9. \A other \in hits'[h] : Enough(filed, Target(h), other)
  BY <1>2, <1>6, <1>7 DEF Justified, HitsJustified
<1>10. HitsJustified'
  <2> SUFFICES ASSUME NEW g \in Handlers, pc'[g] # "idle"
               PROVE  /\ \A other \in hits'[g] : Enough(filed', Target(g)', other)
                      /\ \A i \in DOMAIN left'[g] : IsCounted(Target(g)', left'[g][i])
    BY DEF HitsJustified
  <2>1. filed' = filed /\ Target(g)' = Target(g) /\ pc[g] # "idle"
    BY DEF CountReports, reportVars, Target
  <2>2. CASE g = h BY <1>8, <1>9, <2>1, <2>2
  <2>3. CASE g # h
    <3>1. hits'[g] = hits[g] /\ left'[g] = left[g]
      BY <2>3 DEF CountReports, Shape, ReportType
    <3> QED BY <2>1, <3>1 DEF Justified, HitsJustified
  <2> QED BY <2>2, <2>3
<1> QED BY <1>1, <1>10 DEF Justified

LEMMA JustifiedVerified ==
  ASSUME Shape, Shape', Justified, NEW h \in Handlers, IsArtistVerified(h)
  PROVE  Justified'
<1>1. ReadsJustified' /\ RestrictionJustified'
  BY ReadsKept DEF IsArtistVerified, Justified, proofVars, reportVars
<1>2. /\ UNCHANGED <<filed, rep, hits, left>>
      /\ \A g \in Handlers : pc'[g] # "idle" => pc[g] # "idle"
  BY DEF IsArtistVerified, reportVars, Shape, ReportType
<1>3. HitsJustified' BY <1>2 DEF Justified, HitsJustified, Target
<1> QED BY <1>1, <1>3 DEF Justified

\* The call h ends and leaves the others as they are.
LEMMA FinishOthers ==
  ASSUME Shape, NEW h \in Handlers, Finish(h)
  PROVE  \A g \in Handlers :
           /\ pc'[g] # "idle" => g # h
           /\ g # h => /\ pc'[g] = pc[g] /\ rep'[g] = rep[g] /\ old'[g] = old[g]
                       /\ left'[g] = left[g] /\ hits'[g] = hits[g]
                       /\ shared'[g] = shared[g]
BY DEF Finish, Shape, ReportType

LEMMA JustifiedFinish ==
  ASSUME Shape, Shape', Justified, NEW h \in Handlers, UpsertState(h) \/ EvaluationFails(h)
  PROVE  Justified'
<1>1. Finish(h) /\ filed' = filed /\ UNCHANGED <<badge, checkVars>>
  BY DEF UpsertState, EvaluationFails, reportVars, proofVars
<1>2. Target(h) \in Targets /\ pc[h] # "idle"
  BY ReportsAssumption
  DEF UpsertState, EvaluationFails, Shape, ReportType, Evaluations, Target
<1>3. HitsJustified'
  <2> SUFFICES ASSUME NEW g \in Handlers, pc'[g] # "idle"
               PROVE  /\ \A type \in hits'[g] : Enough(filed', Target(g)', type)
                      /\ \A i \in DOMAIN left'[g] : IsCounted(Target(g)', left'[g][i])
    BY DEF HitsJustified
  <2>1. pc[g] # "idle" /\ hits'[g] = hits[g] /\ left'[g] = left[g] /\ Target(g)' = Target(g)
    BY <1>1, FinishOthers DEF Target
  <2> QED BY <1>1, <2>1 DEF Justified, HitsJustified
<1>4. ReadsJustified' BY <1>1 DEF Justified, ReadsJustified, checkVars
<1>5. ASSUME NEW t \in Targets, state'[t] # "allow" PROVE Reached(filed', t)
  <2>1. CASE state'[t] = state[t]
    BY <1>1, <1>5, <2>1 DEF Justified, RestrictionJustified
  <2>2. CASE state'[t] # state[t]
    <3>1. t = Target(h) /\ state'[t] = Decision(Kind(h), hits[h], trusted[h])
      BY <2>2 DEF UpsertState, EvaluationFails, reportVars, Shape, ReportType
    <3>2. PICK type : type \in hits[h] BY <1>5, <3>1, DecisionNeedsType
    <3>3. Enough(filed, t, type) BY <1>2, <3>1, <3>2 DEF Justified, HitsJustified
    <3> QED BY <1>1, <3>3, ReachedByType
  <2> QED BY <2>1, <2>2
<1>6. RestrictionJustified'
  BY <1>1, <1>5 DEF Justified, RestrictionJustified
<1> QED BY <1>3, <1>4, <1>6 DEF Justified

LEMMA JustifiedAge ==
  ASSUME Shape, Shape', Justified, AgeReport
  PROVE  Justified'
<1>1. ReadsJustified' /\ RestrictionJustified'
  BY ReadsKept DEF AgeReport, Justified, proofVars
<1>2. HitsJustified' BY DEF AgeReport, Justified, HitsJustified, evalVars, Target
<1> QED BY <1>1, <1>2 DEF Justified

\* A run flags an artist only for a state "delist" it has read.
LEMMA JustifiedRun ==
  ASSUME Shape, Shape', Justified, NEW c \in Checkers, RunOnce(c)
  PROVE  Justified'
<1>1. UNCHANGED <<reportVars, evalVars>> BY CheckersFrame
<1>2. HitsJustified' BY <1>1 DEF Justified, HitsJustified, reportVars, evalVars, Target
<1>3. \A d \in Checkers \ {c} : cpc'[d] = cpc[d] /\ mod'[d] = mod[d] /\ about'[d] = about[d]
  BY DEF RunOnce, ListByStatus, VerifyProof, ListByArtist, ReadModeration, UpsertBadge,
         RunFails, Quit, Shape, CheckType
<1>4. cpc'[c] = "read" /\ mod'[c] = "delist" => Reached(filed', about'[c])
  <2>1. cpc'[c] = "read" => ReadModeration(c)
    BY DEF RunOnce, ListByStatus, VerifyProof, ListByArtist, UpsertBadge, RunFails,
           Shape, CheckType
  <2>2. ASSUME ReadModeration(c), mod'[c] = "delist" PROVE Reached(filed', about'[c])
    <3>1. about'[c] = about[c] /\ filed' = filed /\ state[about[c]] = "delist"
      BY <1>1, <2>2 DEF ReadModeration, Shape, CheckType, reportVars
    <3>2. about[c] \in Targets
      BY <2>2 DEF ReadModeration, Shape, Recomputations, CheckType, Artists
    <3> QED BY <3>1, <3>2 DEF Justified, RestrictionJustified
  <2> QED BY <2>1, <2>2
<1>5. ReadsJustified'
  BY <1>1, <1>3, <1>4 DEF Justified, ReadsJustified, reportVars
<1>6. ASSUME NEW a \in Artists, badge'[a] = "flagged" PROVE Reached(filed', a)
  <2>1. CASE badge'[a] = badge[a]
    BY <1>1, <1>6, <2>1 DEF Justified, RestrictionJustified, reportVars
  <2>2. CASE badge'[a] # badge[a]
    <3>1. UpsertBadge(c)
      BY <2>2 DEF RunOnce, ListByStatus, VerifyProof, ListByArtist, ReadModeration,
                  RunFails, proofVars
    <3>2. cpc[c] = "read" /\ a = about[c] /\ ComputeBadge(snap[c], mod[c]) = "flagged"
      BY <1>6, <2>2, <3>1 DEF UpsertBadge, Shape, CheckType
    <3>3. mod[c] = "delist" BY <3>2 DEF ComputeBadge
    <3> QED BY <1>1, <3>2, <3>3 DEF Justified, ReadsJustified, reportVars
  <2> QED BY <2>1, <2>2
<1>7. RestrictionJustified'
  BY <1>1, <1>6 DEF Justified, RestrictionJustified, reportVars
<1> QED BY <1>2, <1>5, <1>7 DEF Justified

LEMMA JustifiedStep == Shape /\ Shape' /\ Justified /\ [Next]_vars => Justified'
<1> SUFFICES ASSUME Shape, Shape', Justified, [Next]_vars PROVE Justified' OBVIOUS
<1>1. ASSUME NEW h \in Handlers, Evaluate(h) PROVE Justified'
  BY <1>1, JustifiedInsert, JustifiedCount, JustifiedVerified, JustifiedFinish DEF Evaluate
<1>2. ASSUME NEW c \in Checkers, RunOnce(c) PROVE Justified' BY <1>2, JustifiedRun
<1>3. CASE AgeReport BY <1>3, JustifiedAge
<1>4. CASE SubmitProof \/ ExpireProof \/ UNCHANGED vars
  <2>1. UNCHANGED <<reportVars, evalVars, badge, checkVars>>
    BY <1>4 DEF SubmitProof, ExpireProof, vars, proofVars
  <2> QED BY <2>1 DEF Justified, HitsJustified, ReadsJustified, RestrictionJustified,
                     reportVars, evalVars, checkVars, Target
<1> QED BY <1>1, <1>2, <1>3, <1>4 DEF Next

LEMMA JustifiedInit == Init => Justified
<1>1. Init => HitsJustified /\ ReadsJustified BY DEF Init, HitsJustified, ReadsJustified
<1>2. Init => RestrictionJustified BY DEF Init, RestrictionJustified
<1> QED BY <1>1, <1>2 DEF Justified

\* Whatever evaluations and recomputations overlap, a target that does not read
\* "allow" and an artist with a "flagged" badge have had a threshold of reports.
THEOREM OnlyJustifiedRestrictions == Spec => []RestrictionJustified
<1>1. Init => Shape BY InitShape DEF Shape
<1>2. Init => Justified BY JustifiedInit
<1>3. Justified => RestrictionJustified BY DEF Justified
<1> QED BY <1>1, <1>2, <1>3, ShapeStep, JustifiedStep, PTL DEF Spec

-----------------------------------------------------------------------------
(* An evaluation that runs alone and to its end sees every report in its   *)
(* window.                                                                 *)

Pending(list, type) == \E i \in DOMAIN list : list[i] = type

Sees(h, type) ==
  Pending(left[h], type) \/
    (Enough(filed \ old[h], Target(h), type) => type \in hits[h])

AloneSees ==
  \A h \in Handlers : (pc[h] # "idle" /\ ~shared[h]) =>
    /\ \A g \in Handlers : (pc[g] # "idle" /\ Target(g) = Target(h)) => g = h
    /\ \A type : IsCounted(Target(h), type) => Sees(h, type)

Complete == AloneSees /\ ThresholdUnlessTroubled

LEMMA PendingTail ==
  ASSUME NEW s \in TypeLists, s # <<>>, NEW type, Pending(s, type)
  PROVE  type = Head(s) \/ Pending(Tail(s), type)
<1>1. PICK i \in DOMAIN s : s[i] = type BY DEF Pending
<1>2. CASE i = 1 BY <1>1, <1>2, ListHead
<1>3. CASE i # 1
  <2>1. i - 1 \in DOMAIN Tail(s) /\ Tail(s)[i - 1] = type BY <1>1, <1>3, ListHead
  <2> QED BY <2>1 DEF Pending
<1> QED BY <1>2, <1>3

LEMMA CompleteInsert ==
  ASSUME Shape, Complete, NEW h \in Handlers, InsertReport(h)
  PROVE  Complete'
<1> USE ReportsAssumption
<1>1. PICK r \in Reports \ filed :
        /\ filed' = filed \cup {r}
        /\ rep' = [rep EXCEPT ![h] = r]
        /\ left' = [left EXCEPT ![h] = Counted(KindOf[TargetOf[r]])]
        /\ shared' = [g \in Handlers |->
                        IF g = h THEN Evaluating(TargetOf[r]) # {}
                        ELSE shared[g] \/ g \in Evaluating(TargetOf[r])]
  BY DEF InsertReport
<1>2. /\ pc'[h] # "idle" /\ Target(h)' = TargetOf[r] /\ old'[h] = aged /\ aged' = aged
      /\ left'[h] = Counted(KindOf[TargetOf[r]])
  BY <1>1 DEF InsertReport, Target, Shape, ReportType
<1>3. \A g \in Handlers \ {h} :
        /\ pc'[g] = pc[g] /\ Target(g)' = Target(g) /\ old'[g] = old[g]
        /\ left'[g] = left[g] /\ hits'[g] = hits[g]
  BY <1>1 DEF InsertReport, Target, Shape, ReportType
\* A report of one target is none of another.
<1>4. ASSUME NEW R \in SUBSET Reports, NEW t \in Targets \ {TargetOf[r]}, NEW type
      PROVE  Filed(filed' \ R, t, type) = Filed(filed \ R, t, type)
  BY <1>1 DEF Filed
<1>5. AloneSees'
  <2> SUFFICES ASSUME NEW g \in Handlers, pc'[g] # "idle", ~shared'[g]
               PROVE  /\ \A k \in Handlers : (pc'[k] # "idle" /\ Target(k)' = Target(g)') => k = g
                      /\ \A type : IsCounted(Target(g)', type) => Sees(g, type)'
    BY DEF AloneSees
  <2>1. CASE g = h
    <3>1. Evaluating(TargetOf[r]) = {} BY <1>1, <2>1
    <3>2. \A k \in Handlers \ {h} : pc[k] # "idle" => Target(k) # TargetOf[r]
      BY <3>1 DEF Evaluating
    <3>3. \A type : IsCounted(Target(g)', type) => Pending(left'[g], type)
      BY <1>2, <2>1 DEF IsCounted, Pending
    <3> QED BY <1>2, <1>3, <2>1, <3>2, <3>3 DEF Sees
  <2>2. CASE g # h
    <3>1. pc[g] # "idle" /\ ~shared[g] /\ Target(g) # TargetOf[r]
      BY <1>1, <1>3, <2>2 DEF Evaluating
    <3>2. Target(g) \in Targets /\ old[g] \in SUBSET Reports
      BY <3>1 DEF Shape, ReportType, Evaluations, Target
    <3>3. \A k \in Handlers : (pc'[k] # "idle" /\ Target(k)' = Target(g)') => k = g
      BY <1>2, <1>3, <2>2, <3>1 DEF Complete, AloneSees
    <3>4. \A type : Enough(filed' \ old[g], Target(g), type) <=> Enough(filed \ old[g], Target(g), type)
      BY <1>4, <3>1, <3>2 DEF Enough
    <3>5. \A type : IsCounted(Target(g), type) => Sees(g, type)
      BY <3>1 DEF Complete, AloneSees
    <3>6. \A type : IsCounted(Target(g), type) => Sees(g, type)'
      BY <1>3, <2>2, <3>4, <3>5 DEF Sees
    <3> QED BY <1>3, <2>2, <3>3, <3>6
  <2> QED BY <2>1, <2>2
<1>6. ASSUME NEW t \in Targets \ troubled', Evaluating(t)' = {}, Reached(filed' \ aged', t)
      PROVE  state'[t] # "allow"
  <2>1. t # TargetOf[r] BY <1>2, <1>6 DEF Evaluating
  <2>2. \A g \in Handlers : pc[g] # "idle" => pc'[g] # "idle" /\ Target(g)' = Target(g)
    BY <1>3 DEF InsertReport
  <2>3. Evaluating(t) = {} BY <1>6, <2>2 DEF Evaluating
  <2>4. \A type : Enough(filed' \ aged, t, type) => Enough(filed \ aged, t, type)
    BY <1>4, <2>1 DEF Enough, Shape, ReportType
  <2>5. Reached(filed \ aged, t) BY <1>2, <1>6, <2>4, ReachedByType
  <2> QED BY <2>3, <2>5 DEF Complete, ThresholdUnlessTroubled, InsertReport
<1> QED BY <1>5, <1>6 DEF Complete, ThresholdUnlessTroubled

LEMMA CompleteCount ==
  ASSUME Shape, Complete, NEW h \in Handlers, CountReports(h)
  PROVE  Complete'
<1> DEFINE type == Head(left[h])
<1>1. /\ filed' = filed /\ aged' = aged /\ state' = state /\ UNCHANGED <<pc, rep, old, shared, troubled>>
      /\ \A g \in Handlers : Target(g)' = Target(g)
  BY DEF CountReports, reportVars, Target
<1>2. Target(h) \in Targets /\ pc[h] # "idle"
  BY ReportsAssumption DEF CountReports, Shape, ReportType, Evaluations, Target
<1>3. left[h] \in TypeLists /\ left[h] # <<>> BY DEF CountReports, Shape, ReportType
<1>4. /\ left'[h] = Tail(left[h]) /\ hits[h] \subseteq hits'[h]
      /\ Cardinality(InWindow(h, type)) >= Threshold(Kind(h), type) => type \in hits'[h]
  BY DEF CountReports, Shape, ReportType
<1>5. \A g \in Handlers \ {h} : left'[g] = left[g] /\ hits'[g] = hits[g]
  BY DEF CountReports, Shape, ReportType
<1>6. \A other : Pending(left[h], other) => other = type \/ Pending(left'[h], other)
  BY <1>3, <1>4, PendingTail
<1>7. Enough(filed \ old[h], Target(h), type) => type \in hits'[h]
  BY <1>4 DEF Enough, Filed, InWindow, Kind
<1>8. \A other : Sees(h, other) => Sees(h, other)'
  BY <1>1, <1>4, <1>6, <1>7 DEF Sees
<1>9. \A g \in Handlers : \A other : Sees(g, other) => Sees(g, other)'
  BY <1>1, <1>5, <1>8 DEF Sees
<1>10. AloneSees' BY <1>1, <1>9 DEF Complete, AloneSees
<1>11. ThresholdUnlessTroubled'
  BY <1>1 DEF Complete, ThresholdUnlessTroubled, Evaluating
<1> QED BY <1>10, <1>11 DEF Complete

LEMMA CompleteVerified ==
  ASSUME Shape, Complete, NEW h \in Handlers, IsArtistVerified(h)
  PROVE  Complete'
<1>1. /\ UNCHANGED <<filed, aged, state, rep, old, left, hits, shared, troubled>>
      /\ \A g \in Handlers : pc'[g] # "idle" <=> pc[g] # "idle"
  BY DEF IsArtistVerified, reportVars, Shape, ReportType
<1>2. AloneSees' BY <1>1 DEF Complete, AloneSees, Sees, Target
<1>3. ThresholdUnlessTroubled'
  BY <1>1 DEF Complete, ThresholdUnlessTroubled, Evaluating, Target
<1> QED BY <1>2, <1>3 DEF Complete

LEMMA CompleteFinish ==
  ASSUME Shape, Justified, Complete, NEW h \in Handlers, UpsertState(h) \/ EvaluationFails(h)
  PROVE  Complete'
<1>1. Finish(h) /\ filed' = filed /\ aged' = aged
  BY DEF UpsertState, EvaluationFails, reportVars
<1>2. Target(h) \in Targets /\ pc[h] # "idle"
  BY ReportsAssumption
  DEF UpsertState, EvaluationFails, Shape, ReportType, Evaluations, Target
<1>3. \A g \in Handlers : /\ pc'[g] # "idle" => g # h
                          /\ g # h => pc'[g] = pc[g] /\ Target(g)' = Target(g)
  BY <1>1, FinishOthers DEF Target
<1>4. AloneSees'
  <2>1. \A g \in Handlers \ {h} : \A type : Sees(g, type) => Sees(g, type)'
    BY <1>1, <1>3, FinishOthers DEF Sees
  <2>2. \A g \in Handlers \ {h} : shared'[g] = shared[g] BY <1>1, FinishOthers
  <2> QED BY <1>3, <2>1, <2>2 DEF Complete, AloneSees
<1>5. ASSUME NEW t \in Targets \ troubled', Evaluating(t)' = {}, Reached(filed' \ aged', t)
      PROVE  state'[t] # "allow"
  <2>1. CASE t # Target(h)
    <3>1. t \notin troubled /\ state'[t] = state[t]
      BY <1>5, <2>1 DEF UpsertState, EvaluationFails, reportVars, Shape, ReportType
    <3>2. Evaluating(t) = {} BY <1>3, <1>5, <2>1 DEF Evaluating
    <3> QED BY <1>1, <1>5, <3>1, <3>2 DEF Complete, ThresholdUnlessTroubled
  <2>2. CASE t = Target(h)
    <3>1. UpsertState(h) /\ ~shared[h]
      BY <1>5, <2>2 DEF UpsertState, EvaluationFails
    <3>2. left[h] = <<>> /\ old[h] \subseteq aged
      BY <3>1 DEF UpsertState, Shape, Evaluations
    <3>3. PICK type : Enough(filed \ aged, t, type) BY <1>1, <1>5, ReachedByType
    <3>4. Enough(filed \ old[h], t, type)
      BY <3>2, <3>3, MoreReports DEF Shape, ReportType
    <3>5. type \in hits[h]
      <4>1. IsCounted(t, type) BY <3>3 DEF Enough
      <4>2. ~Pending(left[h], type) BY <3>2 DEF Pending
      <4> QED BY <1>2, <2>2, <3>1, <3>4, <4>1, <4>2 DEF Complete, AloneSees, Sees
    <3>6. \A other \in hits[h] : IsCounted(t, other)
      BY <1>2, <2>2 DEF Justified, HitsJustified, Enough
    <3>7. Decision(KindOf[t], hits[h], trusted[h]) # "allow"
      BY <3>5, <3>6, DecisionRestricts
    <3> QED BY <1>2, <2>2, <3>1, <3>7 DEF UpsertState, Kind, Shape, ReportType
  <2> QED BY <2>1, <2>2
<1> QED BY <1>4, <1>5 DEF Complete, ThresholdUnlessTroubled

LEMMA CompleteAge ==
  ASSUME Shape, Complete, AgeReport
  PROVE  Complete'
<1>1. PICK r \in filed \ aged : aged' = aged \cup {r} /\ UNCHANGED <<filed, state, evalVars>>
  BY DEF AgeReport
<1>2. AloneSees' BY <1>1 DEF Complete, AloneSees, Sees, evalVars, Target
<1>3. \A t \in Targets : Reached(filed' \ aged', t) => Reached(filed \ aged, t)
  BY <1>1, MoreReached DEF Shape, ReportType
<1>4. \A t \in Targets : Evaluating(t)' = {} => Evaluating(t) = {}
  BY <1>1 DEF Evaluating, Target, evalVars
<1>5. ThresholdUnlessTroubled'
  BY <1>1, <1>3, <1>4 DEF Complete, ThresholdUnlessTroubled, evalVars
<1> QED BY <1>2, <1>5 DEF Complete

LEMMA CompleteStep == Shape /\ Justified /\ Complete /\ [Next]_vars => Complete'
<1> SUFFICES ASSUME Shape, Justified, Complete, [Next]_vars PROVE Complete' OBVIOUS
<1>1. ASSUME NEW h \in Handlers, Evaluate(h) PROVE Complete'
  BY <1>1, CompleteInsert, CompleteCount, CompleteVerified, CompleteFinish DEF Evaluate
<1>2. CASE AgeReport BY <1>2, CompleteAge
<1>3. ASSUME UNCHANGED <<reportVars, evalVars>> PROVE Complete'
  <2>1. AloneSees' BY <1>3 DEF Complete, AloneSees, Sees, reportVars, evalVars, Target
  <2>2. ThresholdUnlessTroubled'
    BY <1>3 DEF Complete, ThresholdUnlessTroubled, Evaluating, reportVars, evalVars, Target
  <2> QED BY <2>1, <2>2 DEF Complete
<1>4. ASSUME NEW c \in Checkers, RunOnce(c) PROVE Complete' BY <1>3, <1>4, CheckersFrame
<1>5. CASE SubmitProof \/ ExpireProof BY <1>3, <1>5, CheckersFrame
<1>6. CASE UNCHANGED vars BY <1>3, <1>6 DEF vars
<1> QED BY <1>1, <1>2, <1>4, <1>5, <1>6 DEF Next

LEMMA InitReached ==
  ASSUME Init, NEW t \in Targets
  PROVE  ~Reached(filed \ aged, t)
<1> SUFFICES ASSUME NEW type, Enough({}, t, type) PROVE FALSE
  BY ReachedByType DEF Init
<1>1. Filed({}, t, type) = {} BY DEF Filed
<1>2. Cardinality(Filed({}, t, type)) = 0 BY <1>1, FS_EmptySet
<1>3. Threshold(KindOf[t], type) \in Nat \ {0} BY CountedTypes
<1> QED BY <1>2, <1>3 DEF Enough

\* Once a target's last evaluation ran alone and to its end, a threshold of
\* reports inside the window keeps the target from reading "allow".
THEOREM ReachedIsRestricted == Spec => []ThresholdUnlessTroubled
<1>1. Init => Shape BY InitShape DEF Shape
<1>2. Init => Justified BY JustifiedInit
<1>3. Init => Complete
  <2>1. Init => AloneSees BY DEF Init, AloneSees
  <2>2. Init => ThresholdUnlessTroubled BY InitReached DEF ThresholdUnlessTroubled
  <2> QED BY <2>1, <2>2 DEF Complete
<1>4. Complete => ThresholdUnlessTroubled BY DEF Complete
<1> QED BY <1>1, <1>2, <1>3, <1>4, ShapeStep, JustifiedStep, CompleteStep, PTL DEF Spec

-----------------------------------------------------------------------------
(* Badges, for recomputations of an artist that do not overlap.            *)

Recomputes(c, a) == cpc[c] \in {"listed", "read"} /\ about[c] = a

\* Runs of the worker may overlap, but not while they recompute one artist.
OneRecomputation ==
  \A a \in Artists : \A c, d \in Checkers : Recomputes(c, a) /\ Recomputes(d, a) => c = d

Earned(a) == badge[a] \in {"flagged", ComputeBadge(VerifiedTypes(a), "allow")}

\* The run has still to store the badge, from the types the artist has now.
Due(c, a) == a \in affected[c] /\ (Recomputes(c, a) => snap[c] = VerifiedTypes(a))

\* Some run is going to store the badge the artist's proofs earn, unless it
\* stands; a run that listed the artist's proofs too early is not the last one.
Answered(a) == Earned(a) \/ \E c \in Checkers : Due(c, a)
Current(a) ==
  \A c \in Checkers : Recomputes(c, a) =>
    snap[c] = VerifiedTypes(a) \/ \E d \in Checkers \ {c} : a \in affected[d]

Followed == \A a \in Artists \ missed : Answered(a) /\ Current(a)

LEMMA BadgeOfState ==
  ASSUME NEW types, NEW moderation
  PROVE  ComputeBadge(types, moderation) \in {"flagged", ComputeBadge(types, "allow")}
BY DEF ComputeBadge

\* Steps that neither take an artist from a run nor start to recompute it.
LEMMA FollowedKept ==
  ASSUME NEW a, Answered(a), Current(a), badge'[a] = badge[a],
         VerifiedTypes(a)' = VerifiedTypes(a),
         \A c \in Checkers : a \in affected[c] => a \in affected'[c],
         \A c \in Checkers : Recomputes(c, a)' => Recomputes(c, a) /\ snap'[c] = snap[c]
  PROVE  Answered(a)' /\ Current(a)'
<1>1. \A c \in Checkers : Due(c, a) => Due(c, a)' BY DEF Due
<1>2. Answered(a)' BY <1>1 DEF Answered, Earned
<1>3. Current(a)' BY DEF Current
<1> QED BY <1>2, <1>3

LEMMA FollowedListByStatus ==
  ASSUME Shape, Followed, NEW c \in Checkers, ListByStatus(c)
  PROVE  Followed'
<1>1. /\ UNCHANGED <<proof, badge, affected, about, snap, missed>>
      /\ \A d \in Checkers : cpc'[d] \in {"listed", "read"} <=> cpc[d] \in {"listed", "read"}
  BY DEF ListByStatus, proofVars, Shape, CheckType
<1>2. ASSUME NEW a \in Artists \ missed' PROVE Answered(a)' /\ Current(a)'
  <2>1. VerifiedTypes(a)' = VerifiedTypes(a) BY <1>1 DEF VerifiedTypes
  <2>2. \A d \in Checkers : Recomputes(d, a)' => Recomputes(d, a) BY <1>1 DEF Recomputes
  <2>3. Answered(a) /\ Current(a) BY <1>1 DEF Followed
  <2> QED BY <1>1, <2>1, <2>2, <2>3, FollowedKept
<1> QED BY <1>2 DEF Followed

LEMMA FollowedListByArtist ==
  ASSUME Shape, Shape', OneRecomputation', Followed, NEW c \in Checkers, ListByArtist(c)
  PROVE  Followed'
<1>1. PICK a \in affected[c] :
        /\ about' = [about EXCEPT ![c] = a]
        /\ snap' = [snap EXCEPT ![c] = VerifiedTypes(a)]
        /\ missed' = missed \ {a}
  BY DEF ListByArtist
<1>2. /\ Recomputes(c, a)' /\ snap'[c] = VerifiedTypes(a) /\ cpc[c] = "checking"
      /\ UNCHANGED <<proof, badge, affected>>
      /\ \A d \in Checkers : d # c =>
           cpc'[d] = cpc[d] /\ about'[d] = about[d] /\ snap'[d] = snap[d]
  BY <1>1 DEF ListByArtist, proofVars, Shape, CheckType, Recomputes
<1>3. a \in Artists BY <1>1 DEF Shape, CheckType
<1>4. \A b : VerifiedTypes(b)' = VerifiedTypes(b) BY <1>2 DEF VerifiedTypes
<1>5. Answered(a)' /\ Current(a)'
  <2>1. Due(c, a)' BY <1>1, <1>2, <1>4 DEF Due
  <2>2. \A d \in Checkers : Recomputes(d, a)' => d = c BY <1>2, <1>3 DEF OneRecomputation
  <2> QED BY <1>2, <1>4, <2>1, <2>2 DEF Answered, Current
<1>6. ASSUME NEW b \in Artists \ missed', b # a PROVE Answered(b)' /\ Current(b)'
  <2>1. Answered(b) /\ Current(b) BY <1>1, <1>6 DEF Followed
  <2>2. \A d \in Checkers : Recomputes(d, b)' => Recomputes(d, b) /\ snap'[d] = snap[d]
    BY <1>1, <1>2, <1>6 DEF Recomputes, Shape, CheckType
  <2> QED BY <1>2, <1>4, <2>1, <2>2, FollowedKept
<1> QED BY <1>5, <1>6 DEF Followed

LEMMA VerifiedTypesOfOthers ==
  ASSUME NEW p \in Proofs, NEW s, NEW a, a # ArtistOf[p], CheckType,
         proof' = [proof EXCEPT ![p] = s]
  PROVE  VerifiedTypes(a)' = VerifiedTypes(a)
BY DEF VerifiedTypes, CheckType

\* The run that stores a status has the artist to recompute, and has not listed
\* the artist's proofs.
LEMMA FollowedVerify ==
  ASSUME Shape, Followed, NEW c \in Checkers, VerifyProof(c)
  PROVE  Followed'
<1>1. PICK p \in todo[c], s \in {"verified", "failed"} :
        /\ proof' = [proof EXCEPT ![p] = s]
        /\ affected' = [affected EXCEPT ![c] = @ \cup {ArtistOf[p]}]
        /\ missed' = missed \ {ArtistOf[p]}
  BY DEF VerifyProof
<1>2. /\ UNCHANGED <<badge, cpc, about, snap>> /\ cpc[c] = "checking" /\ p \in Proofs
      /\ ArtistOf[p] \in affected'[c]
      /\ \A d \in Checkers : affected[d] \subseteq affected'[d]
  BY <1>1 DEF VerifyProof, Shape, CheckType
<1>3. \A d, b : Recomputes(d, b)' = Recomputes(d, b) BY <1>2 DEF Recomputes
<1>4. Answered(ArtistOf[p])' /\ Current(ArtistOf[p])'
  <2> DEFINE a == ArtistOf[p]
  <2>1. ~ Recomputes(c, a)' BY <1>2 DEF Recomputes
  <2>2. a \in affected'[c] BY <1>2
  <2> HIDE DEF a
  <2>3. Due(c, a)' BY <2>1, <2>2 DEF Due
  <2>4. Current(a)' BY <2>1, <2>2 DEF Current
  <2>5. Answered(a)' BY <2>3 DEF Answered
  <2> QED BY <2>4, <2>5 DEF a
<1>5. ASSUME NEW b \in Artists \ missed', b # ArtistOf[p] PROVE Answered(b)' /\ Current(b)'
  <2>1. Answered(b) /\ Current(b) BY <1>1, <1>5 DEF Followed
  <2>2. VerifiedTypes(b)' = VerifiedTypes(b)
    BY <1>1, <1>2, <1>5, VerifiedTypesOfOthers DEF Shape
  <2> QED BY <1>2, <1>3, <2>1, <2>2, FollowedKept
<1> QED BY <1>4, <1>5 DEF Followed

LEMMA FollowedProof ==
  ASSUME Shape, Followed, SubmitProof \/ ExpireProof
  PROVE  Followed'
<1>1. UNCHANGED <<badge, checkVars>> /\ missed \subseteq missed'
  BY DEF SubmitProof, ExpireProof
<1>2. ASSUME NEW a \in Artists \ missed' PROVE VerifiedTypes(a)' = VerifiedTypes(a)
  <2>1. CASE SubmitProof
    <3>1. PICK p \in Proofs : proof[p] = "absent" /\ proof' = [proof EXCEPT ![p] = "pending"]
      BY <2>1 DEF SubmitProof
    <3>2. \A q \in Proofs : proof'[q] = "verified" <=> proof[q] = "verified"
      BY <3>1 DEF Shape, CheckType
    <3> QED BY <3>2 DEF VerifiedTypes
  <2>2. CASE ExpireProof
    <3>1. PICK p \in Proofs : /\ proof' = [proof EXCEPT ![p] = "expired"]
                              /\ missed' = missed \cup {ArtistOf[p]}
      BY <2>2 DEF ExpireProof
    <3> QED BY <1>2, <3>1, VerifiedTypesOfOthers DEF Shape
  <2> QED BY <2>1, <2>2
<1>3. ASSUME NEW a \in Artists \ missed' PROVE Answered(a)' /\ Current(a)'
  <2>1. Answered(a) /\ Current(a) BY <1>1 DEF Followed
  <2>2. \A c \in Checkers : Recomputes(c, a)' = Recomputes(c, a)
    BY <1>1 DEF Recomputes, checkVars
  <2> QED BY <1>1, <1>2, <2>1, <2>2, FollowedKept DEF checkVars
<1> QED BY <1>3 DEF Followed

LEMMA FollowedReadModeration ==
  ASSUME Shape, Followed, NEW c \in Checkers, ReadModeration(c)
  PROVE  Followed'
<1>1. /\ UNCHANGED <<proof, badge, affected, about, snap, missed>>
      /\ \A d \in Checkers : cpc'[d] \in {"listed", "read"} <=> cpc[d] \in {"listed", "read"}
  BY DEF ReadModeration, proofVars, Shape, CheckType
<1>2. ASSUME NEW a \in Artists \ missed' PROVE Answered(a)' /\ Current(a)'
  <2>1. VerifiedTypes(a)' = VerifiedTypes(a) BY <1>1 DEF VerifiedTypes
  <2>2. \A d \in Checkers : Recomputes(d, a)' => Recomputes(d, a) BY <1>1 DEF Recomputes
  <2>3. Answered(a) /\ Current(a) BY <1>1 DEF Followed
  <2> QED BY <1>1, <2>1, <2>2, <2>3, FollowedKept
<1> QED BY <1>2 DEF Followed

\* The run has no artist in hand afterwards, and other runs have theirs.
LEMMA RunLeavesArtist ==
  ASSUME Shape, NEW c \in Checkers, UpsertBadge(c) \/ RunFails(c), NEW a \in Artists
  PROVE  /\ VerifiedTypes(a)' = VerifiedTypes(a) /\ ~ Recomputes(c, a)'
         /\ \A d \in Checkers : Recomputes(d, a)' => Recomputes(d, a) /\ snap'[d] = snap[d]
         /\ \A d \in Checkers \ {c} : affected'[d] = affected[d]
<1>1. /\ cpc'[c] \notin {"listed", "read"} /\ proof' = proof
      /\ \A d \in Checkers : d # c => /\ cpc'[d] = cpc[d] /\ about'[d] = about[d]
                                      /\ snap'[d] = snap[d] /\ affected'[d] = affected[d]
  BY DEF UpsertBadge, RunFails, Quit, Shape, CheckType, proofVars
<1>2. VerifiedTypes(a)' = VerifiedTypes(a) BY <1>1 DEF VerifiedTypes
<1> QED BY <1>1, <1>2 DEF Recomputes

LEMMA FollowedUpsertBadge ==
  ASSUME Shape, OneRecomputation, Followed, NEW c \in Checkers, UpsertBadge(c)
  PROVE  Followed'
<1>1. PICK a \in Artists :
        /\ Recomputes(c, a) /\ missed' = missed
        /\ badge' = [badge EXCEPT ![a] = ComputeBadge(snap[c], mod[c])]
        /\ affected' = [affected EXCEPT ![c] = @ \ {a}]
  BY DEF UpsertBadge, Shape, CheckType, Recomputations, Recomputes
<1>2. ASSUME a \notin missed PROVE Answered(a)' /\ Current(a)'
  <2>1. Current(a) BY <1>1, <1>2 DEF Followed
  <2>2. \A d \in Checkers : ~ Recomputes(d, a)'
    <3>1. \A d \in Checkers : Recomputes(d, a) => d = c BY <1>1 DEF OneRecomputation
    <3> QED BY <1>1, <3>1, RunLeavesArtist
  <2>3. CASE snap[c] = VerifiedTypes(a)
    <3>1. badge'[a] = ComputeBadge(VerifiedTypes(a), mod[c])
      BY <1>1, <2>3 DEF Shape, CheckType
    <3>2. VerifiedTypes(a)' = VerifiedTypes(a) BY <1>1, RunLeavesArtist
    <3>3. Earned(a)' BY <3>1, <3>2, BadgeOfState DEF Earned
    <3> QED BY <2>2, <3>3 DEF Answered, Current
  <2>4. CASE snap[c] # VerifiedTypes(a)
    <3>1. PICK d \in Checkers \ {c} : a \in affected[d] BY <1>1, <2>1, <2>4 DEF Current
    <3>2. affected'[d] = affected[d] BY <1>1, <3>1, RunLeavesArtist
    <3>3. Due(d, a)' BY <2>2, <3>1, <3>2 DEF Due
    <3> QED BY <2>2, <3>3 DEF Answered, Current
  <2> QED BY <2>3, <2>4
<1>3. ASSUME NEW b \in Artists \ missed', b # a PROVE Answered(b)' /\ Current(b)'
  <2>1. Answered(b) /\ Current(b) BY <1>1, <1>3 DEF Followed
  <2>2. badge'[b] = badge[b] BY <1>1, <1>3 DEF Shape, CheckType
  <2>3. \A d \in Checkers : b \in affected[d] => b \in affected'[d]
    BY <1>1, <1>3 DEF Shape, CheckType
  <2> QED BY <1>3, <2>1, <2>2, <2>3, RunLeavesArtist, FollowedKept
<1> QED BY <1>1, <1>2, <1>3 DEF Followed

LEMMA FollowedRunFails ==
  ASSUME Shape, Followed, NEW c \in Checkers, RunFails(c)
  PROVE  Followed'
<1>1. missed' = missed \cup affected[c] /\ badge' = badge BY DEF RunFails, proofVars
<1>2. ASSUME NEW a \in Artists \ missed' PROVE Answered(a)' /\ Current(a)'
  <2>1. Answered(a) /\ Current(a) BY <1>1 DEF Followed
  <2>2. \A d \in Checkers : a \in affected[d] => a \in affected'[d]
    BY <1>1, <1>2, RunLeavesArtist
  <2> QED BY <1>1, <1>2, <2>1, <2>2, RunLeavesArtist, FollowedKept
<1> QED BY <1>2 DEF Followed

LEMMA FollowedStep ==
  Shape /\ Shape' /\ OneRecomputation /\ OneRecomputation' /\ Followed /\ [Next]_vars => Followed'
<1> SUFFICES ASSUME Shape, Shape', OneRecomputation, OneRecomputation', Followed, [Next]_vars
             PROVE  Followed'
  OBVIOUS
<1>1. ASSUME NEW c \in Checkers, RunOnce(c) PROVE Followed'
  BY <1>1, FollowedListByStatus, FollowedVerify, FollowedListByArtist,
     FollowedReadModeration, FollowedUpsertBadge, FollowedRunFails DEF RunOnce
<1>2. CASE SubmitProof \/ ExpireProof BY <1>2, FollowedProof
<1>3. ASSUME UNCHANGED <<proofVars, checkVars, missed>> PROVE Followed'
  BY <1>3 DEF Followed, Answered, Current, Due, Recomputes, Earned, VerifiedTypes,
              proofVars, checkVars
<1>4. ASSUME NEW h \in Handlers, Evaluate(h) PROVE Followed' BY <1>3, <1>4, HandlersFrame
<1>5. CASE AgeReport BY <1>3, <1>5, HandlersFrame
<1>6. CASE UNCHANGED vars BY <1>3, <1>6 DEF vars
<1> QED BY <1>1, <1>2, <1>4, <1>5, <1>6 DEF Next

\* As long as no two runs recompute an artist at once, an artist no run is to
\* recompute has the badge the verified proofs earn, or "flagged", but for a
\* proof that expired since and the artists a failed run had in hand.
THEOREM BadgesFollowProofs == Spec /\ []OneRecomputation => []BadgeMatchesProofs
<1>1. Init => Shape BY InitShape DEF Shape
<1>2. Init => Followed
  <2> SUFFICES ASSUME Init PROVE Followed OBVIOUS
  <2>1. \A a \in Artists : Earned(a) BY DEF Init, Earned, VerifiedTypes, ComputeBadge, ProofTypes
  <2>2. \A c \in Checkers : cpc[c] \notin {"listed", "read"} BY DEF Init
  <2> QED BY <2>1, <2>2 DEF Followed, Answered, Current, Recomputes
<1>3. Followed => BadgeMatchesProofs
  BY DEF Followed, Answered, Due, Earned, BadgeMatchesProofs
<1>4. /\ Shape /\ Shape' /\ OneRecomputation /\ OneRecomputation' /\ Followed /\ [Next]_vars
      => Followed'
  BY FollowedStep
<1> QED BY <1>1, <1>2, <1>3, <1>4, ShapeStep, PTL DEF Spec

-----------------------------------------------------------------------------
(* The two races are all that breaks what the tests expect.                *)

\* Evaluations of a target do not overlap.
OneByOne ==
  \A g, h \in Handlers :
    (pc[g] # "idle" /\ pc[h] # "idle" /\ Target(g) = Target(h)) => g = h

\* Only a failed evaluation leaves a target troubled.
FailuresOnly ==
  /\ \A h \in Handlers : ~shared[h]
  /\ \A t \in troubled : \E r \in failed : TargetOf[r] = t

LEMMA FailuresStep ==
  Shape /\ Shape' /\ OneByOne' /\ FailuresOnly /\ [Next]_vars => FailuresOnly'
<1> SUFFICES ASSUME Shape, Shape', OneByOne', FailuresOnly, [Next]_vars
             PROVE  FailuresOnly'
  OBVIOUS
<1> USE DEF FailuresOnly
<1>1. ASSUME NEW h \in Handlers, InsertReport(h) PROVE FailuresOnly'
  <2>1. PICK r \in Reports \ filed :
          /\ rep' = [rep EXCEPT ![h] = r]
          /\ shared' = [g \in Handlers |->
                          IF g = h THEN Evaluating(TargetOf[r]) # {}
                          ELSE shared[g] \/ g \in Evaluating(TargetOf[r])]
    BY <1>1 DEF InsertReport
  <2>2. /\ pc[h] = "idle" /\ pc'[h] # "idle" /\ Target(h)' = TargetOf[r]
        /\ \A g \in Handlers \ {h} : pc'[g] = pc[g] /\ Target(g)' = Target(g)
    BY <1>1, <2>1 DEF InsertReport, Target, Shape, ReportType
  <2>3. Evaluating(TargetOf[r]) = {} BY <2>2 DEF OneByOne, Evaluating
  <2>4. \A g \in Handlers : ~shared'[g] BY <2>1, <2>3
  <2> QED BY <1>1, <2>4 DEF InsertReport
<1>2. ASSUME NEW h \in Handlers, UpsertState(h) PROVE FailuresOnly'
  BY <1>2 DEF UpsertState, Finish, Shape, ReportType
<1>3. ASSUME NEW h \in Handlers, EvaluationFails(h) PROVE FailuresOnly'
  <2>1. /\ failed' = failed \cup {rep[h]} /\ troubled' = troubled \cup {Target(h)}
        /\ \A g \in Handlers : ~shared'[g]
    BY <1>3 DEF EvaluationFails, Finish, Shape, ReportType
  <2> QED BY <2>1 DEF Target
<1>4. CASE UNCHANGED <<shared, troubled, failed>> BY <1>4
<1>5. ASSUME NEW c \in Checkers, RunOnce(c) PROVE FailuresOnly'
  BY <1>4, <1>5, CheckersFrame DEF evalVars
<1> QED
  BY <1>1, <1>2, <1>3, <1>4, <1>5
  DEF Next, Evaluate, CountReports, IsArtistVerified, AgeReport, SubmitProof, ExpireProof,
      vars, evalVars

\* Of evaluations that neither overlap another of their target nor fail, what the
\* tests expect is true: an answered threshold of reports restricts the target.
THEOREM HoldsOneByOne == Spec /\ []OneByOne => [](failed = {} => ThresholdHolds)
<1>1. Init => Shape BY InitShape DEF Shape
<1>2. Init => FailuresOnly BY DEF Init, FailuresOnly
<1>3. FailuresOnly /\ ThresholdUnlessTroubled => (failed = {} => ThresholdHolds)
  <2> SUFFICES ASSUME FailuresOnly, ThresholdUnlessTroubled, failed = {},
                      NEW t \in Targets, Quiet(t), Reached(filed \ (aged \cup failed), t)
               PROVE  state[t] # "allow"
    BY DEF ThresholdHolds
  <2>1. t \notin troubled BY DEF FailuresOnly
  <2>2. filed \ (aged \cup failed) = filed \ aged OBVIOUS
  <2> QED BY <2>1, <2>2 DEF ThresholdUnlessTroubled, Quiet
<1> QED
  BY <1>1, <1>2, <1>3, ShapeStep, FailuresStep, ReachedIsRestricted, PTL DEF Spec

\* No evaluation has read the badge of an artist, and not stored its decision,
\* while a run has read the artist's state, and not stored its badge.
NoCrossing ==
  \A h \in Handlers, c \in Checkers :
    ~ (pc[h] = "decided" /\ cpc[c] = "read" /\ Target(h) = about[c])

\* What each has read is still true of the other's half.
Uncrossed ==
  /\ \A a \in Artists : state[a] = "delist" => badge[a] \notin Trusted
  /\ \A h \in Handlers : pc[h] = "decided" =>
       Target(h) \in Artists /\ (trusted[h] \/ badge[Target(h)] \notin Trusted)
  /\ \A c \in Checkers : cpc[c] = "read" => mod[c] = "delist" \/ state[about[c]] # "delist"

LEMMA UncrossedEvaluate ==
  ASSUME Shape, Shape', NoCrossing, Uncrossed, NEW h \in Handlers, Evaluate(h)
  PROVE  Uncrossed'
<1> USE DEF Uncrossed
<1>1. UNCHANGED <<badge, checkVars>> BY HandlersFrame DEF proofVars
<1>2. \A g \in Handlers \ {h} :
        pc'[g] = pc[g] /\ Target(g)' = Target(g) /\ trusted'[g] = trusted[g]
  BY DEF Evaluate, InsertReport, CountReports, IsArtistVerified, UpsertState,
         EvaluationFails, Finish, Target, Shape, ReportType
<1>3. CASE InsertReport(h) \/ CountReports(h) \/ EvaluationFails(h)
  <2>1. state' = state /\ pc'[h] # "decided"
    BY <1>3 DEF InsertReport, CountReports, EvaluationFails, Finish, reportVars, Shape, ReportType
  <2> QED BY <1>1, <1>2, <2>1 DEF checkVars
<1>4. CASE IsArtistVerified(h)
  <2>1. /\ state' = state /\ Target(h)' = Target(h)
        /\ trusted'[h] = (badge[Target(h)] \in Trusted) /\ Kind(h) = "artist"
        /\ pc[h] # "idle"
    BY <1>4 DEF IsArtistVerified, reportVars, Target, Shape, ReportType
  <2>2. Target(h) \in Artists
    BY <2>1, ReportsAssumption DEF Kind, Artists, Shape, ReportType, Evaluations, Target
  <2> QED BY <1>1, <1>2, <2>1, <2>2 DEF checkVars
<1>5. CASE UpsertState(h)
  <2> DEFINE t == Target(h)
             d == Decision(Kind(h), hits[h], trusted[h])
  <2>1. state' = [state EXCEPT ![t] = d] /\ pc'[h] # "decided"
    BY <1>5 DEF UpsertState, Finish, Shape, ReportType
  <2>2. ASSUME d = "delist" PROVE pc[h] = "decided" /\ t \in Artists /\ badge[t] \notin Trusted
    <3>1. Kind(h) = "artist" /\ hits[h] # {} /\ ~trusted[h] BY <2>2 DEF Decision
    <3>2. pc[h] = "decided" BY <1>5, <3>1 DEF UpsertState
    <3> QED BY <3>1, <3>2
  <2>3. t \in Targets
    BY <1>5, ReportsAssumption DEF UpsertState, Shape, ReportType, Evaluations, Target
  <2>4. \A x \in Targets : state'[x] = IF x = t THEN d ELSE state[x]
    BY <2>1, <2>3 DEF Shape, ReportType
  <2>5. \A c \in Checkers : cpc[c] = "read" => about[c] \in Targets
    BY DEF Shape, Recomputations, CheckType, Artists
  <2> HIDE DEF d, t
  <2>6. ASSUME NEW a \in Artists, state'[a] = "delist" PROVE badge'[a] \notin Trusted
    <3>1. a \in Targets BY DEF Artists
    <3> QED BY <1>1, <2>2, <2>4, <2>6, <3>1
  <2>7. ASSUME NEW c \in Checkers, cpc'[c] = "read"
        PROVE  mod'[c] = "delist" \/ state'[about'[c]] # "delist"
    <3>1. cpc[c] = "read" /\ mod'[c] = mod[c] /\ about'[c] = about[c] BY <1>1, <2>7 DEF checkVars
    <3>2. CASE about[c] # t BY <2>4, <2>5, <3>1, <3>2
    <3>3. CASE about[c] = t
      <4>1. pc[h] # "decided" BY <3>1, <3>3 DEF NoCrossing, t
      <4> QED BY <2>2, <2>4, <2>5, <3>1, <3>3, <4>1
    <3> QED BY <3>2, <3>3
  <2> QED BY <1>1, <1>2, <2>1, <2>6, <2>7
<1> QED BY <1>3, <1>4, <1>5 DEF Evaluate

LEMMA UncrossedRun ==
  ASSUME Shape, Shape', NoCrossing, Uncrossed, NEW c \in Checkers, RunOnce(c)
  PROVE  Uncrossed'
<1> USE DEF Uncrossed
<1>1. UNCHANGED <<reportVars, evalVars>> BY CheckersFrame
<1>2. \A h \in Handlers : Target(h)' = Target(h) BY <1>1 DEF evalVars, Target
<1>3. \A d \in Checkers \ {c} : cpc'[d] = cpc[d] /\ mod'[d] = mod[d] /\ about'[d] = about[d]
  BY DEF RunOnce, ListByStatus, VerifyProof, ListByArtist, ReadModeration, UpsertBadge,
         RunFails, Quit, Shape, CheckType
<1>4. CASE UpsertBadge(c)
  <2> DEFINE a == about[c]
             new == ComputeBadge(snap[c], mod[c])
  <2>1. /\ cpc[c] = "read" /\ badge' = [badge EXCEPT ![a] = new] /\ cpc'[c] # "read"
        /\ a \in Artists
    BY <1>4 DEF UpsertBadge, Shape, CheckType, Recomputations
  <2>2. new \in Trusted => mod[c] # "delist" BY DEF ComputeBadge, Trusted
  <2>3. \A b \in Artists : badge'[b] = IF b = a THEN new ELSE badge[b]
    BY <2>1 DEF Shape, CheckType
  <2> HIDE DEF new
  <2>4. \A b \in Artists : state[b] = "delist" => badge'[b] \notin Trusted
    BY <2>1, <2>2, <2>3
  <2>5. ASSUME NEW h \in Handlers, pc[h] = "decided"
        PROVE  Target(h) \in Artists /\ (trusted[h] \/ badge'[Target(h)] \notin Trusted)
    <3>1. Target(h) # a BY <2>1, <2>5 DEF NoCrossing
    <3> QED BY <2>3, <2>5, <3>1
  <2> QED BY <1>1, <1>2, <1>3, <2>1, <2>4, <2>5 DEF reportVars, evalVars
<1>5. CASE ReadModeration(c)
  <2>1. mod'[c] = state[about'[c]] /\ badge' = badge
    BY <1>5 DEF ReadModeration, proofVars, Shape, CheckType
  <2> QED BY <1>1, <1>2, <1>3, <2>1 DEF reportVars, evalVars
<1>6. CASE ListByStatus(c) \/ VerifyProof(c) \/ ListByArtist(c) \/ RunFails(c)
  <2>1. cpc'[c] # "read" /\ badge' = badge
    BY <1>6 DEF ListByStatus, VerifyProof, ListByArtist, RunFails, proofVars, Shape, CheckType
  <2> QED BY <1>1, <1>2, <1>3, <2>1 DEF reportVars, evalVars
<1> QED BY <1>4, <1>5, <1>6 DEF RunOnce

\* Unless an evaluation and a recomputation of one artist cross, what the tests
\* expect of either order is true: a delisted artist has no badge, at any time.
THEOREM HoldsUncrossed == Spec /\ []NoCrossing => []DelistedHasNoBadge
<1>1. Init => Shape BY InitShape DEF Shape
<1>2. Init => Uncrossed BY DEF Init, Uncrossed, Trusted, Artists
<1>3. Shape /\ Shape' /\ NoCrossing /\ Uncrossed /\ [Next]_vars => Uncrossed'
  <2> SUFFICES ASSUME Shape, Shape', NoCrossing, Uncrossed, [Next]_vars PROVE Uncrossed'
    OBVIOUS
  <2>1. CASE AgeReport \/ SubmitProof \/ ExpireProof \/ UNCHANGED vars
    <3>1. UNCHANGED <<state, evalVars, badge, checkVars>>
      BY <2>1 DEF AgeReport, SubmitProof, ExpireProof, vars, reportVars, proofVars
    <3> QED BY <3>1 DEF Uncrossed, evalVars, checkVars, Target
  <2> QED BY <2>1, UncrossedEvaluate, UncrossedRun DEF Next
<1>4. Uncrossed => DelistedHasNoBadge BY DEF Uncrossed, DelistedHasNoBadge
<1> QED BY <1>1, <1>2, <1>3, <1>4, ShapeStep, PTL DEF Spec
=============================================================================
