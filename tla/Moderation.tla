----------------------------- MODULE Moderation -----------------------------
(***************************************************************************)
(* Reports, moderation and verification: POST /v1/reports stores a report  *)
(* and re-evaluates its target, the proofcheck worker verifies the proofs  *)
(* of artists and recomputes their badges.  Each reads what the other      *)
(* writes (evaluation the badge, the recomputation the moderation state),  *)
(* and neither uses a transaction.                                         *)
(*                                                                         *)
(* A target without a moderation row reads "allow" and an artist without a *)
(* verification row "unverified", as the code has it; reason codes are     *)
(* left out, an artist's only "delist" being for impersonation.            *)
(***************************************************************************)
EXTENDS Naturals, Sequences, FiniteSets

CONSTANTS
  Targets, KindOf,            \* "artist", "asset" or "url"
  Reports, TargetOf, TypeOf,  \* reports clients may file, once each
  Handlers,                   \* concurrent HTTP handlers
  Proofs, ArtistOf, ProofTypeOf,
  Checkers,                   \* runs of the proofcheck worker
  Limit,                      \* AUDICATALOG_WORKER_LIMIT
  None

Artists == {t \in Targets : KindOf[t] = "artist"}

ReportTypes == {"impersonation", "scam", "spam", "malware", "copyright"}
ProofTypes  == {"domain_txt", "well_known"}

ASSUME ReportsAssumption ==
  /\ KindOf \in [Targets -> {"artist", "asset", "url"}]
  /\ TargetOf \in [Reports -> Targets]
  /\ TypeOf \in [Reports -> ReportTypes]
  /\ IsFiniteSet(Reports)
ASSUME ProofsAssumption ==
  /\ ArtistOf \in [Proofs -> Artists]
  /\ ProofTypeOf \in [Proofs -> ProofTypes]
  /\ IsFiniteSet(Proofs)
  /\ Limit \in Nat \ {0}
ASSUME NoneAssumption == None \notin Reports \cup Targets

VARIABLES
  filed,     \* the reports table
  aged,      \* reports older than seven days
  state,     \* moderation_state.state of each target
  pc, rep,   \* the call of CreateReport in each handler, its report
  old,       \* reports outside the window its evaluation opened
  left,      \* report types it has still to count
  hits,      \* report types that reached their threshold
  trusted,   \* the answer of isArtistVerified
  proof,     \* artist_proofs.status, "absent" without a row
  badge,     \* verification_state.badge of each artist
  cpc, todo, affected,  \* a proofcheck run: proofs to verify, artists touched
  about, snap, mod,     \* the recomputation it is in: artist, what it read
  shared,    \* history: an evaluation that overlapped another of its target
  failed,    \* history: reports whose evaluation failed
  troubled,  \* history: targets whose last evaluation was shared or failed
  missed     \* history: artists with a status no run answers for: a proof
             \* expired since, or the run that stored it failed

reportVars == <<filed, aged, state>>
evalVars   == <<pc, rep, old, left, hits, trusted, shared, failed, troubled>>
proofVars  == <<proof, badge>>
checkVars  == <<cpc, todo, affected, about, snap, mod>>
vars == <<reportVars, evalVars, proofVars, checkVars, missed>>

Trusted == {"verified", "highly_verified"}

Init ==
  /\ filed = {} /\ aged = {}
  /\ state = [t \in Targets |-> "allow"]
  /\ pc = [h \in Handlers |-> "idle"]
  /\ rep = [h \in Handlers |-> None]
  /\ old = [h \in Handlers |-> {}]
  /\ left = [h \in Handlers |-> <<>>]
  /\ hits = [h \in Handlers |-> {}]
  /\ trusted = [h \in Handlers |-> FALSE]
  /\ proof = [p \in Proofs |-> "absent"]
  /\ badge = [a \in Artists |-> "unverified"]
  /\ cpc = [c \in Checkers |-> "idle"]
  /\ todo = [c \in Checkers |-> {}]
  /\ affected = [c \in Checkers |-> {}]
  /\ about = [c \in Checkers |-> None]
  /\ snap = [c \in Checkers |-> {}]
  /\ mod = [c \in Checkers |-> "allow"]
  /\ shared = [h \in Handlers |-> FALSE]
  /\ failed = {}
  /\ troubled = {}
  /\ missed = {}

-----------------------------------------------------------------------------
(* CreateReport and evaluateAndUpsert.                                     *)

\* The types evaluateAndUpsert counts for a kind of target, in its order.
Counted(kind) ==
  CASE kind = "artist" -> <<"impersonation">>
    [] kind = "asset"  -> <<"scam", "malware", "spam">>
    [] kind = "url"    -> <<"malware">>

\* Mutant: the threshold must be exceeded.
ThresholdPlusOne(kind, type) ==
  CASE kind = "artist" -> 4
    [] kind = "asset"  -> IF type = "spam" THEN 4 ELSE 3
    [] kind = "url"    -> 2

\* Mutant: one report less is enough for an artist.
ThresholdMinusOne(kind, type) ==
  CASE kind = "artist" -> 2
    [] kind = "asset"  -> IF type = "spam" THEN 3 ELSE 2
    [] kind = "url"    -> 1

Threshold(kind, type) ==
  CASE kind = "artist" -> 3
    [] kind = "asset"  -> IF type = "spam" THEN 3 ELSE 2
    [] kind = "url"    -> 1

Decision(kind, reached, verified) ==
  CASE kind = "artist" /\ "impersonation" \in reached ->
         IF verified THEN "warn" ELSE "delist"
    [] kind = "asset" /\ {"scam", "malware"} \cap reached # {} -> "quarantine"
    [] kind = "asset" /\ reached = {"spam"} -> "warn"
    [] kind = "url" /\ "malware" \in reached -> "quarantine"
    [] OTHER -> "allow"

Target(h) == TargetOf[rep[h]]
Kind(h)   == KindOf[Target(h)]
Evaluating(t) == {h \in Handlers : pc[h] # "idle" /\ Target(h) = t}

\* The report is inserted; its evaluation opens the window of seven days.
InsertReport(h) ==
  /\ pc[h] = "idle"
  /\ \E r \in Reports \ filed :
       /\ filed' = filed \cup {r}
       /\ rep' = [rep EXCEPT ![h] = r]
       /\ left' = [left EXCEPT ![h] = Counted(KindOf[TargetOf[r]])]
       /\ shared' = [g \in Handlers |->
                       IF g = h THEN Evaluating(TargetOf[r]) # {}
                       ELSE shared[g] \/ g \in Evaluating(TargetOf[r])]
  /\ old' = [old EXCEPT ![h] = aged]
  /\ pc' = [pc EXCEPT ![h] = "counting"]
  /\ UNCHANGED <<aged, state, hits, trusted, failed, troubled, proofVars, checkVars, missed>>

InWindow(h, type) ==
  {r \in filed \ old[h] : TargetOf[r] = Target(h) /\ TypeOf[r] = type}

CountReports(h) ==
  /\ pc[h] = "counting"
  /\ left[h] # <<>>
  /\ LET type == Head(left[h]) IN
       hits' = [hits EXCEPT ![h] =
                  IF Cardinality(InWindow(h, type)) >= Threshold(Kind(h), type)
                    THEN @ \cup {type} ELSE @]
  /\ left' = [left EXCEPT ![h] = Tail(@)]
  /\ UNCHANGED <<reportVars, pc, rep, old, trusted, shared, failed, troubled,
                 proofVars, checkVars, missed>>

\* isArtistVerified is asked only for an artist over the threshold.
IsArtistVerified(h) ==
  /\ pc[h] = "counting"
  /\ left[h] = <<>>
  /\ Kind(h) = "artist" /\ hits[h] # {}
  /\ trusted' = [trusted EXCEPT ![h] = badge[Target(h)] \in Trusted]
  /\ pc' = [pc EXCEPT ![h] = "decided"]
  /\ UNCHANGED <<reportVars, rep, old, left, hits, shared, failed, troubled,
                 proofVars, checkVars, missed>>

Finish(h) ==
  /\ pc' = [pc EXCEPT ![h] = "idle"]
  /\ rep' = [rep EXCEPT ![h] = None]
  /\ old' = [old EXCEPT ![h] = {}]
  /\ left' = [left EXCEPT ![h] = <<>>]
  /\ hits' = [hits EXCEPT ![h] = {}]
  /\ trusted' = [trusted EXCEPT ![h] = FALSE]
  /\ shared' = [shared EXCEPT ![h] = FALSE]

\* The decision overwrites whatever another evaluation stored meanwhile.
UpsertState(h) ==
  /\ \/ pc[h] = "decided"
     \/ pc[h] = "counting" /\ left[h] = <<>> /\ (Kind(h) # "artist" \/ hits[h] = {})
  /\ state' = [state EXCEPT ![Target(h)] = Decision(Kind(h), hits[h], trusted[h])]
  /\ troubled' = IF shared[h] THEN troubled \cup {Target(h)}
                 ELSE troubled \ {Target(h)}
  /\ Finish(h)
  /\ UNCHANGED <<filed, aged, failed, proofVars, checkVars, missed>>

\* A statement fails, the client is gone or the server stops: the report
\* stays, its evaluation never happens.
EvaluationFails(h) ==
  /\ pc[h] # "idle"
  /\ failed' = failed \cup {rep[h]}
  /\ troubled' = troubled \cup {Target(h)}
  /\ Finish(h)
  /\ UNCHANGED <<reportVars, proofVars, checkVars, missed>>

AgeReport ==
  /\ \E r \in filed \ aged : aged' = aged \cup {r}
  /\ UNCHANGED <<filed, state, evalVars, proofVars, checkVars, missed>>

-----------------------------------------------------------------------------
(* RunOnce of the proofcheck worker.                                       *)

\* Pending and expired proofs, up to Limit (which ones is left open).
ListByStatus(c) ==
  /\ cpc[c] = "idle"
  /\ \E S \in SUBSET {p \in Proofs : proof[p] \in {"pending", "expired"}} :
       /\ S # {} /\ Cardinality(S) <= Limit
       /\ \/ Cardinality(S) = Limit
          \/ \A p \in Proofs : proof[p] \in {"pending", "expired"} => p \in S
       /\ todo' = [todo EXCEPT ![c] = S]
  /\ cpc' = [cpc EXCEPT ![c] = "checking"]
  /\ UNCHANGED <<reportVars, evalVars, proofVars, affected, about, snap, mod, missed>>

\* Mutant: a failed proof does not make its artist affected.
VerifyProofKeepingBadge(c) ==
  /\ cpc[c] = "checking"
  /\ \E p \in todo[c], s \in {"verified", "failed"} :
       /\ proof' = [proof EXCEPT ![p] = s]
       /\ todo' = [todo EXCEPT ![c] = @ \ {p}]
       /\ affected' = [affected EXCEPT ![c] =
                         IF s = "verified" THEN @ \cup {ArtistOf[p]} ELSE @]
       /\ missed' = missed \ {ArtistOf[p]}
  /\ UNCHANGED <<reportVars, evalVars, badge, cpc, about, snap, mod>>

\* DNS or HTTP decides; the new status is stored at once.  From then on the
\* run answers for the artist, whether it has noted the artist or not.
VerifyProof(c) ==
  /\ cpc[c] = "checking"
  /\ \E p \in todo[c], s \in {"verified", "failed"} :
       /\ proof' = [proof EXCEPT ![p] = s]
       /\ todo' = [todo EXCEPT ![c] = @ \ {p}]
       /\ affected' = [affected EXCEPT ![c] = @ \cup {ArtistOf[p]}]
       /\ missed' = missed \ {ArtistOf[p]}
  /\ UNCHANGED <<reportVars, evalVars, badge, cpc, about, snap, mod>>

VerifiedTypes(a) ==
  {ProofTypeOf[p] : p \in {q \in Proofs : ArtistOf[q] = a /\ proof[q] = "verified"}}

\* recomputeVerificationState reads the artist's proofs ...
ListByArtist(c) ==
  /\ cpc[c] = "checking"
  /\ todo[c] = {}
  /\ \E a \in affected[c] :
       /\ about' = [about EXCEPT ![c] = a]
       /\ snap' = [snap EXCEPT ![c] = VerifiedTypes(a)]
       /\ missed' = missed \ {a}
  /\ cpc' = [cpc EXCEPT ![c] = "listed"]
  /\ UNCHANGED <<reportVars, evalVars, proofVars, todo, affected, mod>>

\* ... then the moderation state ...
ReadModeration(c) ==
  /\ cpc[c] = "listed"
  /\ mod' = [mod EXCEPT ![c] = state[about[c]]]
  /\ cpc' = [cpc EXCEPT ![c] = "read"]
  /\ UNCHANGED <<reportVars, evalVars, proofVars, todo, affected, about, snap, missed>>

ComputeBadge(types, moderation) ==
  IF moderation = "delist" THEN "flagged"
  ELSE IF types = ProofTypes THEN "highly_verified"
  ELSE IF types # {} THEN "verified"
  ELSE "unverified"

Quit(c) ==
  /\ about' = [about EXCEPT ![c] = None]
  /\ snap' = [snap EXCEPT ![c] = {}]
  /\ mod' = [mod EXCEPT ![c] = "allow"]

\* ... and stores the badge computed from them.
UpsertBadge(c) ==
  /\ cpc[c] = "read"
  /\ badge' = [badge EXCEPT ![about[c]] = ComputeBadge(snap[c], mod[c])]
  /\ affected' = [affected EXCEPT ![c] = @ \ {about[c]}]
  /\ cpc' = [cpc EXCEPT ![c] = IF affected'[c] = {} THEN "idle" ELSE "checking"]
  /\ Quit(c)
  /\ UNCHANGED <<reportVars, evalVars, proof, todo, missed>>

\* The run ends with an error or is killed: artists it touched but did not
\* recompute are not listed again, their proofs being neither pending nor
\* expired any more.
RunFails(c) ==
  /\ cpc[c] # "idle"
  /\ missed' = missed \cup affected[c]
  /\ cpc' = [cpc EXCEPT ![c] = "idle"]
  /\ todo' = [todo EXCEPT ![c] = {}]
  /\ affected' = [affected EXCEPT ![c] = {}]
  /\ Quit(c)
  /\ UNCHANGED <<reportVars, evalVars, proofVars>>

\* Nothing in the repository inserts proofs or lets them expire: operators do.
SubmitProof ==
  /\ \E p \in Proofs : /\ proof[p] = "absent"
                       /\ proof' = [proof EXCEPT ![p] = "pending"]
  /\ UNCHANGED <<reportVars, evalVars, badge, checkVars, missed>>

ExpireProof ==
  /\ \E p \in Proofs : /\ proof[p] = "verified"
                       /\ proof' = [proof EXCEPT ![p] = "expired"]
                       /\ missed' = missed \cup {ArtistOf[p]}
  /\ UNCHANGED <<reportVars, evalVars, badge, checkVars>>

Evaluate(h) ==
  \/ InsertReport(h) \/ CountReports(h) \/ IsArtistVerified(h)
  \/ UpsertState(h) \/ EvaluationFails(h)

RunOnce(c) ==
  \/ ListByStatus(c) \/ VerifyProof(c) \/ ListByArtist(c)
  \/ ReadModeration(c) \/ UpsertBadge(c) \/ RunFails(c)

Next ==
  \/ \E h \in Handlers : Evaluate(h)
  \/ \E c \in Checkers : RunOnce(c)
  \/ AgeReport \/ SubmitProof \/ ExpireProof

Spec == Init /\ [][Next]_vars

-----------------------------------------------------------------------------
(* Properties.                                                             *)

TypeOK ==
  /\ filed \in SUBSET Reports /\ aged \in SUBSET filed
  /\ state \in [Targets -> {"allow", "warn", "quarantine", "delist"}]
  /\ pc \in [Handlers -> {"idle", "counting", "decided"}]
  /\ rep \in [Handlers -> Reports \cup {None}]
  /\ old \in [Handlers -> SUBSET Reports]
  /\ left \in [Handlers -> Seq(ReportTypes)]
  /\ hits \in [Handlers -> SUBSET ReportTypes]
  /\ trusted \in [Handlers -> BOOLEAN] /\ shared \in [Handlers -> BOOLEAN]
  /\ proof \in [Proofs -> {"absent", "pending", "verified", "failed", "expired"}]
  /\ badge \in [Artists -> Trusted \cup {"unverified", "flagged"}]
  /\ cpc \in [Checkers -> {"idle", "checking", "listed", "read"}]
  /\ todo \in [Checkers -> SUBSET Proofs]
  /\ affected \in [Checkers -> SUBSET Artists]
  /\ about \in [Checkers -> Artists \cup {None}]
  /\ snap \in [Checkers -> SUBSET ProofTypes]
  /\ mod \in [Checkers -> {"allow", "warn", "quarantine", "delist"}]
  /\ failed \in SUBSET filed
  /\ troubled \in SUBSET Targets /\ missed \in SUBSET Artists

Reached(R, t) ==
  \E type \in ReportTypes :
    /\ \E i \in DOMAIN Counted(KindOf[t]) : Counted(KindOf[t])[i] = type
    /\ Cardinality({r \in R : TargetOf[r] = t /\ TypeOf[r] = type})
         >= (CASE KindOf[t] = "artist" -> 3
               [] KindOf[t] = "asset"  -> IF type = "spam" THEN 3 ELSE 2
               [] KindOf[t] = "url"    -> 1)

\* Whatever evaluations and recomputations overlap, nobody is restricted or
\* flagged without the reports for it: a target in any state but "allow" has
\* had a threshold of reports, and so has an artist with a "flagged" badge.
RestrictionJustified ==
  /\ \A t \in Targets : state[t] # "allow" => Reached(filed, t)
  /\ \A a \in Artists : badge[a] = "flagged" => Reached(filed, a)

\* Once a target's last evaluation ran alone and to its end, a threshold of
\* reports within the window keeps the target from reading "allow".
ThresholdUnlessTroubled ==
  \A t \in Targets \ troubled :
    (Evaluating(t) = {} /\ Reached(filed \ aged, t)) => state[t] # "allow"

\* Once no run is to recompute an artist any more, the badge is the one the
\* artist's verified proofs earn, or "flagged": a run that stores a status, be
\* it "failed", recomputes the artist.  Excused are a proof that expired since
\* and the artists a failed run had still to recompute.
BadgeMatchesProofs ==
  \A a \in Artists \ missed :
    (\A c \in Checkers : a \notin affected[c]) =>
      badge[a] \in {"flagged", ComputeBadge(VerifiedTypes(a), "allow")}

Quiet(t) == Evaluating(t) = {} /\ \A c \in Checkers : cpc[c] = "idle"

\* What the reports tests expect of reports answered with 201: once they
\* reach a threshold, the target does not read "allow".
ThresholdHolds ==
  \A t \in Targets :
    (Quiet(t) /\ Reached(filed \ (aged \cup failed), t)) => state[t] # "allow"

\* What the verification tests expect of impersonation reports: an artist is
\* either verified and merely warned about, or delisted without the badge.
DelistedHasNoBadge ==
  \A a \in Artists : (Quiet(a) /\ state[a] = "delist") => badge[a] \notin Trusted
=============================================================================
