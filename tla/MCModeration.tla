---------------------------- MODULE MCModeration ----------------------------
(* Instances of Moderation for TLC: artist, asset and url targets, with     *)
(* reports that just reach the thresholds, and one proof of each type.      *)
EXTENDS Moderation, TLC

CONSTANTS art, ast, url, p1, i1, i2, i3, s1, s2, m1, m2

MCKindOf ==
  [t \in Targets |-> CASE t = art -> "artist" [] t = ast -> "asset" [] t = url -> "url"]

\* Impersonation reports of the artist, two scam reports and a malware report
\* of the asset, and a malware report of the url.
MCTargetOf ==
  [r \in Reports |-> IF r \in {i1, i2, i3} THEN art ELSE IF r = m2 THEN url ELSE ast]
MCTypeOf ==
  [r \in Reports |->
     IF r \in {i1, i2, i3} THEN "impersonation" ELSE IF r \in {s1, s2} THEN "scam" ELSE "malware"]
MCArtistOf == [p \in Proofs |-> art]
MCProofTypeOf == [p \in Proofs |-> IF p = p1 THEN "domain_txt" ELSE "well_known"]
Symmetry == Permutations(Handlers) \cup Permutations({i1, i2, i3} \cap Reports)

\* Reports and proofs of the artist, or reports of the others: no step of the
\* one reads or writes what the other does.
OneStory ==
  \/ \A r \in filed : TargetOf[r] = art
  \/ /\ \A r \in filed : TargetOf[r] # art
     /\ \A p \in Proofs : proof[p] = "absent"
=============================================================================
