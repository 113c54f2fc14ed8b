CONSTANTS
  art = art
  ast = ast
  url = url
  p1 = p1
  i1 = i1
  i2 = i2
  i3 = i3
  s1 = s1
  s2 = s2
  m1 = m1
  m2 = m2
  None = None
  Targets = {art, ast, url}
  KindOf <- MCKindOf
  Reports = {i1, i2, i3, s1, s2, m1, m2}
  TargetOf <- MCTargetOf
  TypeOf <- MCTypeOf
  Handlers = {h1, h2}
  Proofs = {p1, p2}
  ArtistOf <- MCArtistOf
  ProofTypeOf <- MCProofTypeOf
  Checkers = {c1}
  Limit = 1
SPECIFICATION Spec
SYMMETRY Symmetry
CONSTRAINT OneStory
INVARIANTS RestrictionJustified BadgeMatchesProofs ThresholdUnlessTroubled
CHECK_DEADLOCK FALSE
