CONSTANTS
  None = None
  Providers = {1, 2, 3}
  Route = "playback"
  Limit = 1
  MaxLimit = 2
  MaxTTL = 2
  Lifetimes = {1, 2}
  Priorities = {1, 20}
  TenMinutes = 0
  Hour = 1
  Day = 1
  Weights <- MCWeights
  MaxTime = 3
  MaxLag = 1
  MaxChanges = 3
SPECIFICATION Spec
INVARIANT TypeOK
PROPERTIES DominantFirst TagTellsNews KeptAnswerEnds
