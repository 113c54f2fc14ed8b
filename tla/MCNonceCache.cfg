CONSTANTS
  Absent = Absent
  Nonces = {n1, n2, n3}
  Handlers = {c1, c2}
  NonceTTL = 2
  MaxEntries = 2
  MaxSeconds = 4
  MaxRestarts = 1
SPECIFICATION CacheSpec
SYMMETRY Symmetry
INVARIANT MapMatchesQueue
PROPERTIES AcceptedOnce OldestMakesRoom ImplementsGuard
