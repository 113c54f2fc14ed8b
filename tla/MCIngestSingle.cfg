CONSTANTS
  a1 = a1
  NoJob = NoJob
  Jobs = {j1, j2}
  Assets <- MCAssets
  AssetOf <- MCAssetOf
  Workers = {w1}
  NumTargets = 2
  StaleAfter = 1
  MaxFaults = 2
SPECIFICATION Spec
SYMMETRY Symmetry
CONSTRAINT OrphanAlone
INVARIANTS TypeOK LatestUploadIsServed BrokenCopyShows
PROPERTY ImplementsLifecycle
