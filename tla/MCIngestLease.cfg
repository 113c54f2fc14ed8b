CONSTANTS
  a1 = a1
  NoJob = NoJob
  Jobs = {j1}
  Assets <- MCAssets
  AssetOf <- MCAssetOf
  Workers = {w1, w2}
  NumTargets = 1
  StaleAfter = 2
  MaxFaults = 2
SPECIFICATION FairSpec
INVARIANTS PublishedIsServed CatalogRowIsBacked LeaseSeparation ExclusiveUnlessOverrun BrokenCopyShowsWithinLease
PROPERTIES OutcomeFinal JobsSettle
