CONSTANTS
  k1 = k1
  p1 = p1
  None = None
  Providers = {p1, p2, p3}
  Keys = {k1, k2}
  Announcements <- MCAnnouncements
  Registrations <- MCRegistrations
  Handlers = {h1, h2}
  MaxProviders = 1
  MaxTTL = 2
  NonceTTL = 1
  MaxEntries = 2
  MaxTime = 2
  MaxRestarts = 1
SPECIFICATION Spec
SYMMETRY Symmetry
INVARIANTS RowAuthentic CapacityBound
PROPERTIES KeyPinned CleanupSparesListed
