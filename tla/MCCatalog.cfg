CONSTANTS
  b1 = b1
  b2 = b2
  b3 = b3
  y1 = y1
  s1 = s1
  u1 = u1
  hi = hi
  ann = ann
  bob = bob
  ar1 = ar1
  ar2 = ar2
  p1 = p1
  p2 = p2
  fap = fap
  url = url
  x = x
  None = None
  MaxFailures = 1
  Calls = {b1, b2, b3, y1, s1, u1, hi}
  Req <- MCReq
SPECIFICATION Spec
INVARIANTS PayeeOfArtist BootstrapsAgree HintsComplete
PROPERTY ImplementsSchema
CHECK_DEADLOCK FALSE
