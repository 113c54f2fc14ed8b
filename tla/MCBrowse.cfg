CONSTANTS
  Artists = {a1, a2}
  Assets = {x1, x2}
  Requests = {r1}
  MaxChanges = 4
  None = None
SPECIFICATION Spec
SYMMETRY Symmetry
INVARIANTS StandingListedOnce HiddenNotListed
