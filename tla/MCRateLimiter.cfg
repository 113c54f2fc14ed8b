CONSTANTS
  None = None
  Addresses = {a1, a2}
  Callers = {c1, c2}
  Cost = 2
  Burst = 3
  TTL = 5
  MaxTime = 7
  MaxLag = 1
SPECIFICATION Spec
SYMMETRY Symmetry
INVARIANTS TypeOK AdmittedBound
PROPERTY PatientIsServed
