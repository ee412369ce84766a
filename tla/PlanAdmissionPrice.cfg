CONSTANTS
  r1 = r1
  r2 = r2
  None = None
  Request = {r1, r2}
  MaxRevision = 2
  MaxGeneration = 0
  MaxPlans = 1
SPECIFICATION Spec
INVARIANTS RefusedOnlyIfChanged
