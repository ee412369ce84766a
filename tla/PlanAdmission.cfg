CONSTANTS
  r1 = r1
  r2 = r2
  None = None
  Request = {r1, r2}
  MaxRevision = 2
  MaxGeneration = 1
  MaxPlans = 2
SPECIFICATION FairSpec
INVARIANTS CurrentPlansAreCurrent CompletedHasItsPlan OnePlanPerRequest
PROPERTIES StoredForItsInputs RequestsEnd
