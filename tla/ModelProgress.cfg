CONSTANTS
  w1 = w1
  w2 = w2
  r1 = r1
  r2 = r2
  a1 = a1
  a2 = a2
  None = None
  Worker = {w1}
  Request = {r1}
  Artifact = {a1, a2}
  Looks = 1
  MaxFaults = 1
SPECIFICATION FairSpec
PROPERTIES RunningEnds CandidatesEnd
