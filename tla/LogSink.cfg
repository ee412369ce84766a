CONSTANTS
  Row = {r1, r2, r3}
  MaxOwnedRows = 2
  BatchSize = 2
  MaxAttempts = 2
  MaxGeneration = 1
SPECIFICATION FairSpec
INVARIANTS Conservation SettledIsQuiescent
PROPERTIES WritersInOrder ShutdownEnds AdmittedIsSettled
CHECK_DEADLOCK FALSE
