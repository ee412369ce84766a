CONSTANTS
  t1 = t1
  t2 = t2
  t3 = t3
  t4 = t4
  pump1 = pump1
  pump2 = pump2
  Task = {t1, t2, t3, t4}
  Listing <- Pumps
SPECIFICATION Spec
INVARIANTS AnswersAreTheListing
