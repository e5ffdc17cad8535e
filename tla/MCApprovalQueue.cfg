SPECIFICATION Spec
CONSTANTS
  a1 = a1
  t1 = t1
  t2 = t2
  None = None
  Id = {a1}
  Thread = {t1, t2}
  SlowCalls = FALSE
  MaxPending = 1
  MaxFaults = 1
  MaxRestarts = 2
SYMMETRY Threads
INVARIANTS ActedOnce AnswerStands OutcomeIsOwed
CHECK_DEADLOCK FALSE
