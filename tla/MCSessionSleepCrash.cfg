\* A restart between the consumed row and its turn.
SPECIFICATION Spec
CONSTANTS
  Sessions = {s1}
  Threads = {t1, t2}
  NoSession = NoSession
  NoThread = NoThread
  MaxAttempts = 2
  MaxSleeps = 2
  MaxCrashes = 1
SYMMETRY Interchangeable
CHECK_DEADLOCK FALSE
INVARIANTS ConsumedIsATurn
