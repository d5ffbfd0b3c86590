\* The queue after a dispatch that reported an error.
SPECIFICATION Spec
CONSTANTS
  Queued = {q1, q2}
  Direct = {}
  NoMsg = NoMsg
  Known = 1
  Saved = 1
  MaxSessions = 1
  MaxAborts = 0
  MaxQuestions = 0
  MaxRetries = 0
  Faults = {"report"}
CHECK_DEADLOCK FALSE
INVARIANTS NothingStranded
