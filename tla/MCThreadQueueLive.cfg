\* A thread without a session while runs fail, retry, end unfinished or are aborted,
\* dispatches throw, and reports or indicators cannot be sent.
SPECIFICATION FreshSpec
CONSTANTS
  Queued = {q1, q2}
  Direct = {d1}
  NoMsg = NoMsg
  Known = 0
  Saved = 0
  MaxSessions = 2
  MaxAborts = 1
  MaxQuestions = 0
  MaxRetries = 1
  Faults = {"throw", "error", "tell", "send", "unfinished"}
CHECK_DEADLOCK FALSE
INVARIANTS NothingStranded
PROPERTIES QueueDrains
