\* A thread with a session: queueing, withdrawing, questions, an abort, failing runs; its
\* runtime, swept and restarted; its event buffer.
SPECIFICATION ThrSpec
CONSTANTS
  Queued = {q1, q2, q3}
  Direct = {g1}
  NoMsg = NoMsg
  Known = 1
  Saved = 1
  MaxSessions = 1
  MaxAborts = 1
  MaxQuestions = 2
  MaxRetries = 0
  Faults = {"error", "throw", "send", "report", "tell", "unfinished"}
  RegMessages = {m1, m2}
  RegGiven = {m1}
  MaxRegRuntimes = 2
  MaxRegRestarts = 1
  BufMax = 5
  MaxTurns = 2
  MaxAnswers = 2
  MaxTokens = 2
  MaxEntries = 7
CHECK_DEADLOCK FALSE
INVARIANTS ThrTypeOK OneDispatchAtATime OneHandoffPerQuestion RegRunsAreWatched BufFooterOnce BufTokensNotTwice
PROPERTIES WaitsForTheRun PromptedInOrder RegArrivalOrder
