\* One task that allows concurrency, the poller and a button, an edit, cancellations.
\* A mirrored session with five parts in at most two threads, and a fault.
SPECIFICATION PollSpec
CONSTANTS
  Tasks = {k1}
  Buttons = {b1}
  Poller = Poller
  NoTask = NoTask
  Parallel = {k1}
  OmoRpc = FALSE
  MaxRuns = 2
  MaxOcc = 1
  MaxEdits = 1
  MaxTaskCrashes = 0
  s1 = s1
  s2 = s2
  d1 = d1
  d2 = d2
  ExtDirs = {d1, d2}
  ExtSessions = {s1}
  ExtHome <- HomeOf
  MaxExtParts = 5
  MaxExtThreads = 2
  MaxExtFaults = 1
CHECK_DEADLOCK FALSE
INVARIANTS OccurrencePostedOnce OneExecutor ExtPostedOnce
