\* The poller alone, two occurrences: sessions overlap, claims outlive a restart.
\* Two mirrored sessions, each in a directory of its own.
SPECIFICATION PollFairSpec
CONSTANTS
  Tasks = {k1}
  Buttons = {}
  Poller = Poller
  NoTask = NoTask
  Parallel = {}
  OmoRpc = FALSE
  MaxRuns = 3
  MaxOcc = 2
  MaxEdits = 0
  MaxTaskCrashes = 1
  s1 = s1
  s2 = s2
  d1 = d1
  d2 = d2
  ExtDirs = {d1, d2}
  ExtSessions = {s1, s2}
  ExtHome <- HomeOf
  MaxExtParts = 2
  MaxExtThreads = 3
  MaxExtFaults = 1
CHECK_DEADLOCK FALSE
INVARIANTS OverlapIsWrittenOff
PROPERTIES ClaimsAreReturned ExtMirrored
