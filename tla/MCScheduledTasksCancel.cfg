\* A cancellation while the task executes.
SPECIFICATION TaskSpec
CONSTANTS
  Tasks = {k1}
  Buttons = {}
  Poller = Poller
  NoTask = NoTask
  Parallel = {}
  OmoRpc = FALSE
  MaxRuns = 2
  MaxOcc = 2
  MaxEdits = 0
  MaxTaskCrashes = 0
CHECK_DEADLOCK FALSE
PROPERTIES CancelledStaysCancelled
