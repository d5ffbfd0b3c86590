\* Two threads and one session: /resume, restarts, retries and two occurrences.
SPECIFICATION Spec
CONSTANTS
  Sessions = {s1}
  Threads = {t1, t2}
  NoSession = NoSession
  NoThread = NoThread
  MaxAttempts = 2
  MaxSleeps = 2
  MaxCrashes = 1
SYMMETRY Interchangeable
CHECK_DEADLOCK FALSE
INVARIANTS WakeAtMostOnce CalledOffNeverWakes
PROPERTIES KeepsPromise
