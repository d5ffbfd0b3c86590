\* The components around the threads, one at a time: liveness.
SPECIFICATION SvcFairSpec
CONSTANTS
  Parts = {"sleep", "rpc", "ipc", "srv", "perm", "int"}
  Sessions = {s1, s2}
  Threads = {h1}
  NoSession = NoSession
  NoThread = NoThread
  MaxAttempts = 2
  MaxSleeps = 1
  MaxCrashes = 1
  t1 = t1
  t2 = t2
  c1 = c1
  b1 = b1
  f1 = f1
  k1 = k1
  k2 = k2
  u1 = u1
  u2 = u2
  a1 = a1
  a2 = a2
  RpcTurns = {t1, t2}
  RpcCalls = {}
  RpcAborts = {b1}
  RpcCasts <- RpcPair
  NoLive = NoLive
  MaxRpcDeaths = 1
  AccAccounts = {a1, a2}
  AccRequests = {r1, r2}
  AccIdentified = {a1}
  NoToken = NoToken
  AccCasts <- AccFew
  MaxGrants = 2
  MaxStale = 1
  IpcUploads = {f1}
  IpcButtons = {k1}
  IpcUsers = {u1}
  NoCall = NoCall
  IpcCasts <- IpcAlone
  SrvUsers = {p1}
  SrvRestarts = {q1}
  SrvRetryLimit = 1
  MaxProcs = 2
  PermRequests = {x1, x2}
  PermAlike = {x1, x2}
  PermOutside = {}
  PermNone = PermNone
  MaxPermClicks = 1
  MaxPermMessages = 0
  IntMessages = {m1, m2}
  NoMessage = NoMessage
  MaxIntFailures = 0
  TypLease = 4
  TypDebounce = 2
  TypRetryAfter = 3
  MaxCallTime = 2
  MaxTypTime = 1
  MaxFaults = 0
CHECK_DEADLOCK FALSE
INVARIANTS TypeOK
PROPERTIES DueSleepSettles RpcTurnsEnd IpcRowsSettle SrvListenerConnects PermExpires IntPendingDrains
