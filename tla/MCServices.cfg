\* The components around the threads, one at a time: safety.
SPECIFICATION SvcSpec
CONSTANTS
  Parts = {"rpc", "acc", "ipc", "srv", "perm", "int", "typ"}
  Sessions = {}
  Threads = {}
  NoSession = NoSession
  NoThread = NoThread
  MaxAttempts = 1
  MaxSleeps = 0
  MaxCrashes = 0
  t1 = t1
  t2 = t2
  c1 = c1
  b1 = b1
  f1 = f1
  k1 = k1
  k2 = k2
  u1 = u1
  u2 = u2
  a1 = a1
  a2 = a2
  RpcTurns = {t1, t2}
  RpcCalls = {c1}
  RpcAborts = {b1}
  RpcCasts <- RpcTrio
  NoLive = NoLive
  MaxRpcDeaths = 2
  AccAccounts = {a1, a2}
  AccRequests = {r1, r2}
  AccIdentified = {a1}
  NoToken = NoToken
  AccCasts <- AccFew
  MaxGrants = 2
  MaxStale = 1
  IpcUploads = {f1}
  IpcButtons = {k1, k2}
  IpcUsers = {u1, u2}
  NoCall = NoCall
  IpcCasts <- IpcCrowd
  SrvUsers = {p1, p2}
  SrvRestarts = {q1}
  SrvRetryLimit = 1
  MaxProcs = 3
  PermRequests = {x1, x2}
  PermAlike = {x1, x2}
  PermOutside = {x1}
  PermNone = PermNone
  MaxPermClicks = 2
  MaxPermMessages = 1
  IntMessages = {m1, m2}
  NoMessage = NoMessage
  MaxIntFailures = 2
  TypLease = 4
  TypDebounce = 2
  TypRetryAfter = 3
  MaxCallTime = 2
  MaxTypTime = 9
  MaxFaults = 1
CHECK_DEADLOCK FALSE
INVARIANTS SvcTypeOK RpcTurnEndsIdle RpcOneChildPerSession AccFilesAgree AccNewestKept IpcButtonsActOnce SrvOneStart PermOneDecider IntReplayedOnce
PROPERTIES AccRemovedIsDead TypHonoursLimit IpcKeepsPromise
