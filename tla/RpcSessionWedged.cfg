\* The child of a turn that outlives its deadline is wedged.
SPECIFICATION RpcFairSpec
CONSTANTS
  RpcTurns = {t1}
  RpcCalls = {}
  RpcAborts = {}
  RpcCasts = {{t1}}
  NoLive = NoLive
  MaxRpcDeaths = 1
CHECK_DEADLOCK FALSE
PROPERTY RpcDeadlineStops
