SPECIFICATION FairSpec
CONSTANTS
  Replicas = {r1}
  PerReplica = 2
  MaxConns = 3
  Keys = {p1, p2}
  NoKey = NoKey
  NoConn = NoConn
  CtxMayCancel = TRUE
  SessionsDie = TRUE
  MaxFaults = 2
INVARIANTS TypeOK MutualExclusion LeaksAreCancelled
PROPERTIES LockPromise CallsReturn
