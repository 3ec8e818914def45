SPECIFICATION Spec
CONSTANTS
  Replicas = {r1}
  PerReplica = 2
  MaxConns = 3
  Keys = {p1}
  NoKey = NoKey
  NoConn = NoConn
  CtxMayCancel = TRUE
  SessionsDie = FALSE
  MaxFaults = 1
INVARIANTS ReleaseFrees
