SPECIFICATION Spec
CONSTANTS
  Replicas = {r1, r2}
  PerReplica = 1
  MaxConns = 2
  Keys = {p1}
  NoKey = NoKey
  NoConn = NoConn
  CtxMayCancel = FALSE
  SessionsDie = TRUE
  MaxFaults = 1
INVARIANTS NeverTwoAtWork
