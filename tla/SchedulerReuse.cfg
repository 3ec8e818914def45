SPECIFICATION Spec
CONSTANTS
  Users = {u1}
  MaxStarts = 2
  CtxMayExpire = TRUE
INVARIANTS NoReusePanic
CHECK_DEADLOCK FALSE
