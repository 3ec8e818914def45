SPECIFICATION Spec
CONSTANTS
  Users = {u1}
  MaxStarts = 2
  CtxMayExpire = TRUE
INVARIANTS OneLoop
CHECK_DEADLOCK FALSE
