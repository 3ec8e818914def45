SPECIFICATION Spec
CONSTANTS
  Users = {u1}
  MaxStarts = 2
  CtxMayExpire = TRUE
PROPERTIES StopMeansStopped
CHECK_DEADLOCK FALSE
