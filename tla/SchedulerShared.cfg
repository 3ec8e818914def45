SPECIFICATION FairSpec
CONSTANTS
  Users = {u1, u2}
  MaxStarts = 2
  CtxMayExpire = TRUE
INVARIANTS TypeOK RunningHasLoop
PROPERTIES StopWaits LoopsEnd
CHECK_DEADLOCK FALSE
