SPECIFICATION FairSpec
CONSTANTS
  Maintainers = {m1, m2}
  Pools = {1, 2}
  NoPool = NoPool
  Deployments <- MCDeployments
  Parents = {p1, p2, p3}
  NoParent = NoParent
  TenantsOf <- MCTenantsOf
  Manual = {p3}
  Panicking = {p2}
  Leaving = {p1}
  MaxAttempts = 2
  MaxFaults = 2
  p1 = p1
  p2 = p2
  p3 = p3
  t1 = t1
  t2 = t2
  m1 = m1
  m2 = m2
INVARIANTS TypeOK LocksFollowWork
PROPERTIES EveryParentHasItsTurn ParentsAreMaintained
