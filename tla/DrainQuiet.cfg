SPECIFICATION FairSpec
CONSTANTS
  r1 = r1
  r2 = r2
  r3 = r3
  r4 = r4
  r5 = r5
  t1 = t1
  t2 = t2
  Rows = {r1, r2, r3, r4, r5}
  TenantOf <- MixedTenant
  PeriodOf <- MixedPeriod
  Tenants = {t1, t2}
  Empty = Empty
  Null = Null
  HasTenantColumn = TRUE
  Slots = {s1, s2, s3, s4, s5}
  NoRow = NoRow
  Provisioned <- PlainRanges
  Filters = {Null, t1, t2}
  BatchSize = 1
  Limits = {0, 1}
  OperatorDetaches = FALSE
  ClientsBusy = FALSE
  MaxRewrites = 0
  MaxFaults = 0
PROPERTIES DrainTerminates LeftIsReported
