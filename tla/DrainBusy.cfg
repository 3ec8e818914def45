SPECIFICATION FairSpec
CONSTANTS
  r1 = r1
  r2 = r2
  r3 = r3
  r4 = r4
  r5 = r5
  t1 = t1
  t2 = t2
  Rows = {r1, r2, r3}
  TenantOf <- PlainTenant
  PeriodOf <- PlainPeriod
  Tenants = {t1, t2}
  Empty = Empty
  Null = Null
  HasTenantColumn = TRUE
  Slots = {s1, s2, s3}
  NoRow = NoRow
  Provisioned <- PlainRanges
  Filters = {Null}
  BatchSize = 2
  Limits = {0}
  OperatorDetaches = TRUE
  ClientsBusy = TRUE
  MaxRewrites = 2
  MaxFaults = 1
INVARIANTS TypeOK RowsConserved
PROPERTIES RerunDelivers
