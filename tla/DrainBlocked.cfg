SPECIFICATION MaintainedSpec
CONSTANTS
  r1 = r1
  r2 = r2
  r3 = r3
  r4 = r4
  r5 = r5
  t1 = t1
  t2 = t2
  Rows = {r1}
  TenantOf <- PlainTenant
  PeriodOf <- PlainPeriod
  Tenants = {t1, t2}
  Empty = Empty
  Null = Null
  HasTenantColumn = TRUE
  Slots = {s1}
  NoRow = NoRow
  Provisioned <- PlainRanges
  Filters = {Null}
  BatchSize = 1
  Limits = {0}
  OperatorDetaches = FALSE
  ClientsBusy = FALSE
  MaxRewrites = 0
  MaxFaults = 0
PROPERTIES DrainEmpties
