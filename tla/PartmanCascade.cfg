SPECIFICATION Spec
CONSTANTS
  Callers = {c1}
  Maintainers = {m1, m2}
  Tenants = {}
  NoTenant = NoTenant
  NoWorker = NoWorker
  HasTenantColumn = FALSE
  HasRetentionSchema = TRUE
  Premake = 1
  Retention = 1
  PeriodsPerName = 1
  StrayPeriods = {}
  MaxNow = 2
  MaxEpoch = 1
  MaxStall = 1
  MaxFaults = 1
  AllowCascade = TRUE
  Hook = {"detach", "archive"}
INVARIANTS TypeOK ActiveIsAttached
PROPERTIES SweepSparesLive
