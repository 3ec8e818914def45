SPECIFICATION Spec
CONSTANTS
  Callers = {c1, c2}
  Maintainers = {}
  Tenants = {}
  NoTenant = NoTenant
  NoWorker = NoWorker
  HasTenantColumn = FALSE
  HasRetentionSchema = TRUE
  Premake = 1
  Retention = 1
  PeriodsPerName = 1
  StrayPeriods = {}
  MaxNow = 3
  MaxEpoch = 2
  MaxStall = 1
  MaxFaults = 0
  AllowCascade = TRUE
  Hook = {"drop"}
INVARIANTS ActiveIsAttached
