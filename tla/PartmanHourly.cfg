SPECIFICATION Spec
CONSTANTS
  Callers = {c1}
  Maintainers = {m1}
  Tenants = {}
  NoTenant = NoTenant
  NoWorker = NoWorker
  HasTenantColumn = FALSE
  HasRetentionSchema = TRUE
  Premake = 1
  Retention = 1
  PeriodsPerName = 2
  StrayPeriods = {}
  MaxNow = 3
  MaxEpoch = 1
  MaxStall = 1
  MaxFaults = 0
  AllowCascade = FALSE
  Hook = {"drop"}
PROPERTIES EnsureDelivers
