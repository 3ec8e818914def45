SPECIFICATION Spec
CONSTANTS
  Callers = {c1}
  Maintainers = {m1}
  Tenants = {}
  NoTenant = NoTenant
  NoWorker = NoWorker
  HasTenantColumn = FALSE
  HasRetentionSchema = TRUE
  Premake = 1
  Retention = 0
  PeriodsPerName = 1
  StrayPeriods = {}
  MaxNow = 3
  MaxEpoch = 1
  MaxStall = 0
  MaxFaults = 0
  AllowCascade = FALSE
  Hook = {"drop"}
PROPERTIES ZeroRetentionKeepsAll
