SPECIFICATION FairSpec
CONSTANTS
  Callers = {c1}
  Maintainers = {m1}
  Tenants = {}
  NoTenant = NoTenant
  NoWorker = NoWorker
  HasTenantColumn = FALSE
  HasRetentionSchema = TRUE
  Premake = 1
  Retention = 1
  PeriodsPerName = 1
  StrayPeriods = {}
  MaxNow = 1
  MaxEpoch = 1
  MaxStall = 1
  MaxFaults = 1
  AllowCascade = TRUE
  Hook = {"drop"}
PROPERTIES MaintenanceKeepsUp
