SPECIFICATION Spec
CONSTANTS
  Callers = {c1}
  Maintainers = {m1}
  Tenants = {t1, t2}
  NoTenant = NoTenant
  NoWorker = NoWorker
  HasTenantColumn = TRUE
  HasRetentionSchema = TRUE
  Premake = 1
  Retention = 1
  PeriodsPerName = 1
  StrayPeriods = {2}
  MaxNow = 2
  MaxEpoch = 3
  MaxStall = 1
  MaxFaults = 1
  AllowCascade = FALSE
  Hook = {"drop", "skip"}
INVARIANTS MetadataAgrees
PROPERTIES SweepSparesLive EnsureDelivers
