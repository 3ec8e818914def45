SPECIFICATION Spec
CONSTANTS
  Segments <- MCSegments
  UpperAlnum <- MCUpperAlnum
  UpperOf <- MCUpperOf
  Importers = {i1}
  ParentName <- Events
  TenantIds <- OnlyacmeUs
  HasTenantColumn = TRUE
  Lengths = {1}
  Adopted <- NoneAdopted
  Offsets = "hours"
  Premake = 1
  Retention = 0
  Detaches = FALSE
  RemovalsAnytime = FALSE
  MaxDay = 0
  MaxEpoch = 1
CHECK_DEADLOCK FALSE
PROPERTY OwnIsRecognised
