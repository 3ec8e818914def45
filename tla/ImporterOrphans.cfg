SPECIFICATION Spec
CONSTANTS
  Segments <- MCSegments
  UpperAlnum <- MCUpperAlnum
  UpperOf <- MCUpperOf
  Importers = {i1}
  ParentName <- Events
  TenantIds <- OnlyACME
  HasTenantColumn = TRUE
  Lengths = {1}
  Adopted <- MixedAdopted
  Offsets = "hours"
  Premake = 1
  Retention = 0
  Detaches = FALSE
  RemovalsAnytime = FALSE
  MaxDay = 1
  MaxEpoch = 1
CHECK_DEADLOCK FALSE
PROPERTY OrphansAreGone
