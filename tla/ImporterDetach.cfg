SPECIFICATION Spec
CONSTANTS
  Segments <- MCSegments
  UpperAlnum <- MCUpperAlnum
  UpperOf <- MCUpperOf
  Importers = {i1, i2}
  ParentName <- Events
  TenantIds <- OnlyACME
  HasTenantColumn = TRUE
  Lengths = {1}
  Adopted <- MixedAdopted
  Offsets = "hours"
  Premake = 1
  Retention = 0
  Detaches = TRUE
  RemovalsAnytime = FALSE
  MaxDay = 1
  MaxEpoch = 2
INVARIANTS TypeOK ActiveIsAttached RowsFitInterval
PROPERTIES ImportCovers ImportIsIdempotent OwnIsRecognised
CHECK_DEADLOCK FALSE
SYMMETRY Symmetry
