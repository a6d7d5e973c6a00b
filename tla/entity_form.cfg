CONSTANTS
  name = name
  date = date
  Forms = {f1, f2}
  Ids = {i1, i2}
  Existing = {i1}
  Fields = {name, date}
  ByIdentity = {date}
  Values <- MCValues
  Shown <- MCShown
  OthersWrite <- MCOthersWrite
  Default = 0
  Denormalized = TRUE
  MaxRetries = 0
  MaxCalls = 2
  None = None
SYMMETRY FormSymmetry
SPECIFICATION Spec
INVARIANTS EntityInv PatientEditsKept CreatedOnce WindowsRegistered MaskAwaitsAnswer
PROPERTIES OnlyTypedFieldsWritten
CHECK_DEADLOCK FALSE
