CONSTANTS
  Forms = {f1, f2}
  Operations = {"edit", "sign"}
  Fields = {name}
  Editable <- MCEditable
  Handled <- MCHandled
  ByIdentity = {}
  Values = {0, 1, 2}
  Shown <- MCShown
  MaxRetries = 0
  Opened <- MCOpened
  Started = {"edit"}
  MaxCalls = 3
  MaxUnderWay = 2
  None = None
SYMMETRY FormSymmetry
SPECIFICATION Spec
INVARIANTS OperationInv ButtonsTellTruth OperationOffered
PROPERTIES EndsOwnOperation CompletesWhatWasTyped
CHECK_DEADLOCK FALSE
