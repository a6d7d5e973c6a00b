CONSTANTS
  Items = {i1, i2, i3}
  Kinds = {"Execute", "Update"}
  Statuses = {"draft", "agreed", "approved"}
  OriginalStatus = {"draft", "agreed"}
  FinalStatus = {"agreed", "approved"}
  Unset = Unset
  Nothing = Nothing
SYMMETRY ItemSymmetry
SPECIFICATION Spec
INVARIANTS GroupInv CompletedAsRecorded NeverRecordedTwice EveryDocumentAnswered
PROPERTIES OnlyCompletionChanges
CHECK_DEADLOCK FALSE
