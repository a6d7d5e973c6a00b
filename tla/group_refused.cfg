CONSTANTS
  Items = {i1, i2}
  Kinds = {"Execute", "Update"}
  Statuses = {"draft", "agreed", "approved"}
  OriginalStatus = {"draft", "agreed"}
  FinalStatus = {"agreed", "approved"}
  Unset = Unset
  Nothing = Nothing
SYMMETRY ItemSymmetry
SPECIFICATION Spec
INVARIANTS RefusedUnchanged
CHECK_DEADLOCK FALSE
