CONSTANTS
  Docs = {d1}
  Requests = {r1, r2, r3}
  Users = {ann, bob}
  Admins = {}
  Operations = {"approve", "edit"}
  CreateOperation = "approve"
  Statuses = {"draft", "approved"}
  Draft = "draft"
  OriginalStatus <- MCOriginalStatus
  FinalStatus <- MCFinalStatus
  Kinds = {"Begin", "Complete", "Cancel", "Execute", "Create"}
  Initial = Initial
  Nothing = Nothing
  Deleted = Deleted
SYMMETRY RequestSymmetry
SPECIFICATION Spec
INVARIANTS SnapInv
PROPERTIES ImplementsExclusiveLifecycle SnapshotIsLastCommitted FrozenWhileBegun
CHECK_DEADLOCK FALSE
