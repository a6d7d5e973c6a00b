CONSTANTS
  Docs = {d1}
  Requests = {r1, r2, r3}
  Users = {ann, bob}
  Admins = {bob}
  Operations = {"approve", "edit"}
  CreateOperation = "approve"
  Statuses = {"draft", "approved"}
  Draft = "draft"
  OriginalStatus <- MCOriginalStatus
  FinalStatus <- MCFinalStatus
  Kinds = {"Begin", "Complete", "Cancel", "Execute", "Create", "Save", "Delete"}
  Initial = Initial
  Nothing = Nothing
  Deleted = Deleted
SYMMETRY RequestSymmetry
SPECIFICATION Spec
INVARIANTS DispatchInv CheckedInv OneOperationAtATime
PROPERTIES NothingExecutedWhileBegun EndsWhatItChecked ExecutedFollowsRoute StatusLeftAsRecorded ImplementsLifecycle
CHECK_DEADLOCK FALSE
