CONSTANTS
  Docs = {d1}
  Requests = {r1, r2, r3}
  Users = {ann}
  Admins = {}
  Operations = {"edit"}
  CreateOperation = Nothing
  Statuses = {"draft"}
  Draft = "draft"
  OriginalStatus <- MCOriginalStatus
  FinalStatus <- MCFinalStatus
  Kinds = {"Begin", "Complete", "Cancel", "Execute", "Save", "Delete"}
  Initial = Initial
  Nothing = Nothing
  Deleted = Deleted
SPECIFICATION FairSpec
PROPERTIES EveryRequestEnds
CHECK_DEADLOCK FALSE
