CONSTANTS
  Docs = {d1}
  Requests = {r1, r2}
  Users = {ann}
  Admins = {}
  Operations = {"approve", "edit"}
  CreateOperation = Nothing
  Statuses = {"draft", "approved"}
  Draft = "draft"
  OriginalStatus <- MCOriginalStatus
  FinalStatus <- MCFinalStatus
  Kinds = {"Execute"}
  Initial = Initial
  Nothing = Nothing
  Deleted = Deleted
SPECIFICATION Spec
PROPERTIES OperationStartsOnRoute
CHECK_DEADLOCK FALSE
