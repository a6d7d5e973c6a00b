CONSTANTS
  Docs = {d1}
  Requests = {r1, r2, r3}
  Users = {ann, bob}
  Admins = {}
  Operations = {"approve", "edit"}
  CreateOperation = Nothing
  Statuses = {"draft", "approved"}
  Draft = "draft"
  OriginalStatus <- MCOriginalStatus
  FinalStatus <- MCFinalStatus
  Kinds = {"Begin", "Complete"}
  Initial = Initial
  Nothing = Nothing
  Deleted = Deleted
SPECIFICATION Spec
PROPERTIES OnlyAllowedUserEnds
CHECK_DEADLOCK FALSE
