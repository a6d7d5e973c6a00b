CONSTANTS
  operation = operation
  save = save
  load = load
  Calls = {save, load}
  Alone = {}
  Raising = {}
  Interactions = {"q1", "q2"}
  Asks <- MCAsks
  MaxRetries = 0
  NoDialog = NoDialog
SPECIFICATION Spec
INVARIANTS AnswersBelong
CHECK_DEADLOCK FALSE
