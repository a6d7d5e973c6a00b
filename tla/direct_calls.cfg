CONSTANTS
  operation = operation
  save = save
  load = load
  Calls = {operation, save, load}
  Alone = {operation}
  Raising = {load}
  Interactions = {"q1", "q2"}
  Asks <- MCAsks
  MaxRetries = 1
  NoDialog = NoDialog
SPECIFICATION FairSpec
INVARIANTS CallsInv FateInv OneAttempt CalledBackAtMostOnce ToldWhatWasDone UnmixedAnswersBelong AttemptsBounded
PROPERTIES EveryCallAnswered KeepsPromise
CHECK_DEADLOCK FALSE
