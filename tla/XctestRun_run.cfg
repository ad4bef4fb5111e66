CONSTANTS
  Versions = {9, 17}
  MaxMessages = 2
  MaxPolls = 1
  MaxAttempts = 5
  Parallel = TRUE
  StackAttempts = 3
SPECIFICATION Spec
INVARIANTS TestmanagerdExchanged NothingLostAtHandOver OkMeansAnswered FailedWdaLeavesNoTask
PROPERTIES ImplementsSession RunReturns
CHECK_DEADLOCK FALSE
