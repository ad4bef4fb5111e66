CONSTANTS
  MaxConnections = 4
  MaxRequests = 2
SPECIFICATION Spec
INVARIANTS BothSidesAgree NumbersInStep
PROPERTIES KeysReplacedOnlyAfterProof AttemptReturns
