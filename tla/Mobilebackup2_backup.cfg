CONSTANTS
  Paths = {p, q}
  Values = {1}
  MaxBlocks = 2
  MaxRequests = 3
  MaxWire = 2
  Targets = {50, 80}
  Totals = {0, 2}
  EmitBytes = 2
  Rejecting = TRUE
SPECIFICATION Spec
INVARIANT BackupIsWhatDeviceBelieves
PROPERTIES StaysInStep ProgressNeverFalls
CHECK_DEADLOCK FALSE
