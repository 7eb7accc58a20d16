SPECIFICATION Spec
CONSTANTS
  NumEntries = 2
  Archive <- MCResumable
  BlockEnds = {1, 3}
  EmptyBlocks = 1
  MaxRead = 2
  MaxFaults = 1
  PowerFails = TRUE
INVARIANT CompleteAfterPowerLoss
CHECK_DEADLOCK FALSE
