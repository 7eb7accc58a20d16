\* A retry with the checkpoint that an error left in memory.
CONSTANTS
  NumEntries = 2
  Archive <- MCSmall
  Sources = {"seek"}
  EmptyBlocks = 1
  Reused = {}
  MaxRead = 2
  MaxFaults = 1
  Retries = TRUE
  PowerFails = FALSE
SPECIFICATION Spec
INVARIANT RetryComplete
CHECK_DEADLOCK FALSE
