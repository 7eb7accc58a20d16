\* The same, and power may be lost, with what was not synced.
CONSTANTS
  NumEntries = 2
  Archive <- MCResumable
  BlockEnds = {1, 3}
  EmptyBlocks = 1
  MaxRead = 2
  MaxFaults = 3
  PowerFails = TRUE
SPECIFICATION Spec
INVARIANTS
  TypeOK
  SavedDurable
PROPERTY SavedAdvances
CHECK_DEADLOCK FALSE
