\* Both sources, a new one for every process; retries with what an error left
\* in memory, and losses of power.
CONSTANTS
  NumEntries = 3
  Archive <- MCFiles
  Sources = {"seek", "blocks"}
  EmptyBlocks = 1
  Reused = {}
  MaxRead = 2
  MaxFaults = 2
  Retries = TRUE
  PowerFails = TRUE
SPECIFICATION Spec
INVARIANTS
  Aligned
  ResultListsFiles
CHECK_DEADLOCK FALSE
