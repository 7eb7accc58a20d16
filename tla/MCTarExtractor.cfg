\* Both sources, used again by every call until the process ends; stops, errors,
\* crashes of the process and fresh restarts.
CONSTANTS
  NumEntries = 6
  Archive <- MCMixed
  Sources = {"seek", "blocks"}
  EmptyBlocks = 1
  Reused = {"seek", "blocks"}
  MaxRead = 2
  MaxFaults = 1
  Retries = FALSE
  PowerFails = FALSE
SPECIFICATION FairSpec
INVARIANTS
  TypeOK
  ResultComplete
  SavedResumable
  NextSaveGains
PROPERTIES
  KeepsPromise
  KeepsToSink
  Finishes
CHECK_DEADLOCK FALSE
