\* The program may be stopped, fail, be killed and start afresh.
CONSTANTS
  NumEntries = 5
  Archive <- MCMixed
  BlockEnds = {1, 3}
  EmptyBlocks = 1
  MaxRead = 2
  MaxFaults = 2
  PowerFails = FALSE
SPECIFICATION FairSpec
INVARIANTS
  ResultComplete
  SavedResumable
  NextSaveGains
PROPERTIES
  KeepsPromise
  KeepsToSink
  Finishes
CHECK_DEADLOCK FALSE
