\* The four sources over a stream of five units and two blocks.
CONSTANTS
  Codecs = {"flate", "gzip", "bzip2", "brotli"}
  InSize = 5
  Yield <- MCYield
  BlockEnds <- MCBlockEnds
  ReadLens = {1, 2}
SPECIFICATION FairSpec
INVARIANTS
  TypeOK
  InStep
  SaveCanBeResumed
  DeliveredInPlace
PROPERTIES
  KeepsContract
  ReadsToEnd
  NeverPanics
