\* A root told 3 bytes of a file of 4, and one section cut out of it.
CONSTANTS
  Root = root
  Sections = {section}
  NoSource = nobody
  FileSize = 4
  RootSize = 3
  BufSize = 2
  MaxInt = 15
  ReadLens = {0, 2}
  Bounds <- MCBounds
  Foreign <- MCNegative
SPECIFICATION FairSpec
INVARIANTS
  TypeOK
  OwnerAligned
  DeliveredInPlace
  ReadsInsideSection
  SectionsInsideRoot
PROPERTIES
  KeepsContract
  WantServed
