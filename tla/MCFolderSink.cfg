\* Two folders with a file each, links between them, one call that fails.
CONSTANTS
  Folders = {d, l}
  Names = {x, icon}
  Ignored = {icon}
  Elsewhere = elsewhere
  OlderTrees <- MCOlderTrees
  Platforms = {TRUE, FALSE}
  MaxLen = 2
  MaxFaults = 1
VIEW MCView
SYMMETRY MCSymmetry
SPECIFICATION Spec
INVARIANTS
  TypeOK
  WriterInStep
  RightType
  NoneLeaked
PROPERTIES
  OthersKept
  KeepsContract
