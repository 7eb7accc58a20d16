\* The file is shorter than the root believes, and checkpoints come from
\* another file: past the end, or negative. A section in a section.
CONSTANTS
  Root = root
  Sections = {s1, s2}
  NoSource = nobody
  FileSize = 3
  RootSize = 4
  BufSize = 2
  MaxInt = 15
  ReadLens = {2}
  Bounds = {1, 2}
  Foreign <- MCForeign
  Threshold = 1
CONSTRAINT MCOneSaver
VIEW MCView
SYMMETRY MCSymmetry
SPECIFICATION CountingSpec
INVARIANTS
  OwnerAligned
  ToldPlaceInFile
