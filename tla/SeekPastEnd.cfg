\* A checkpoint past the end of the file, as the tests use one.
CONSTANTS
  Root = root
  Sections = {section}
  NoSource = nobody
  FileSize = 3
  RootSize = 3
  BufSize = 2
  MaxInt = 15
  ReadLens = {1, 2}
  Bounds = {1, 2}
  Foreign <- MCPastEnd
SPECIFICATION Spec
INVARIANT ResumedOffsetValid
