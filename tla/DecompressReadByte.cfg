\* Two saves at two block ends with nothing between them, read byte by byte.
CONSTANTS
  Codecs = {"flate"}
  InSize = 5
  Yield <- MCEmptyYield
  BlockEnds <- MCEmptyBlockEnds
  ReadLens = {1, 2}
SPECIFICATION Spec
INVARIANT ByteWasRead
