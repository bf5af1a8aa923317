CONSTANTS
  RLE_MINIMUM_SIZE = 5
  UINT32_RANGE = 65536
  Leaves = {"null", "integer"}
  Tables <- NoTables
  Options <- Forced
  Leftovers <- Remote
  MaxTokens = 5
  MaxDepth = 2
SPECIFICATION Spec
INVARIANT SingleAllocation
