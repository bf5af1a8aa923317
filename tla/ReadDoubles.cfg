CONSTANTS
  RLE_MINIMUM_SIZE = 5
  UINT32_RANGE = 65536
  Leaves = {"csv"}
  Tables <- LateTables
  Options <- Defaults
  Leftovers <- NoLeftovers
  MaxTokens = 6
  MaxDepth = 2
SPECIFICATION Spec
INVARIANT SameQuery
