CONSTANTS
  RLE_MINIMUM_SIZE = 5
  UINT32_RANGE = 65536
  Leaves = {"integer", "null"}
  Tables <- NoTables
  Options <- Defaults
  Leftovers <- NoLeftovers
  MaxTokens = 7
  MaxDepth = 2
SPECIFICATION Spec
INVARIANT LookupFollowsExpressions
