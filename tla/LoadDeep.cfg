CONSTANTS
  RLE_MINIMUM_SIZE = 5
  UINT32_RANGE = 7
  Leaves = {"boolean"}
  Tables <- NoTables
  Options <- Forced
  Leftovers <- Benign
  MaxTokens = 11
  MaxDepth = 4
SPECIFICATION Spec
INVARIANTS LayersAgree StoresInBlock RunsInsideSlices
PROPERTIES BlockIsTree
