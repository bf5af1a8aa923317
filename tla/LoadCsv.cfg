CONSTANTS
  RLE_MINIMUM_SIZE = 3
  UINT32_RANGE = 65536
  Leaves = {"null", "csv"}
  Tables <- MixedTables
  Options <- Forced
  Leftovers <- Headed
  MaxTokens = 6
  MaxDepth = 2
SPECIFICATION Spec
INVARIANTS StoresInBlock SlicesDisjoint BlockFilled RunsInsideSlices IteratorFindsType SwiftReadsFirstRun FormatsAgree LazyReaderFinds QueryFindsRows
PROPERTIES BlockIsTree
