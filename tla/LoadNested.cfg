CONSTANTS
  RLE_MINIMUM_SIZE = 2
  UINT32_RANGE = 4
  Leaves = {"integer", "csv"}
  Tables <- SmallTables
  Options <- AllOrNone
  Leftovers <- Headed
  MaxTokens = 8
  MaxDepth = 3
SPECIFICATION Spec
INVARIANTS TypeOK SlicesDisjoint BlockFilled RunsInsideSlices
PROPERTIES ArgumentsStay BlockIsTree
