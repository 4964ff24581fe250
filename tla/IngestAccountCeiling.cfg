SPECIFICATION Spec
CONSTANTS
  d1 = d1
  d2 = d2
  d3 = d3
  home = home
  maths = maths
  Docs = {d1, d2}
  Pieces <- MCPieces
  Blocks <- MCBlocks
  ShelfRows = {home, maths}
  DefaultRow = home
  NoRow = NoRow
  Slugs = {"", "maths"}
  DefaultSlug = ""
  NoSlug = NoSlug
  Free = Free
  Urls = {}
  Deletable = {}
  Removable = {}
  StoreFails = FALSE
  Worker = FALSE
  Provider = "duckdb"
  Slots = 1
  MaxFiles = 2
  MaxStorage = 4
  MaxChunks = 3
  MaxCrashes = 0
SYMMETRY Twins
CHECK_DEADLOCK FALSE
INVARIANT AccountCeiling
