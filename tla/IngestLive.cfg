SPECIFICATION FairSpec
CONSTANTS
  d1 = d1
  d2 = d2
  d3 = d3
  home = home
  maths = maths
  Docs = {d1, d3}
  Pieces <- MCPieces
  Blocks <- MCBlocks
  ShelfRows = {home, maths}
  DefaultRow = home
  NoRow = NoRow
  Slugs = {"", "maths"}
  DefaultSlug = ""
  NoSlug = NoSlug
  Free = Free
  Urls = {}
  Deletable = {}
  Removable = {maths}
  StoreFails = TRUE
  Worker = FALSE
  Provider = "duckdb"
  Slots = 1
  MaxFiles = 2
  MaxStorage = 4
  MaxChunks = 2
  MaxCrashes = 0
CHECK_DEADLOCK FALSE
INVARIANT CorpusCeiling
INVARIANT AcceptedRowHasFile
PROPERTY EveryUploadSettles
