SPECIFICATION Spec
CONSTANTS
  d1 = d1
  d2 = d2
  d3 = d3
  home = home
  maths = maths
  Docs = {d1, d3}
  Pieces <- MCPieces
  Blocks <- MCBlocks
  ShelfRows = {home}
  DefaultRow = home
  NoRow = NoRow
  Slugs = {"", "maths"}
  DefaultSlug = ""
  NoSlug = NoSlug
  Free = Free
  Urls = {}
  Deletable = {d1}
  Removable = {}
  StoreFails = TRUE
  Worker = TRUE
  Provider = "neo4j"
  Slots = 2
  MaxFiles = 2
  MaxStorage = 4
  MaxChunks = 3
  MaxCrashes = 1
CHECK_DEADLOCK FALSE
INVARIANT IngestedIsStored
INVARIANT StampAgrees
