SPECIFICATION Spec
CONSTANTS
  d1 = d1
  d2 = d2
  d3 = d3
  home = home
  maths = maths
  Docs = {d1, d2, d3}
  Pieces <- Blank
  Blocks <- MCBlocks
  ShelfRows = {home}
  DefaultRow = home
  NoRow = NoRow
  Slugs = {"", "maths"}
  DefaultSlug = ""
  NoSlug = NoSlug
  Free = Free
  Urls = {d1, d2}
  Deletable = {d3}
  Removable = {}
  StoreFails = TRUE
  Worker = FALSE
  Provider = "duckdb"
  Slots = 1
  MaxFiles = 2
  MaxStorage = 3
  MaxChunks = 3
  MaxCrashes = 1
SYMMETRY Twins
CHECK_DEADLOCK FALSE
INVARIANT QuotaRespected
INVARIANT RefusedLeavesNothing
PROPERTY Reserves
