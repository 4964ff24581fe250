INIT Init
NEXT Next
CONSTANTS
  MaxTokens = 2
  Overlap = 1
  MinTokens = 2
  Configured = "recursive"
  MaxLength = 6
  Excess = 1
  Jobs = {"job"}
  Deleter = "deleter"
  Docs = {"d1", "d2"}
  Pieces <- MCPieces
  Entities = {"acme", "bolt", "acme inc", "bolts"}
  Says <- MCSays
  Contained <- MCContained
  Alike <- MCAlike
  MaxEntities = 3
  NameLength <- MCNameLength
  MinSize = 2
  None = "none"
  Models = {"m1", "m2"}
  Default = "m1"
  Fallbacks <- MCFallbacks
  Usable = {"m1", "m2"}
  Callers = {k1, k2}
  MaxFailures = 2
  MaxStreamed = 2
  Nobody = "nobody"
  Passages = {p1, p2}
  Searchers = {s1, s2}
  Chained = TRUE
  Links <- MCLinks
  CandidateK = 2
  TopK = 2
  SharesMetadata = TRUE
  Threads = {w1, w2}
  MaxSteps = 2
  Question = "q"
  Ingests = {"i"}
  Owner <- MCOwner
  HasRedis = TRUE
  MemMax = 1
  Calls = {g1, g2}
  Questions = {"q1"}
  Answers = {"a1", "a2"}
  Long = {"q1"}
  Key <- MCKey
  Tier <- MCTier
  Secret = {"a2"}
  FlagAt = 60
  BlockAt = 85
  RuleAction = "block"
  Trigger = "always"
  FailMode = "closed"
  FailOpen = FALSE
  Verdicts = {10, 90}
  Specs <- MCSpecs
  Keyed = {"deepseek", "cohere"}
  MaxJudge = 1
  MaxJudgeFailures = 2
  CacheSize = 1
  Parts = {"search"}
SYMMETRY Interchangeable
CHECK_DEADLOCK FALSE
INVARIANT GateJudgesRelevance
