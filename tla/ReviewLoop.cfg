SPECIFICATION Spec
CONSTANTS
  c1 = c1
  c2 = c2
  c3 = c3
  d1 = d1
  d2 = d2
  kg = kg
  ghost = ghost
  Chunks = {c1, c2, c3}
  Names = {d1, d2, kg, ghost}
  DocOf <- MCDocOf
  Labels = {kg}
  Drafts <- MCDrafts
  Rewrites <- MCRewrites
  Calls = {0, 2}
  MaxRounds = 2
  FreeCalls = 1
INVARIANTS
  WorstCase
  ReportDescribesAnswer
  RevisedIsHonest
PROPERTIES
  CitableNeverShrinks
