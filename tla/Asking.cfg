INIT MCInit
NEXT MCNext
CONSTANTS
  MaxCalls <- MCMaxCalls
  pass1 = pass1
  pass2 = pass2
  other = other
  p1 = p1
  p2 = p2
  t1 = t1
  t2 = t2
  t3 = t3
  Sessions = {pass1, pass2, other}
  Requests = {"review", "question"}
  RequestOf <- MCRequestOf
  ModelOf <- MCModelOf
  Remembers <- MCRemembers
  ToolCalls <- MCToolCalls
  Passages = {p1, p2}
  MaxIterations = 2
  AgentCacheSize = 1
  MaxSpent <- MCMaxSpent
SYMMETRY Interchangeable
CHECK_DEADLOCK FALSE
INVARIANT SavedIsSent
INVARIANT RefusalShipsNothing
INVARIANT GuardDecides
INVARIANT EventOrder
INVARIANT BillCoversCalls
INVARIANT EvidenceIsOwn
INVARIANT AgentFits
INVARIANT EveryCallIsMetered
