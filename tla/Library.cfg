SPECIFICATION LSpec
CONSTANTS
  Slots = {q1, q2}
  Shelves = {r1, r2}
  Default = Default
  Maths = Maths
  Maths2 = Maths2
  Slugs <- MCSlugs
  Threads = {t1}
  NoThread = NoThread
  MaxShelves = 2
  MaxThreads = 1
  MaxActive = 2
  MaxFaults = 1
SYMMETRY MCRequests
CHECK_DEADLOCK FALSE
INVARIANT MemoryFollowsShelf
INVARIANT NothingStranded
