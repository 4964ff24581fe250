SPECIFICATION FairSpec
CONSTANTS
  Events = {e1, e2, e3}
  Malformed = {e2}
  Poison = {e3}
  Workers = {w1, w2}
  MaxQueue = 1
  BatchSize = 2
  MaxEntries = 2
  MaxFaults = 2
  NoWorker = NoWorker
INVARIANT NothingVanishes
PROPERTY AcceptedArrives
CHECK_DEADLOCK FALSE
