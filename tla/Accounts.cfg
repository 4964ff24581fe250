SPECIFICATION MCSpec
CONSTANTS
  Requests = {r1, r2}
  First = First
  NoId = NoId
  Passwords = {old, new}
  MaxAttempts = 1
  OpenRegistration = TRUE
  Threshold = 1
  MaxCodes = 3
  Slots = {s1, s2}
  Defaults <- MCDefaults
  Patches <- MCPatches
  Inherit = Inherit
  None = None
  MaxCost = 1
  MaxEdits = 1
  MaxFaults = 1
CHECK_DEADLOCK FALSE
INVARIANT SweptStayOut
PROPERTY LimitsCatchUp
PROPERTY CacheCatchesUp
INVARIANT CodesHold
INVARIANT CountersHold
