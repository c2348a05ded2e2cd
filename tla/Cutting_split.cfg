SPECIFICATION Spec
CONSTANTS
  Bought = 1
  Weight = 2
  Kerf = 1
  MaxCoils = 4
  MaxRows = 7
  MaxSent = 2
  Rare = {}
  ChildrenAtHome = FALSE
INVARIANT EntryHolds
CHECK_DEADLOCK FALSE
