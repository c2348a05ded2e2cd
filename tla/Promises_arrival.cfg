\* A coil enters the aggregate while it is being promised.
CONSTANTS
  c1 = c1 c2 = c2 s1 = s1 h1 = h1
  Coils = {c1, c2}
  Products = {}
  Specs = {s1}
  Matches <- CoilMatches
  Holders = {h1}
  For <- OneFor
  Temporary = {}
  MaxKg = 1
  Workers = {w1, w2}
  Quiet = FALSE
  InitialKg <- OneKg
  NotReceived = {c2}
SPECIFICATION Spec
INVARIANTS Covered
CHECK_DEADLOCK FALSE
