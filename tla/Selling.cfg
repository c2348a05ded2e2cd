\* A till; two overlapping aggregates, a coil promised whole, three lines over a product;
\* two tabs of a browser; an administrator and a seller.
CONSTANTS
  Requests = {r1, r2}
  Keys = {k1, k2}
  MaxSessions = 2
  MaxSales = 2
  MaxFaults = 2
  k1 = k1 k2 = k2
  c1 = c1 c2 = c2 p1 = p1 s1 = s1 s2 = s2 h1 = h1 h2 = h2 h3 = h3
  t1 = t1 t2 = t2 ana = ana beto = beto
SPECIFICATION WorldSpec
SYMMETRY WorldSymmetry
INVARIANTS ClosedAddsUp SoldOnce VoidedIsUndone TypesOK PromisesCovered AllChecksStayTrue
  ReuseIsExplained NobodyIsThrownOut ChangesEndSessions
PROPERTIES WorldLedger PromisedCoilsStay
CHECK_DEADLOCK FALSE
