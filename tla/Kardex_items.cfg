\* A product over three days, its values at two costs, a coil, and the orders.
SPECIFICATION WorldSpec
CONSTANTS
  MinDelta = 100
  MaxDay = 3
  Quantities = {1,2}
  Amounts = {30000}
  Items <- Explored
INVARIANTS TypesOK NoDateIsNegative ReversalsCancel OutsAtTheirAverage CacheIsKept
  OneCustodian HeldIsThere ConsumedIsOut EmptyIsTerminated
  PromisedIsProduced ClosingCanBeUndone
PROPERTIES StockSpec
CHECK_DEADLOCK FALSE
