SPECIFICATION WorldSpec
CONSTANTS
  MinDelta = 100
  MaxDay = 2
  Quantities = {1,2}
  Amounts = {30000}
  Items <- Adjusted
INVARIANTS BalanceIsACache
CHECK_DEADLOCK FALSE
