\* An invoice, an order, two coils, the balance of one of them and a product.
CONSTANTS
  Txs = {t1, t2}
  MaxRow = 6
  Docs = {1, 2}
  ClassOf <- GatesClassOf
  Coils = {3, 4}
  CoilOf <- GatesCoilOf
  ProductBalances = {6}
  MaxCalls = 2
  MaxAsked = 2
  FileOrder = FALSE
  HistoricRounds = FALSE
SPECIFICATION FairSpec
INVARIANTS TypeOK MemoryIsHeld CoilBeforeItsBalance WaitInOrder NoDeadlock
PROPERTY EveryTransactionEnds
CHECK_DEADLOCK FALSE
