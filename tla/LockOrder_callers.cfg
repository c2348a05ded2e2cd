\* The two callers that do not take balances in order: the initial inventory
\* import and the later rounds of a historic recost.
CONSTANTS
  Txs = {t1, t2}
  MaxRow = 2
  Docs = {}
  ClassOf <- NoRows
  Coils = {}
  CoilOf <- NoRows
  ProductBalances = {1, 2}
  MaxCalls = 2
  MaxAsked = 2
  FileOrder = TRUE
  HistoricRounds = TRUE
SPECIFICATION Spec
INVARIANTS WaitInOrder
CHECK_DEADLOCK FALSE
