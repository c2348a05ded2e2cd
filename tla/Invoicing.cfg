\* The four worlds; these are the constants of the voiding one.
CONSTANTS
  Docs = {1, 2}
  Requests = {1, 2}
  Job = 0
  Limit = 1
  MaxFaults = 1
  MaxVoids = 2
  Operations = {"refresh", "void", "note", "pay"}
SPECIFICATION WorldSpec
INVARIANTS TypeOK OneSendAtATime AcceptedThereToo RejectedThereToo
  VoidedOwesNothing VoidIsRegistered NotOverInvoiced NotOverCredited CancelledInvoicesNothing
PROPERTIES IssuedEnds
CHECK_DEADLOCK FALSE
