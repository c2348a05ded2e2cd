\* Answers that overtake each other.
CONSTANTS
  Tabs = {t1, t2}
  MaxTokens = 6
  MaxSessions = 2
SPECIFICATION Spec
INVARIANTS TabsAreNoReuse
CHECK_DEADLOCK FALSE
