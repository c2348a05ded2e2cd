\* Two persons consult and void one document, and nothing fails.
CONSTANTS
  Docs = {1}
  Requests = {1, 2}
  Job = 0
  Limit = 1
  MaxFaults = 0
  MaxVoids = 2
  Operations = {"refresh", "void"}
SPECIFICATION Spec
INVARIANT NeverGivenBack
CHECK_DEADLOCK FALSE
