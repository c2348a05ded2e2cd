\* A person retries what the PSE holds.
CONSTANTS
  Docs = {1}
  Requests = {1, 2}
  Job = 0
  Limit = 1
  MaxFaults = 1
  MaxVoids = 0
  Operations = {"retry"}
SPECIFICATION Spec
INVARIANT HeldIsNotSent
CHECK_DEADLOCK FALSE
