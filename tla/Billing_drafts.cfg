\* Two drafts of one line, one of them a correction, sent at the same time.
CONSTANTS
  Docs = {1, 2, 3, 4}
  Ordered = 1
  Workers = {1, 2}
  Operations = {"correct"}
SPECIFICATION Spec
INVARIANT NotOverInvoiced
CHECK_DEADLOCK FALSE
