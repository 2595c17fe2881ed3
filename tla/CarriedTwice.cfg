SPECIFICATION Spec
CONSTANTS
  get1 = get1
  set1 = set1
  set2 = set2
  None = None
  Calls <- ThreeCalls
  SafeCalls <- OneRead
  Retries = 2
  RetryUnsafe = FALSE
CHECK_DEADLOCK FALSE
INVARIANTS
  CarriedOutOnce
