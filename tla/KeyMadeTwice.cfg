SPECIFICATION Spec
CONSTANTS
  Attempts = 3
  MaxPolls = 2
  MaxForgets = 3
  MaxBare = 1
  Tags <- Installable
  FirstTag <- OldRelease
  UpdateBudget <- DiskIsFull
  MaxMishaps = 1
  Users = {u1}
  Passwords = {q1, q2}
  NoPassword = NoPassword
  Inputs = 2
  Restarts = 1
  Threads = {r1, r2}
  Failures = 0
CHECK_DEADLOCK FALSE
INVARIANT SealedWithStored
