SPECIFICATION Spec
CONSTANTS
  h1 = h1
  u1 = u1
  None = None
  Sampler = bg
  Handlers = {req}
  SessionNames = {1}
  Hubs <- OneHub
  Users <- OneUser
  HubOf <- HubOfU1
  Watched <- UserOnly
  OperatorGates <- UnderPolicy
  Ceilings <- Low
  MaxBytes = 1
  MayOverlap = TRUE
  Unreliable <- AnyCall
  Budget <- Rough
INVARIANTS
  BaseNeverAboveLast
  NeverInventsAccess
  BlockRemembersRestore
PROPERTIES
  MarksOnlyWhatItSawOver
CONSTRAINT
  OverlapBound
