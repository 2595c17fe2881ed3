SPECIFICATION FairSpec
CONSTANTS
  h1 = h1
  u1 = u1
  None = None
  Sampler = bg
  Handlers = {req}
  SessionNames = {1}
  Hubs <- OneHub
  Users <- OneUser
  HubOf <- HubOfU1
  Watched <- UserOnly
  OperatorGates <- OpenOrShut
  Ceilings <- LowOrNone
  MaxBytes = 1
  MayOverlap = FALSE
  Unreliable <- BlockingCall
  Budget <- Retried
PROPERTIES
  OverEventuallyBlocked
  ReleaseEventuallyTakes
