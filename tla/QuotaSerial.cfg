SPECIFICATION Spec
CONSTANTS
  h1 = h1
  u1 = u1
  None = None
  Sampler = bg
  Handlers = {req}
  SessionNames = {1}
  Hubs <- OneHub
  Users <- OneUser
  HubOf <- HubOfU1
  Watched <- Both
  OperatorGates <- OpenOrShut
  Ceilings <- UploadOrHigh
  MaxBytes = 2
  MayOverlap = FALSE
  Unreliable <- HarmlessReads
  Budget <- Calm
INVARIANTS
  CutOffIsExplained
  RestoreIsOriginal
  BlockedIsCutOff
PROPERTIES
  PassSettlesTable
  MeterNeverRunsBack
CONSTRAINT
  SerialBound
