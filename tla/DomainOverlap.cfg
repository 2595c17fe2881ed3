SPECIFICATION Spec
CONSTANTS
  a = a
  b = b
  one = one
  two = two
  Handlers <- TwoHandlers
  Names <- TwoNames
  Ports = {443, 8443}
  HttpPort = 80
  BindPort = 8888
  HttpsPort = 443
  Bodies <- Overtaken
  Elsewhere = Elsewhere
  NoName = NoName
  Same = Same
  Budget <- Web
  Total = 3
  RetryBase = 1
  RetryCap = 2
  DoublingLimit = 35
CHECK_DEADLOCK FALSE
INVARIANT
  RestrictionEarned
