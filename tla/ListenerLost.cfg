SPECIFICATION Spec
CONSTANTS
  a = a
  b = b
  one = one
  two = two
  Handlers <- OneHandler
  Names <- TwoNames
  Ports = {443, 8443}
  HttpPort = 80
  BindPort = 8888
  HttpsPort = 443
  Bodies <- Several
  Elsewhere = Elsewhere
  NoName = NoName
  Same = Same
  Budget <- Events
  Total = 2
  RetryBase = 1
  RetryCap = 2
  DoublingLimit = 35
CHECK_DEADLOCK FALSE
INVARIANT
  RedirectsWhileUp
