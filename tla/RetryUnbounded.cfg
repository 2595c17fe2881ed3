SPECIFICATION Spec
CONSTANTS
  a = a
  b = b
  one = one
  two = two
  Handlers <- OneHandler
  Names <- OnlyA
  Ports = {443, 8443}
  HttpPort = 80
  BindPort = 8888
  HttpsPort = 443
  Bodies = {}
  Elsewhere = Elsewhere
  NoName = NoName
  Same = Same
  Budget <- Outage
  Total = 36
  RetryBase = 1
  RetryCap = 6
  DoublingLimit = 35
CHECK_DEADLOCK FALSE
PROPERTY
  UnaskedWaits
