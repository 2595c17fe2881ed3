SPECIFICATION Spec
CONSTANTS
  here = here
  there = there
  p1 = p1
  p2 = p2
  s1 = s1
  s2 = s2
  None = None
  Threads = {t1, t2}
  MayOverlap = FALSE
  Hosts <- TwoHosts
  Ports <- TwoPorts
  Passwords <- TwoPasswords
  Servers <- TwoServers
  Default <- Seed
  Budget <- AllAnswered
CHECK_DEADLOCK FALSE
INVARIANTS
  AnswerKeepsInStep
