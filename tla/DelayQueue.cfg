SPECIFICATION FairSpec
CONSTANTS
  s1 = s1
  s2 = s2
  a = a
  b = b
  c = c
  Never = Never
  None = None
  Senders <- MCSenders
  Plan <- MCPlan
  Delays = {1, 2}
  MaxTime = 3
  MaxFaults = 1
INVARIANTS
  TypeOK
  NeverOversleeps
  OneRoute
PROPERTIES
  HeldUntilDue
  EventuallyReleased
