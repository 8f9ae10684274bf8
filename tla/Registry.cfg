SPECIFICATION FairSpec
CONSTANTS
  w1 = w1
  s1 = s1
  s2 = s2
  t1 = t1
  t2 = t2
  None = None
  NoTariff = NoTariff
  Workers = {w1}
  Seeds <- MCSeeds
  Arriving <- MCArriving
  MaxSeeds = 3
  MaxFailures = 1
INVARIANTS
  TypeOK
  RunningHasRoster
  VerdictsJustified
PROPERTIES
  EventuallyCurrent
