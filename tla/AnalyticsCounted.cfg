SPECIFICATION Spec
CONSTANTS
  w1 = w1
  w2 = w2
  p1 = p1
  a = a
  b = b
  Workers <- MCWorkers
  Partitions = {p1}
  Events <- MCEvents
  Logs <- ShortLog
  Rosters <- OneRoster
  BatchSize = 2
  MaxFaults = 0
SYMMETRY WorkerSymmetry
INVARIANTS
  CountedOnce
