SPECIFICATION Spec
CONSTANTS
  w1 = w1
  w2 = w2
  p1 = p1
  a = a
  b = b
  Workers <- MCWorkers
  Partitions = {p1}
  Events <- MCEvents
  Logs <- PairLogs
  Rosters <- TwoRosters
  BatchSize = 2
  MaxFaults = 1
SYMMETRY WorkerSymmetry
INVARIANTS
  TypeOK
  NothingSkipped
  NoCommitBeforeDurable
  MarkedImpliesProduced
  DuplicateNeedsDisturbance
  NoShutdownGap
  RoutedOneWay
PROPERTIES
  ImplementsAtLeastOnce
  CommitsMoveForward
