SPECIFICATION Spec
CONSTANTS
  w1 = w1
  w2 = w2
  p1 = p1
  None = None
  Workers <- MCWorkers
  Partitions = {p1}
  Events <- MCEvents
  Accepted <- MCAccepted
  Logs <- StateLogs
  BatchSize = 2
  MaxFaults = 2
SYMMETRY WorkerSymmetry
INVARIANTS
  TypeOK
  ConvergesAtRest
  FieldsHeal
  LossNeedsTwoFailures
