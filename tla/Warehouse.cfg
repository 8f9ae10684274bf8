CONSTANTS
    None = None
    NoMeter = None
    Events <- OneStop
    PartitionOf <- Spread
    ClosedDays = {1}
    MaxDuplicates = 1
    MaxRuns = 2
    MaxFaults = 2
SPECIFICATION FairSpec
INVARIANTS
    TypeOK CommittedRowsLanded RollupNeverUnderstates
PROPERTIES
    ReconcileRepairs EngineCatchesUp
CHECK_DEADLOCK FALSE
