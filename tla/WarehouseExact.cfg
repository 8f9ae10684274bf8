CONSTANTS
    None = None
    NoMeter = None
    Events <- TwoStops
    PartitionOf <- Spread
    ClosedDays = {1}
    MaxDuplicates = 0
    MaxRuns = 1
    MaxFaults = 0
SPECIFICATION Spec
PROPERTY ReconciledIsExact
CHECK_DEADLOCK FALSE
