CONSTANTS
    StationCount = 2
    Outlets <- OneOutletEach
    NumCPU = 1
    RateCap = 0
    SessionTimes = {1, 2, 4}
    MeterTimes = {1}
    IdleTimes = {0}
    DownTimes = {1}
    BeatTimes = {3}
    FaultRate = 1
    Arrivals = {0, 3}
    Full = 6
    TaperAt = 4
    Fast = 2
    Taper <- Curve
    Tariffs <- Catalog
    PeakTariff <- PeakRate
    PeakTimes = {4}
    MaxTime = 4
SPECIFICATION Spec
INVARIANTS
    TypeOK StatusAnnounced CounterExact NoOverdueSession
PROPERTIES
    TimesInOrder SessionsNest BilledInFull
