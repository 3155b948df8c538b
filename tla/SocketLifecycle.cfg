\* Two starts, a failure anywhere, every kind of datagram.
SPECIFICATION FairSpec
CONSTANTS
    SeqModulus = 16
    LateThreshold = 7
    WindowSize = 2
    LegCount = 2
    Policies = {"FlushGapOnce"}
    FlushAfter = 0
    FirstPosition = 13
    PositionCount = 2
    JunkKinds = {"control", "nonmedia"}
    MarkerPositions = {}
    Burst = 1
    Back = 0
    Redundant = FALSE
    Skew = 0
    MaxStarts = 2
    Stoppable = TRUE
    MaxFaults = 1
    MaxDatagrams = 2
INVARIANTS HealthIsTrue
PROPERTIES SinkQuietAfterStop ThreadsProgress
