\* Two legs under each policy that flushes gaps; gaps of up to two packets.
SPECIFICATION Spec
CONSTANTS
    SeqModulus = 16
    LateThreshold = 7
    WindowSize = 3
    LegCount = 2
    Policies = {"FlushGapOnce", "FlushAfterNPackets", "FlushOnMarkerBoundary"}
    FlushAfter = 1
    FirstPosition = 13
    PositionCount = 4
    JunkKinds = {}
    MarkerPositions = {16}
    Burst = 2
    Back = 1
    Redundant = FALSE
    Skew = 0
    MaxStarts = 1
    Stoppable = FALSE
    MaxFaults = 0
    MaxDatagrams = 5
INVARIANTS PacketConservation DrainComplete
PROPERTIES MergeNeverLoses
