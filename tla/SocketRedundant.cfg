\* Two redundant legs, nothing lost on both, skew below the window.
SPECIFICATION Spec
CONSTANTS
    SeqModulus = 16
    LateThreshold = 7
    WindowSize = 3
    LegCount = 2
    Policies = {"WaitForMissing"}
    FlushAfter = 0
    FirstPosition = 13
    PositionCount = 5
    JunkKinds = {}
    MarkerPositions = {}
    Burst = 1
    Back = 0
    Redundant = TRUE
    Skew = 2
    MaxStarts = 1
    Stoppable = FALSE
    MaxFaults = 0
    MaxDatagrams = 9
PROPERTIES SeamlessMerge
