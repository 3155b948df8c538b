\* LateThreshold = SeqModulus/2 - 1, as in the 32-bit video buffer.
SPECIFICATION Spec
CONSTANTS
    SeqModulus = 16
    LateThreshold = 7
    WindowSize = 3
    MaxPosition = 18
    MaxPushes = 5
    Positions <- MCPositions
INVARIANTS TypeOK SequenceTracking Accounting
PROPERTIES InOrderDelivery ResyncSound
