\* Two slots, every failure and a crash of the worker at every step.
SPECIFICATION FairSpec
CONSTANTS
    SlotCount = 2
    MaxFrames = 4
    MayFail = TRUE
INVARIANTS SlotOwnership EventsMatchSlots NoSlotLeak SinkPinned
PROPERTIES ImplementsChannel SlotsComeBack
CHECK_DEADLOCK FALSE
