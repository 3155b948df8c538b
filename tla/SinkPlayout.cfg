SPECIFICATION Spec
CONSTANTS
    RtpModulus = 4
    AmbiguousDelta = 2
    NsLimit = 2
    NsPerSecond = 3
    Enabled = {"video", "audio"}
    MapperConfig <- MCMapperConfig
    MaxQueued <- MCMaxQueued
    PlayoutDelay = 1
    FrameSteps = {1}
    Backwards = TRUE
    Prompt = FALSE
    MaxFrames = 3
    MaxTime = 3
    IntakeTime = 3
    MaxStarts = 1
INVARIANTS ItemConservation NeverEarly
PROPERTIES PlayoutInOrder
