SPECIFICATION Spec
CONSTANTS
    RtpModulus = 4
    AmbiguousDelta = 2
    NsLimit = 6
    NsPerSecond = 3
    Enabled = {"video", "audio"}
    MapperConfig <- MCMapperConfig
    MaxQueued <- MCMaxQueued
    PlayoutDelay = 1
    FrameSteps = {1}
    Backwards = FALSE
    Prompt = TRUE
    MaxFrames = 3
    MaxTime = 6
    IntakeTime = 6
    MaxStarts = 1
INVARIANTS NothingOverdueWhileWaiting
