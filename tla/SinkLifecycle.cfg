\* Two starts and an output error at any delivery; audio counts from a configured reference.
SPECIFICATION FairSpec
CONSTANTS
    RtpModulus = 4
    AmbiguousDelta = 2
    NsLimit = 6
    NsPerSecond = 3
    Enabled = {"video", "audio"}
    MapperConfig <- MCReferenceConfig
    MaxQueued <- MCMaxQueued
    PlayoutDelay = 1
    FrameSteps = {1}
    Backwards = TRUE
    Prompt = FALSE
    MaxFrames = 2
    MaxTime = 6
    IntakeTime = 2
    MaxStarts = 2
INVARIANTS ErrorStopsSink
PROPERTIES QuietAfterStop PlayoutProgresses
