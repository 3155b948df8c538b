SPECIFICATION Spec
CONSTANTS
    Modes = {"Progressive", "Interlaced", "PsF", "Audio"}
    Formats = {"UYVY", "RGB8", "YUV422RFC4175PG2BE10", "YUV444RFC4175PG4BE10"}
    Width = 4
    Height = 3
    PacketGroups = {3}
    Dresses <- MCDresses
    Damages <- MCDamages
    AudioMedia <- MCAudioMedia
    SampleEdges <- MCSampleEdges
    MaxFrames = 3
    MaxFaults = 3
INVARIANTS
    FramesAreFaithful
    FramesComeThrough
    SamplesKeepTheirValue
CHECK_DEADLOCK FALSE
