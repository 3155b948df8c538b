SPECIFICATION FairSpec
CONSTANTS
    MaxU64 = 1023
    Alignment = 8
    HeaderSize = 16
    MaxDescriptors = 2
    Second = 10
    Threads = {"t1", "t2"}
    Msg <- MCMsg
    MessagesOf <- MCMessagesOf
    MaxFrameBytes = 1061
    MaxFds = 2
    Cuts = {2, 9}
    MixedSizes = {0, 40, 2000}
    MaxSegments = 2
    MaxFrames = 3
    MaxTimeouts = 1
    Nobody = "nobody"
INVARIANTS FramesArriveIntact ReaderIsSound PreparedRingsAreMapped
PROPERTIES FramesAreHandled
CHECK_DEADLOCK FALSE
