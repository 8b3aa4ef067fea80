\* Frames one after another with a fault in one of them, read in two ways.
SPECIFICATION LossySpec
CONSTANTS
    Radix = 8
    MAX_FRAME_SIZE = 7
    StartByte = 2
    companion_command_definitions <- Table
    Chunks = {}
    MaxStream = 28
    Frames <- Sent
    MaxFrames = 4
    MaxFaults = 1
    ReadSizes = {1, 5}
INVARIANTS
    LossCostsTwoFrames
    FaultCostsOneWindow
    OneFalseFramePerFault
    NoStaleArguments
    TextsTerminated
