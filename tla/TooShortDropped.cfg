\* The empty frame against "Packet is too short".
SPECIFICATION Spec
CONSTANTS
    Radix = 4
    MAX_FRAME_SIZE = 7
    StartByte = 2
    companion_command_definitions <- SmallTable
    Chunks <- AnyChunk
    MaxStream = 4
INVARIANT
    TooShortDropped
