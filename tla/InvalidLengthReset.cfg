\* The header that wraps around 16 bits against "Invalid packet length, reset".
SPECIFICATION FairSpec
CONSTANTS
    Radix = 4
    MAX_FRAME_SIZE = 7
    StartByte = 2
    companion_command_definitions <- SmallTable
    Chunks <- AnyChunk
    MaxStream = 4
PROPERTY
    InvalidLengthReset
