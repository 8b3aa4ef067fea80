\* Every stream of up to eight bytes, split over calls in every way.
SPECIFICATION FairSpec
CONSTANTS
    Radix = 4
    MAX_FRAME_SIZE = 7
    StartByte = 2
    companion_command_definitions <- SmallTable
    Chunks <- AnyChunk
    MaxStream = 8
INVARIANTS
    TypeOK
    BufferHoldsTail
    CallsCutFromStream
    NothingHeldBack
PROPERTIES
    CallsMakeProgress
    ImplementsFraming
    CallReturns
