\* The commands the callback tells apart, two to four reads in a row.
SPECIFICATION FairServerSpec
CONSTANTS
    Radix = 256
    MAX_FRAME_SIZE = 172
    StartByte = 60
    companion_command_definitions <- CommandDefinitions
    Chunks <- Requests
    MaxStream = 30
    MaxFailures = 1
INVARIANTS
    ServerTypeOK
    FramesWellFormed
    
    FieldsReadWereReceived
PROPERTY
    CallbackReturns
    
