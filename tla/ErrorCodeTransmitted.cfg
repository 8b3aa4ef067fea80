\* The error code the callback sets, against what an ERR frame carries.
SPECIFICATION FairServerSpec
CONSTANTS
    Radix = 256
    MAX_FRAME_SIZE = 172
    StartByte = 60
    companion_command_definitions <- CommandDefinitions
    Chunks <- Disputed
    MaxStream = 12
    MaxFailures = 1
INVARIANT
    ErrorCodeTransmitted
