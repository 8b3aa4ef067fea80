\* GET_STATS and SEND_RAW_DATA as described, against the command table.
SPECIFICATION FairServerSpec
CONSTANTS
    Radix = 256
    MAX_FRAME_SIZE = 172
    StartByte = 60
    companion_command_definitions <- CommandDefinitions
    Chunks <- Disputed
    MaxStream = 12
    MaxFailures = 1
INVARIANT
    DescribedCommandsAccepted
