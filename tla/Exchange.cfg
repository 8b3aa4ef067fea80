\* Two packets in a row, whole or cut off, through the same buffer.
SPECIFICATION Spec
CONSTANTS
    MAX_PATH_SIZE = 64
    MAX_PAYLOAD_SIZE = 184
    MAX_TRANS_UNIT = 255
    PUB_KEY_SIZE = 32
    SIGNATURE_SIZE = 64
    MAX_NAME_SIZE = 32
    CIPHER_MAC_SIZE = 2
    Contents <- Mixed
    Losses <- LostBytes
    MaxPackets = 2
INVARIANTS
    DecodedAsSent
    CutOnlyShortens
    WholePacketsFit
