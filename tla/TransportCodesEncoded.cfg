\* The transport code of a message against the packet encoded for it.
SPECIFICATION Spec
CONSTANTS
    MAX_PATH_SIZE = 64
    MAX_PAYLOAD_SIZE = 184
    MAX_TRANS_UNIT = 255
    PUB_KEY_SIZE = 32
    SIGNATURE_SIZE = 64
    MAX_NAME_SIZE = 32
    CIPHER_MAC_SIZE = 2
    Inputs <- Packets
    hmac_sha256 <- Mac
    AES_ECB_decrypt <- Plain
INVARIANT
    TransportCodesEncoded
