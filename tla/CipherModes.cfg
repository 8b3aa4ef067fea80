\* Messages of three blocks and of six bytes, split over calls in every way.
SPECIFICATION ModesSpec
CONSTANTS
    Block <- TwoBits
    Xor <- XorBits
    Cipher <- Permuted
    InvCipher <- Original
    MaxBlocks = 3
    MaxMessages = 2
    AES_BLOCKLEN = 2
    Radix = 3
    Vectors <- AllVectors
    CallSizes = {1, 2, 3, 4}
    MaxBytes = 6
INVARIANTS
    DecryptedIsPlaintext
    KeystreamUsedOnce
    DecryptsWhatWasEncrypted
