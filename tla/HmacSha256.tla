----------------------------- MODULE HmacSha256 -----------------------------
(***************************************************************************)
(* The keyed hash (crypto/hmac_sha256.c).  Each hash of it is one          *)
(* Sha256Initialise, one Sha256Update and one Sha256Finalise, of a buffer  *)
(* that holds both parts; that its malloc succeeds is assumed.             *)
(***************************************************************************)
EXTENDS Sha256

SHA256_HASH_SIZE == 32

(***************************************************************************)
(* `k': the key, or its hash when it is longer than a block, and zeros.    *)
(***************************************************************************)
KeyBlock(key) ==
    LET k == IF Len(key) > BLOCK_SIZE THEN Sha256Calculate(key) ELSE key
    IN  k \o Zeroes(BLOCK_SIZE - Len(k))

KeyPad(key, byte) == [i \in 1 .. BLOCK_SIZE |-> byte] (+) KeyBlock(key)

(***************************************************************************)
(* H(K XOR opad, H(K XOR ipad, data)), cut to outlen bytes.                *)
(***************************************************************************)
HmacSha256(key, data, outlen) ==
    LET ihash == Sha256Calculate(KeyPad(key, \h36) \o data)
        ohash == Sha256Calculate(KeyPad(key, \h5c) \o ihash)
        sz    == IF outlen > SHA256_HASH_SIZE THEN SHA256_HASH_SIZE ELSE outlen
    IN  SubSeq(ohash, 1, sz)
=============================================================================
