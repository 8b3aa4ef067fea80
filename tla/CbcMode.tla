------------------------------- MODULE CbcMode -------------------------------
(***************************************************************************)
(* Cipher block chaining (AES_CBC_encrypt_buffer, AES_CBC_decrypt_buffer   *)
(* in crypto/aes.c) between two contexts with the same key: one encrypts a *)
(* message in calls of any number of blocks, the other decrypts what has   *)
(* arrived, in calls of any number of blocks.  Each context keeps the last *)
(* block of ciphertext for its next call.                                  *)
(*                                                                         *)
(* A call of the encryption hands its blocks over when it returns.  Blocks *)
(* and the cipher are parameters; a length that is not a multiple of the   *)
(* block's is excluded by aes.h.                                           *)
(***************************************************************************)
EXTENDS Naturals, Sequences

CONSTANTS
    Block,
    Xor(_, _),              \* XorWithIv
    Cipher(_), InvCipher(_),
    MaxBlocks,              \* bound of the model: blocks of a message
    MaxMessages             \* bound of the model: initialisation vectors set

ASSUME CipherAssumption ==
    /\ \A a, b \in Block : Xor(a, b) \in Block /\ Xor(Xor(a, b), b) = a
    /\ \A a \in Block : Cipher(a) \in Block /\ InvCipher(Cipher(a)) = a

ASSUME CbcBounds == MaxBlocks \in Nat /\ MaxMessages \in Nat

VARIABLES
    messages,     \* how often an initialisation vector was set
    encIv,        \* ctx->Iv of the context that encrypts
    encLocal,     \* Iv, the pointer of the running call: what it points to
    encLeft,      \* blocks the running call has still to encrypt
    encBuf,       \* blocks it has encrypted
    decIv,        \* ctx->Iv of the context that decrypts
    decLeft,      \* blocks the running call has still to decrypt
    wire,         \* blocks of ciphertext not yet decrypted
    plain,        \* the message so far
    decrypted

encVars == <<encIv, encLocal, encLeft, encBuf>>

decVars == <<decIv, decLeft>>

cbcVars == <<messages, encIv, encLocal, encLeft, encBuf, decIv, decLeft, wire, plain,
             decrypted>>

CbcInit ==
    /\ messages = 0
    /\ encIv \in Block /\ decIv \in Block          \* not initialised
    /\ encLocal = encIv /\ encLeft = 0 /\ encBuf = <<>> /\ decLeft = 0
    /\ wire = <<>> /\ plain = <<>> /\ decrypted = <<>>

Idle == encLeft = 0 /\ encBuf = <<>> /\ decLeft = 0

(***************************************************************************)
(* AES_init_ctx_iv or AES_ctx_set_iv on both sides, between two messages.  *)
(***************************************************************************)
SetIv(iv) ==
    /\ Idle /\ wire = <<>> /\ messages < MaxMessages
    /\ messages' = messages + 1
    /\ encIv' = iv /\ decIv' = iv
    /\ plain' = <<>> /\ decrypted' = <<>>
    /\ UNCHANGED <<encLocal, encLeft, encBuf, decLeft, wire>>

Encrypt(n) ==
    /\ messages > 0
    /\ encLeft = 0 /\ encBuf = <<>> /\ Len(plain) + n <= MaxBlocks
    /\ encLeft' = n /\ encLocal' = encIv
    /\ UNCHANGED <<messages, encIv, encBuf, decVars, wire, plain, decrypted>>

EncryptBlock(block) ==
    /\ encLeft > 0
    /\ encLocal' = Cipher(Xor(block, encLocal))
    /\ encBuf' = Append(encBuf, encLocal')
    /\ encLeft' = encLeft - 1
    /\ plain' = Append(plain, block)
    /\ UNCHANGED <<messages, encIv, decVars, wire, decrypted>>

(***************************************************************************)
(* Mutant: the context keeps the vector it was called with.                *)
(***************************************************************************)
EncryptReturnsIvKept ==
    /\ encLeft = 0 /\ encBuf # <<>>
    /\ wire' = wire \o encBuf /\ encBuf' = <<>>
    /\ UNCHANGED <<messages, encIv, encLocal, encLeft, decVars, plain, decrypted>>

(***************************************************************************)
(* A call that was given blocks returns.                                   *)
(***************************************************************************)
EncryptReturns ==
    /\ encLeft = 0 /\ encBuf # <<>>
    /\ encIv' = encLocal
    /\ wire' = wire \o encBuf /\ encBuf' = <<>>
    /\ UNCHANGED <<messages, encLocal, encLeft, decVars, plain, decrypted>>

Decrypt(n) ==
    /\ decLeft = 0 /\ n <= Len(wire)
    /\ decLeft' = n
    /\ UNCHANGED <<messages, encVars, decIv, wire, plain, decrypted>>

DecryptBlock ==
    /\ decLeft > 0
    /\ decrypted' = Append(decrypted, Xor(InvCipher(Head(wire)), decIv))
    /\ decIv' = Head(wire)
    /\ wire' = Tail(wire)
    /\ decLeft' = decLeft - 1
    /\ UNCHANGED <<messages, encVars, plain>>

Done == Idle /\ wire = <<>> /\ messages = MaxMessages /\ UNCHANGED cbcVars

CbcNext ==
    \/ \E iv \in Block : SetIv(iv)
    \/ \E n \in 1 .. MaxBlocks : Encrypt(n) \/ Decrypt(n)
    \/ \E block \in Block : EncryptBlock(block)
    \/ EncryptReturns \/ DecryptBlock \/ Done

CbcSpec == CbcInit /\ [][CbcNext]_cbcVars

-----------------------------------------------------------------------------

(***************************************************************************)
(* What is decrypted is the beginning of the message, wherever the calls   *)
(* on the two sides begin and end, and all of it when nothing is on its    *)
(* way; and then the two contexts agree on the vector for the next call.   *)
(***************************************************************************)
DecryptedIsPlaintext ==
    /\ Len(decrypted) <= Len(plain)
    /\ decrypted = SubSeq(plain, 1, Len(decrypted))
    /\ (messages > 0 /\ Idle /\ wire = <<>>) => decrypted = plain /\ encIv = decIv
=============================================================================
