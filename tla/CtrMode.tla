------------------------------- MODULE CtrMode -------------------------------
(***************************************************************************)
(* Counter mode (AES_CTR_xcrypt_buffer in crypto/aes.c) in two contexts    *)
(* with the same key and vector: one encrypts, the other decrypts, both by *)
(* the same function, in calls of any number of bytes.                     *)
(*                                                                         *)
(* A byte of the keystream is a pair: the counter enciphered and the       *)
(* position in that block.  What a byte is enciphered with decides all; so *)
(* the bytes themselves are left out, and of the two buffers only what was *)
(* applied to them is kept.                                                *)
(***************************************************************************)
EXTENDS Integers, Sequences, FiniteSets

CONSTANTS
    AES_BLOCKLEN,
    Radix,         \* values of a byte of the counter
    Vectors,       \* initialisation vectors
    CallSizes,     \* how many bytes a call may be given
    MaxBytes       \* bound of the model: bytes of the message on each side

Counter == [0 .. AES_BLOCKLEN - 1 -> 0 .. Radix - 1]

ASSUME CtrAssumption ==
    /\ AES_BLOCKLEN \in Nat \ {0} /\ Radix \in Nat \ {0, 1}
    /\ Vectors \subseteq Counter
    /\ CallSizes \subseteq Nat \ {0} /\ MaxBytes \in Nat

Sides == {"encrypt", "decrypt"}

VARIABLES
    Iv,         \* of each side's context: the next counter
    left,       \* bytes still to do in each side's running call
    bi,         \* local variables of the running call
    buffer,
    keystream,  \* what was applied to the bytes of the message so far
    calls       \* the lengths of the calls so far

ctrVars == <<Iv, left, bi, buffer, keystream, calls>>

CtrInit ==
    /\ \E iv \in Vectors : Iv = [s \in Sides |-> iv] /\ buffer = [s \in Sides |-> iv]
    /\ left = [s \in Sides |-> 0]
    /\ bi = [s \in Sides |-> AES_BLOCKLEN]
    /\ keystream = [s \in Sides |-> <<>>]
    /\ calls = [s \in Sides |-> <<>>]

(***************************************************************************)
(* The counter plus one: the bytes from the last one on that are 255 wrap  *)
(* around, the first that is not is incremented.  Mutant: no carry.        *)
(***************************************************************************)
IncrementedNoCarry(iv) ==
    [iv EXCEPT ![AES_BLOCKLEN - 1] = (iv[AES_BLOCKLEN - 1] + 1) % Radix]

Incremented(iv) ==
    LET wraps(i) == \A j \in i + 1 .. AES_BLOCKLEN - 1 : iv[j] = Radix - 1
    IN  [i \in DOMAIN iv |-> IF wraps(i) THEN (iv[i] + 1) % Radix ELSE iv[i]]

(***************************************************************************)
(* A call begins with a block of keystream of its own.                     *)
(***************************************************************************)
Call(s, n) ==
    /\ left[s] = 0 /\ Len(keystream[s]) + n <= MaxBytes
    /\ left' = [left EXCEPT ![s] = n]
    /\ bi' = [bi EXCEPT ![s] = AES_BLOCKLEN]
    /\ calls' = [calls EXCEPT ![s] = Append(@, n)]
    /\ UNCHANGED <<Iv, buffer, keystream>>

Apply(s, counter, position) ==
    /\ keystream' = [keystream EXCEPT ![s] = Append(@, <<counter, position>>)]
    /\ bi' = [bi EXCEPT ![s] = position + 1]
    /\ left' = [left EXCEPT ![s] = @ - 1]
    /\ UNCHANGED calls

NextBlock(s) ==
    /\ left[s] > 0 /\ bi[s] = AES_BLOCKLEN
    /\ buffer' = [buffer EXCEPT ![s] = Iv[s]]
    /\ Iv' = [Iv EXCEPT ![s] = Incremented(@)]
    /\ Apply(s, Iv[s], 0)

(***************************************************************************)
(* Mutant: one turn too many, which takes a counter if the call ended with *)
(* its block.                                                              *)
(***************************************************************************)
SameBlockOneTurnMore(s) ==
    /\ left[s] > 0 /\ bi[s] # AES_BLOCKLEN
    /\ Apply(s, buffer[s], bi[s])
    /\ Iv' = IF left[s] = 1 /\ bi[s] = AES_BLOCKLEN - 1
             THEN [Iv EXCEPT ![s] = Incremented(@)] ELSE Iv
    /\ UNCHANGED buffer

SameBlock(s) ==
    /\ left[s] > 0 /\ bi[s] # AES_BLOCKLEN
    /\ Apply(s, buffer[s], bi[s])
    /\ UNCHANGED <<Iv, buffer>>

Full == (\A s \in Sides : left[s] = 0 /\ Len(keystream[s]) = MaxBytes) /\ UNCHANGED ctrVars

CtrNext ==
    \/ \E s \in Sides : (\E n \in CallSizes : Call(s, n)) \/ NextBlock(s) \/ SameBlock(s)
    \/ Full

CtrSpec == CtrInit /\ [][CtrNext]_ctrVars

-----------------------------------------------------------------------------

BlocksUsed(s) == Cardinality({i \in 1 .. Len(keystream[s]) : keystream[s][i][2] = 0})

(***************************************************************************)
(* No byte of the keystream is used twice, within a call or over calls,    *)
(* until every value of the counter was used; whatever value it started    *)
(* from, so that it may wrap around on the way.                            *)
(***************************************************************************)
KeystreamUsedOnce ==
    \A s \in Sides :
       BlocksUsed(s) <= Cardinality(Counter) =>
          \A i, j \in 1 .. Len(keystream[s]) :
             i # j => keystream[s][i] # keystream[s][j]

(***************************************************************************)
(* All calls of a side but its last were given whole blocks.               *)
(***************************************************************************)
WholeBlocks(s) ==
    \A c \in 1 .. Len(calls[s]) - 1 : calls[s][c] % AES_BLOCKLEN = 0

(***************************************************************************)
(* "Same function for encrypting as for decrypting": what one side         *)
(* encrypts the other decrypts, if both split the message at whole blocks  *)
(* or at the same places.  (Elsewhere they differ: the rest of a block of  *)
(* keystream is dropped at the end of a call.)                             *)
(***************************************************************************)
DecryptsWhatWasEncrypted ==
    (\/ \A s \in Sides : WholeBlocks(s)
     \/ \A c \in 1 .. Len(calls["decrypt"]) :
           c <= Len(calls["encrypt"]) /\ calls["decrypt"][c] = calls["encrypt"][c]) =>
       \A i \in 1 .. Len(keystream["encrypt"]) :
          i <= Len(keystream["decrypt"]) => keystream["encrypt"][i] = keystream["decrypt"][i]
=============================================================================
