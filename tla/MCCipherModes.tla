---------------------------- MODULE MCCipherModes ----------------------------
(***************************************************************************)
(* Chaining: blocks of two bits and a permutation of them.  Counter mode:  *)
(* counters of two bytes of three values, every one of them to start from, *)
(* so that every carry happens.                                            *)
(***************************************************************************)
EXTENDS CipherModes

TwoBits == 0 .. 3

XorBits(a, b) == ((a + b) % 2) + 2 * (((a \div 2) + (b \div 2)) % 2)

Permutation == <<2, 0, 3, 1>>

Permuted(a) == Permutation[a + 1]

Original(a) == CHOOSE b \in TwoBits : Permuted(b) = a

AllVectors == [0 .. 1 -> 0 .. 2]
=============================================================================
