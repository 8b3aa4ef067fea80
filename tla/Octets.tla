------------------------------- MODULE Octets -------------------------------
(***************************************************************************)
(* Arithmetic of bytes and of runs of bytes, for the hash and the cipher.  *)
(* A word is a sequence of bytes, the most significant one first.          *)
(***************************************************************************)
EXTENDS Integers, Sequences

Octet == 0 .. 255

Zeroes(n) == [i \in 1 .. n |-> 0]

(***************************************************************************)
(* The operators of C on numbers of n bits, and on bytes as tables.        *)
(***************************************************************************)
xor[n \in Nat, x \in Nat, y \in Nat] ==
    IF n = 0 THEN 0 ELSE 2 * xor[n - 1, x \div 2, y \div 2] + ((x + y) % 2)

and[n \in Nat, x \in Nat, y \in Nat] ==
    IF n = 0 THEN 0 ELSE 2 * and[n - 1, x \div 2, y \div 2] + (x % 2) * (y % 2)

XorOctets == [x \in Octet |-> [y \in Octet |-> xor[8, x, y]]]
AndOctets == [x \in Octet |-> [y \in Octet |-> and[8, x, y]]]

(***************************************************************************)
(* The same on runs of equal length.  (SubSeq has TLC compute the result   *)
(* once, not whenever a byte of it is looked at.)                          *)
(***************************************************************************)
Xor(a, b) == SubSeq([i \in 1 .. Len(a) |-> XorOctets[a[i]][b[i]]], 1, Len(a))
And(a, b) == SubSeq([i \in 1 .. Len(a) |-> AndOctets[a[i]][b[i]]], 1, Len(a))

a (+) b == Xor(a, b)
a (.) b == And(a, b)

(***************************************************************************)
(* The sum of 32 bit words, modulo 2^32: the numbers the bytes at each     *)
(* place add up to, and the carry.                                         *)
(***************************************************************************)
sums[words \in Seq(Seq(Octet)), i \in 1 .. 4] ==
    IF words = <<>> THEN 0 ELSE Head(words)[i] + sums[Tail(words), i]

carried[words \in Seq(Seq(Octet)), i \in 1 .. 5] ==
    IF i = 5 THEN 0 ELSE sums[words, i] + (carried[words, i + 1] \div 256)

SumOf(words) == SubSeq([i \in 1 .. 4 |-> carried[words, i] % 256], 1, 4)

(***************************************************************************)
(* A 32 bit word shifted to the right by n bits, filled up with the last   *)
(* bytes of `left'; with the word itself in their place it is rotated.     *)
(***************************************************************************)
ShiftedIn(left, w, n) ==
    LET bytes == left \o w
        at(i) == bytes[4 + i - (n \div 8)]
    IN  [i \in 1 .. 4 |-> (at(i) \div 2 ^ (n % 8)) + ((at(i - 1) * 2 ^ (8 - (n % 8))) % 256)]

RotateRight(w, n) == ShiftedIn(w, w, n)
ShiftRight(w, n)  == ShiftedIn(Zeroes(4), w, n)

(***************************************************************************)
(* The word of four bytes behind the first n of a run.                     *)
(***************************************************************************)
WordAt(bytes, n) == SubSeq(bytes, n + 1, n + 4)
=============================================================================
