------------------------------- MODULE Sha256 -------------------------------
(***************************************************************************)
(* SHA-256 (crypto/sha256.c) as a function of a message: the padding and   *)
(* the compression.  How a context gets there call by call is the module   *)
(* Sha256Stream.                                                           *)
(***************************************************************************)
EXTENDS Octets

BLOCK_SIZE == 64

(***************************************************************************)
(* 32 bit constants, written as pairs of halves.                           *)
(***************************************************************************)
WordsOf(halves) ==
    [i \in 1 .. Len(halves) \div 2 |->
        <<halves[2 * i - 1] \div 256, halves[2 * i - 1] % 256,
          halves[2 * i] \div 256, halves[2 * i] % 256>>]

K == WordsOf(
    <<\h428a, \h2f98, \h7137, \h4491, \hb5c0, \hfbcf, \he9b5, \hdba5, \h3956, \hc25b, \h59f1, \h11f1,
      \h923f, \h82a4, \hab1c, \h5ed5, \hd807, \haa98, \h1283, \h5b01, \h2431, \h85be, \h550c, \h7dc3,
      \h72be, \h5d74, \h80de, \hb1fe, \h9bdc, \h06a7, \hc19b, \hf174, \he49b, \h69c1, \hefbe, \h4786,
      \h0fc1, \h9dc6, \h240c, \ha1cc, \h2de9, \h2c6f, \h4a74, \h84aa, \h5cb0, \ha9dc, \h76f9, \h88da,
      \h983e, \h5152, \ha831, \hc66d, \hb003, \h27c8, \hbf59, \h7fc7, \hc6e0, \h0bf3, \hd5a7, \h9147,
      \h06ca, \h6351, \h1429, \h2967, \h27b7, \h0a85, \h2e1b, \h2138, \h4d2c, \h6dfc, \h5338, \h0d13,
      \h650a, \h7354, \h766a, \h0abb, \h81c2, \hc92e, \h9272, \h2c85, \ha2bf, \he8a1, \ha81a, \h664b,
      \hc24b, \h8b70, \hc76c, \h51a3, \hd192, \he819, \hd699, \h0624, \hf40e, \h3585, \h106a, \ha070,
      \h19a4, \hc116, \h1e37, \h6c08, \h2748, \h774c, \h34b0, \hbcb5, \h391c, \h0cb3, \h4ed8, \haa4a,
      \h5b9c, \hca4f, \h682e, \h6ff3, \h748f, \h82ee, \h78a5, \h636f, \h84c8, \h7814, \h8cc7, \h0208,
      \h90be, \hfffa, \ha450, \h6ceb, \hbef9, \ha3f7, \hc671, \h78f2>>)

InitialState == WordsOf(
    <<\h6A09, \hE667, \hBB67, \hAE85, \h3C6E, \hF372, \hA54F, \hF53A,
      \h510E, \h527F, \h9B05, \h688C, \h1F83, \hD9AB, \h5BE0, \hCD19>>)

(***************************************************************************)
(* z where x is 0 and y where it is 1; the majority of the three.          *)
(***************************************************************************)
Ch(x, y, z)  == z (+) (x (.) (y (+) z))
Maj(x, y, z) == (x (.) y) (+) (x (.) z) (+) (y (.) z)

Sigma0(x) == RotateRight(x, 2)  (+) RotateRight(x, 13) (+) RotateRight(x, 22)
Sigma1(x) == RotateRight(x, 6)  (+) RotateRight(x, 11) (+) RotateRight(x, 25)
Gamma0Rotated(x) ==                       \* mutant: the last one rotated too
    RotateRight(x, 7) (+) RotateRight(x, 18) (+) RotateRight(x, 3)

Gamma0(x) == RotateRight(x, 7)  (+) RotateRight(x, 18) (+) ShiftRight(x, 3)
Gamma1(x) == RotateRight(x, 17) (+) RotateRight(x, 19) (+) ShiftRight(x, 10)

(***************************************************************************)
(* The loops are recursive functions of the variables they change.         *)
(***************************************************************************)
Words == Seq(Seq(Octet))

(***************************************************************************)
(* W[0..63]: the words of the block, and those computed from them.         *)
(***************************************************************************)
Scheduled[W \in Words] ==
    IF Len(W) = 64 THEN W
    ELSE Scheduled[Append(W, SumOf(<<Gamma1(W[Len(W) - 1]), W[Len(W) - 6],
                                     Gamma0(W[Len(W) - 14]), W[Len(W) - 15]>>))]

Schedule(block) == Scheduled[[i \in 1 .. 16 |-> WordAt(block, 4 * (i - 1))]]

(***************************************************************************)
(* Sha256Round and the shift of the eight words behind it.                 *)
(***************************************************************************)
Shifted(s, t0, t1) ==
    <<SumOf(<<t0, t1>>), s[1], s[2], s[3], SumOf(<<s[4], t0>>), s[5], s[6], s[7]>>

Sha256Round(s, k, w) ==
    Shifted(s, SumOf(<<s[8], Sigma1(s[5]), Ch(s[5], s[6], s[7]), k, w>>),
               SumOf(<<Sigma0(s[1]), Maj(s[1], s[2], s[3])>>))

(***************************************************************************)
(* The rounds from the i-th on.                                            *)
(***************************************************************************)
Rounds[i \in 1 .. 65, W \in Words, s \in Words] ==
    IF i = 65 THEN s ELSE Rounds[i + 1, W, Sha256Round(s, K[i], W[i])]

Added(state, S) == [i \in 1 .. 8 |-> SumOf(<<state[i], S[i]>>)]

TransformFunction(state, block) == Added(state, Rounds[1, Schedule(block), state])

(***************************************************************************)
(* STORE64H.                                                               *)
(***************************************************************************)
LengthBytes(length) ==
    LET rest[i \in 1 .. 8] == IF i = 8 THEN length ELSE rest[i + 1] \div 256
    IN  [i \in 1 .. 8 |-> rest[i] % 256]

(***************************************************************************)
(* A message as it is hashed: behind it the '1' bit, zeros up to the last  *)
(* eight bytes of a block, and its length in bits.                         *)
(***************************************************************************)
Padded(message) ==
    message \o <<128>> \o Zeroes((BLOCK_SIZE - 9 - Len(message)) % BLOCK_SIZE)
            \o LengthBytes(8 * Len(message))

Updated[state \in Words, bytes \in Seq(Octet)] ==
    IF bytes = <<>> THEN state
    ELSE Updated[TransformFunction(state, SubSeq(bytes, 1, BLOCK_SIZE)),
                 SubSeq(bytes, BLOCK_SIZE + 1, Len(bytes))]

Digest(state) == [i \in 1 .. 32 |-> state[((i - 1) \div 4) + 1][((i - 1) % 4) + 1]]

Sha256Calculate(message) == Digest(Updated[InitialState, Padded(message)])
=============================================================================
