-------------------------- MODULE CipherModesProofs --------------------------
(***************************************************************************)
(* Theorems about the modes of the block cipher.  Chaining: for every      *)
(* block type, cipher that has an inverse, and number of blocks, calls and *)
(* messages.  Counter mode: for every size of block, values of a byte,     *)
(* initialisation vector and number of calls and bytes.                    *)
(***************************************************************************)
EXTENDS CipherModes, SequenceTheorems, FiniteSetTheorems, WellFoundedInduction, TLAPS

(***************************************************************************)
(* The variables of CbcMode hold values of their types.                    *)
(***************************************************************************)
CbcTypeOK ==
    /\ messages \in Nat /\ encLeft \in Nat /\ decLeft \in 0 .. Len(wire)
    /\ encIv \in Block /\ encLocal \in Block /\ decIv \in Block
    /\ encBuf \in Seq(Block) /\ wire \in Seq(Block)
    /\ plain \in Seq(Block) /\ decrypted \in Seq(Block)

(***************************************************************************)
(* The blocks encrypted and not yet decrypted; and the block that the i-th *)
(* of some blocks is chained to, the first of them to iv.                  *)
(***************************************************************************)
Pending == wire \o encBuf

ChainedTo(iv, blocks, i) == IF i = 1 THEN iv ELSE blocks[i - 1]

RunningIv == IF encLeft = 0 /\ encBuf = <<>> THEN encIv ELSE encLocal

(***************************************************************************)
(* The message is what was decrypted and, behind it, what is pending, each *)
(* block chained to the one before it.                                     *)
(***************************************************************************)
Chained ==
    /\ Len(plain) = Len(decrypted) + Len(Pending)
    /\ \A i \in 1 .. Len(decrypted) : decrypted[i] = plain[i]
    /\ \A i \in 1 .. Len(Pending) :
          Pending[i] = Cipher(Xor(plain[Len(decrypted) + i], ChainedTo(decIv, Pending, i)))
    /\ messages > 0 => RunningIv = ChainedTo(decIv, Pending, Len(Pending) + 1)
    /\ messages = 0 => Pending = <<>> /\ encLeft = 0

CbcInv == CbcTypeOK /\ Chained

(***************************************************************************)
(* What is pending is what is on the wire and, behind it, what the running *)
(* call has encrypted.                                                     *)
(***************************************************************************)
LEMMA PendingFacts ==
    ASSUME NEW w \in Seq(Block), NEW e \in Seq(Block)
    PROVE  /\ w \o e \in Seq(Block)
           /\ Len(w) \in Nat /\ Len(e) \in Nat
           /\ Len(w \o e) = Len(w) + Len(e)
           /\ \A i \in 1 .. Len(w) : (w \o e)[i] = w[i] /\ w[i] \in Block
           /\ \A i \in 1 .. Len(e) : (w \o e)[Len(w) + i] = e[i] /\ e[i] \in Block
           /\ w = <<>> <=> Len(w) = 0
           /\ e = <<>> <=> Len(e) = 0
<1>1. Len(w) \in Nat /\ Len(e) \in Nat
  BY LenProperties
<1>2. w = <<>> <=> Len(w) = 0
  BY EmptySeq
<1>3. e = <<>> <=> Len(e) = 0
  BY EmptySeq
<1>4. /\ w \o e \in Seq(Block) /\ Len(w \o e) = Len(w) + Len(e)
      /\ \A i \in 1 .. Len(w) + Len(e) :
            (w \o e)[i] = IF i <= Len(w) THEN w[i] ELSE e[i - Len(w)]
  BY ConcatProperties
<1>5. ASSUME NEW i \in 1 .. Len(w) PROVE (w \o e)[i] = w[i] /\ w[i] \in Block
  BY <1>1, <1>4, ElementOfSeq
<1>6. ASSUME NEW i \in 1 .. Len(e) PROVE (w \o e)[Len(w) + i] = e[i] /\ e[i] \in Block
  <2>1. Len(w) + i \in 1 .. Len(w) + Len(e) /\ ~(Len(w) + i <= Len(w))
        /\ (Len(w) + i) - Len(w) = i
    BY <1>1
  <2> QED
    BY <1>4, <2>1, ElementOfSeq
<1> QED
  BY <1>1, <1>2, <1>3, <1>4, <1>5, <1>6

(***************************************************************************)
(* A block that was chained and enciphered is deciphered to itself.        *)
(***************************************************************************)
LEMMA BlockDecrypted ==
    ASSUME NEW block \in Block, NEW iv \in Block
    PROVE  /\ Cipher(Xor(block, iv)) \in Block
           /\ Xor(InvCipher(Cipher(Xor(block, iv))), iv) = block
  BY CipherAssumption

(***************************************************************************)
(* The call encrypts a block: one more is pending, chained to the last.    *)
(***************************************************************************)
LEMMA EncryptBlockChains ==
    ASSUME CbcInv, NEW block \in Block, EncryptBlock(block)
    PROVE  CbcInv'
<1> DEFINE b == Cipher(Xor(block, encLocal))
<1>1. /\ b \in Block /\ encLocal' = b /\ encBuf' = Append(encBuf, b)
      /\ plain' = Append(plain, block) /\ encLeft' = encLeft - 1 /\ encLeft > 0
      /\ UNCHANGED <<messages, encIv, decIv, decLeft, wire, decrypted>>
  BY BlockDecrypted DEF CbcInv, CbcTypeOK, EncryptBlock, decVars
<1> HIDE DEF b
<1>2. /\ encBuf' \in Seq(Block) /\ Len(encBuf') = Len(encBuf) + 1
      /\ encBuf'[Len(encBuf) + 1] = b
      /\ \A i \in 1 .. Len(encBuf) : encBuf'[i] = encBuf[i]
  BY <1>1, AppendProperties, LenProperties DEF CbcInv, CbcTypeOK
<1>3. /\ plain' \in Seq(Block) /\ Len(plain') = Len(plain) + 1
      /\ plain'[Len(plain) + 1] = block
      /\ \A i \in 1 .. Len(plain) : plain'[i] = plain[i]
  BY <1>1, AppendProperties, LenProperties DEF CbcInv, CbcTypeOK
<1>4. CbcTypeOK'
  BY <1>1, <1>2, <1>3 DEF CbcInv, CbcTypeOK
<1>5. /\ Pending \in Seq(Block) /\ Len(Pending) \in Nat
      /\ Len(Pending') = Len(Pending) + 1 /\ Pending'[Len(Pending) + 1] = b
      /\ \A i \in 1 .. Len(Pending) : Pending'[i] = Pending[i]
  <2>1. /\ Pending \in Seq(Block) /\ Pending' \in Seq(Block)
        /\ Len(wire) \in Nat /\ Len(encBuf) \in Nat
        /\ Len(Pending) = Len(wire) + Len(encBuf)
        /\ Len(Pending') = Len(wire) + Len(encBuf')
        /\ \A i \in 1 .. Len(wire) : Pending'[i] = wire[i] /\ Pending[i] = wire[i]
        /\ \A i \in 1 .. Len(encBuf) : Pending[Len(wire) + i] = encBuf[i]
        /\ \A i \in 1 .. Len(encBuf') : Pending'[Len(wire) + i] = encBuf'[i]
    BY <1>1, <1>4, PendingFacts DEF CbcInv, CbcTypeOK, Pending
  <2>2. ASSUME NEW i \in 1 .. Len(Pending) PROVE Pending'[i] = Pending[i]
    <3>1. CASE i <= Len(wire)
      BY <2>1, <3>1
    <3>2. CASE i > Len(wire)
      <4>1. i - Len(wire) \in 1 .. Len(encBuf) /\ Len(wire) + (i - Len(wire)) = i
        BY <2>1, <3>2
      <4>2. i - Len(wire) \in 1 .. Len(encBuf')
        BY <1>2, <2>1, <4>1
      <4> QED
        BY <1>2, <2>1, <4>1, <4>2, ZenonT(30)
    <3> QED
      BY <2>1, <3>1, <3>2
  <2>3. Pending'[Len(Pending) + 1] = b
    <3>1. Len(encBuf) + 1 \in 1 .. Len(encBuf')
          /\ Len(Pending) + 1 = Len(wire) + (Len(encBuf) + 1)
      BY <1>2, <2>1
    <3> QED
      BY <1>2, <2>1, <3>1
  <2> QED
    BY <1>2, <2>1, <2>2, <2>3
<1>6. messages > 0 /\ messages' > 0
  BY <1>1 DEF CbcInv, CbcTypeOK, Chained
<1>7. /\ RunningIv = encLocal /\ RunningIv' = b
      /\ encLocal = ChainedTo(decIv, Pending, Len(Pending) + 1)
  <2>1. encBuf' # <<>>
    BY <1>2, EmptySeq, LenProperties DEF CbcInv, CbcTypeOK
  <2> QED
    BY <1>1, <1>6, <2>1 DEF CbcInv, Chained, RunningIv
<1>8. Len(plain') = Len(decrypted') + Len(Pending')
  BY <1>1, <1>3, <1>5, LenProperties DEF CbcInv, CbcTypeOK, Chained
<1>9. /\ Len(decrypted) \in Nat /\ Len(plain) \in Nat
      /\ Len(plain) = Len(decrypted) + Len(Pending)
  BY LenProperties DEF CbcInv, CbcTypeOK, Chained
<1>10. \A i \in 1 .. Len(decrypted') : decrypted'[i] = plain'[i]
  BY <1>1, <1>3, <1>5, <1>9 DEF CbcInv, Chained
<1>11. ASSUME NEW i \in 1 .. Len(Pending) + 1
       PROVE  ChainedTo(decIv', Pending', i) = ChainedTo(decIv, Pending, i)
  BY <1>1, <1>5, SMTT(30) DEF ChainedTo
<1>12. ASSUME NEW i \in 1 .. Len(Pending')
       PROVE  Pending'[i] =
                 Cipher(Xor(plain'[Len(decrypted') + i], ChainedTo(decIv', Pending', i)))
  <2>1. CASE i <= Len(Pending)
    <3>1. Len(decrypted) + i \in 1 .. Len(plain)
      BY <1>5, <1>9, <2>1
    <3>2. Pending[i] = Cipher(Xor(plain[Len(decrypted) + i], ChainedTo(decIv, Pending, i)))
      BY <1>5, <2>1 DEF CbcInv, Chained
    <3>3. /\ ChainedTo(decIv', Pending', i) = ChainedTo(decIv, Pending, i)
          /\ plain'[Len(decrypted) + i] = plain[Len(decrypted) + i]
          /\ Len(decrypted') = Len(decrypted) /\ Pending'[i] = Pending[i]
      BY <1>1, <1>3, <1>5, <1>11, <2>1, <3>1
    <3> QED
      BY ONLY <3>2, <3>3
  <2>2. CASE i = Len(Pending) + 1
    <3>1. Len(decrypted) + i = Len(plain) + 1
      BY <1>5, <1>9, <2>2
    <3> QED
      BY <1>1, <1>3, <1>5, <1>7, <1>11, <2>2, <3>1 DEF b
  <2> QED
    BY <1>5, <2>1, <2>2
<1>13. RunningIv' = ChainedTo(decIv', Pending', Len(Pending) + 2)
  <2>1. Len(Pending) + 2 # 1 /\ (Len(Pending) + 2) - 1 = Len(Pending) + 1
    BY <1>5
  <2> QED
    BY <1>5, <1>7, <2>1 DEF ChainedTo
<1>14. Len(Pending') + 1 = Len(Pending) + 2 /\ messages' # 0
  BY <1>1, <1>5, <1>6 DEF CbcInv, CbcTypeOK
<1>15. Chained'
  BY <1>8, <1>10, <1>12, <1>13, <1>14 DEF Chained
<1> QED
  BY <1>4, <1>15 DEF CbcInv

(***************************************************************************)
(* A block is decrypted: it comes out as it went in, and the next one is   *)
(* chained to it.                                                          *)
(***************************************************************************)
LEMMA DecryptBlockUnchains ==
    ASSUME CbcInv, DecryptBlock
    PROVE  CbcInv'
<1> DEFINE b == Head(wire)
           d == Xor(InvCipher(b), decIv)
<1>1. /\ decIv' = b /\ wire' = Tail(wire) /\ decrypted' = Append(decrypted, d)
      /\ decLeft' = decLeft - 1 /\ decLeft > 0
      /\ UNCHANGED <<messages, encIv, encLocal, encLeft, encBuf, plain>>
  BY DEF DecryptBlock, encVars
<1>2. /\ Len(wire) \in Nat \ {0} /\ b = wire[1] /\ wire' \in Seq(Block)
      /\ Len(wire') = Len(wire) - 1 /\ \A i \in 1 .. Len(wire') : wire'[i] = wire[i + 1]
  <2>1. Len(wire) \in Nat \ {0} /\ wire # <<>>
    BY <1>1, LenProperties, EmptySeq DEF CbcInv, CbcTypeOK
  <2>2. b = wire[1]
    BY <2>1 DEF CbcInv, CbcTypeOK
  <2> QED
    BY <1>1, <2>1, <2>2, HeadTailProperties DEF CbcInv, CbcTypeOK
<1>3. /\ Pending \in Seq(Block) /\ Len(Pending) \in Nat \ {0} /\ Pending[1] = b
      /\ b \in Block /\ Len(Pending') = Len(Pending) - 1
      /\ \A i \in 1 .. Len(Pending') : Pending'[i] = Pending[i + 1]
  <2>1. /\ Pending \in Seq(Block) /\ Len(encBuf) \in Nat
        /\ Len(Pending) = Len(wire) + Len(encBuf)
        /\ \A i \in 1 .. Len(wire) : Pending[i] = wire[i] /\ wire[i] \in Block
        /\ \A i \in 1 .. Len(encBuf) : Pending[Len(wire) + i] = encBuf[i]
    BY PendingFacts DEF CbcInv, CbcTypeOK, Pending
  <2>2. /\ Len(Pending') = Len(wire') + Len(encBuf)
        /\ \A i \in 1 .. Len(wire') : Pending'[i] = wire'[i]
        /\ \A i \in 1 .. Len(encBuf) : Pending'[Len(wire') + i] = encBuf[i]
    BY <1>1, <1>2, PendingFacts DEF CbcInv, CbcTypeOK, Pending
  <2>3. ASSUME NEW i \in 1 .. Len(Pending') PROVE Pending'[i] = Pending[i + 1]
    <3>1. CASE i <= Len(wire')
      <4>1. i \in 1 .. Len(wire') /\ i + 1 \in 1 .. Len(wire)
        BY <1>2, <2>2, <3>1
      <4> QED
        BY <1>2, <2>1, <2>2, <4>1
    <3>2. CASE i > Len(wire')
      <4>1. /\ i - Len(wire') \in 1 .. Len(encBuf) /\ Len(wire') + (i - Len(wire')) = i
            /\ Len(wire) + (i - Len(wire')) = i + 1
        BY <1>2, <2>1, <2>2, <3>2
      <4>2. Pending'[Len(wire') + (i - Len(wire'))] = encBuf[i - Len(wire')]
        BY <2>2, <4>1
      <4>3. Pending[Len(wire) + (i - Len(wire'))] = encBuf[i - Len(wire')]
        BY <2>1, <4>1
      <4> QED
        BY <4>1, <4>2, <4>3
    <3> QED
      BY <1>2, <2>1, <2>2, <3>1, <3>2
  <2> QED
    BY <1>2, <2>1, <2>2, <2>3
<1>4. /\ Len(decrypted) \in Nat /\ Len(plain) \in Nat
      /\ Len(plain) = Len(decrypted) + Len(Pending)
      /\ plain[Len(decrypted) + 1] \in Block
  <2>1. /\ Len(decrypted) \in Nat /\ Len(plain) \in Nat
        /\ Len(plain) = Len(decrypted) + Len(Pending)
    BY LenProperties DEF CbcInv, CbcTypeOK, Chained
  <2>2. Len(decrypted) + 1 \in 1 .. Len(plain)
    BY <1>3, <2>1
  <2> QED
    BY <2>1, <2>2, ElementOfSeq DEF CbcInv, CbcTypeOK
<1>5. d = plain[Len(decrypted) + 1] /\ d \in Block
  <2>1. 1 \in 1 .. Len(Pending) /\ ChainedTo(decIv, Pending, 1) = decIv
    BY <1>3 DEF ChainedTo
  <2>2. b = Cipher(Xor(plain[Len(decrypted) + 1], decIv))
    BY <1>3, <2>1 DEF CbcInv, Chained
  <2> QED
    BY <1>4, <2>2, BlockDecrypted DEF CbcInv, CbcTypeOK
<1> HIDE DEF b, d
<1>6. /\ decrypted' \in Seq(Block) /\ Len(decrypted') = Len(decrypted) + 1
      /\ decrypted'[Len(decrypted) + 1] = d
      /\ \A i \in 1 .. Len(decrypted) : decrypted'[i] = decrypted[i]
  BY <1>1, <1>5, AppendProperties, LenProperties DEF CbcInv, CbcTypeOK
<1>7. CbcTypeOK'
  BY <1>1, <1>2, <1>3, <1>6 DEF CbcInv, CbcTypeOK
<1>8. Len(plain') = Len(decrypted') + Len(Pending')
  BY <1>1, <1>3, <1>4, <1>6
<1>9. \A i \in 1 .. Len(decrypted') : decrypted'[i] = plain'[i]
  BY <1>1, <1>4, <1>5, <1>6 DEF CbcInv, Chained
<1>10. ASSUME NEW i \in 1 .. Len(Pending)
       PROVE  ChainedTo(decIv', Pending', i) = ChainedTo(decIv, Pending, i + 1)
  <2>1. CASE i = 1
    BY <1>1, <1>3, <2>1 DEF ChainedTo
  <2>2. CASE i # 1
    <3>1. i - 1 \in 1 .. Len(Pending') /\ (i - 1) + 1 = i /\ (i + 1) - 1 = i /\ i + 1 # 1
      BY <1>3, <2>2
    <3> QED
      BY <1>3, <2>2, <3>1 DEF ChainedTo
  <2> QED
    BY <2>1, <2>2
<1>11. ASSUME NEW i \in 1 .. Len(Pending')
       PROVE  Pending'[i] =
                 Cipher(Xor(plain'[Len(decrypted') + i], ChainedTo(decIv', Pending', i)))
  <2>1. i + 1 \in 1 .. Len(Pending) /\ i \in 1 .. Len(Pending)
    BY <1>3
  <2>2. Pending[i + 1] =
           Cipher(Xor(plain[Len(decrypted) + (i + 1)], ChainedTo(decIv, Pending, i + 1)))
    BY <2>1 DEF CbcInv, Chained
  <2>3. Len(decrypted') + i = Len(decrypted) + (i + 1) /\ plain' = plain
    BY <1>1, <1>4, <1>6
  <2>4. /\ Pending'[i] = Pending[i + 1]
        /\ ChainedTo(decIv', Pending', i) = ChainedTo(decIv, Pending, i + 1)
    BY <1>3, <1>10, <2>1
  <2> QED
    BY ONLY <2>2, <2>3, <2>4
<1>12. messages > 0 /\ messages' # 0
  BY <1>1, <1>3, EmptySeq DEF CbcInv, CbcTypeOK, Chained
<1>13. RunningIv' = ChainedTo(decIv', Pending', Len(Pending') + 1)
  <2>1. RunningIv' = RunningIv
    BY <1>1 DEF RunningIv
  <2>2. Len(Pending') + 1 = Len(Pending) /\ Len(Pending) \in 1 .. Len(Pending)
    BY <1>3
  <2> QED
    BY <1>10, <1>12, <2>1, <2>2 DEF CbcInv, Chained
<1>14. Chained'
  BY <1>8, <1>9, <1>11, <1>12, <1>13 DEF Chained
<1> QED
  BY <1>7, <1>14 DEF CbcInv

(***************************************************************************)
(* Every other step leaves what is pending, and what it is chained to, as  *)
(* it was, or begins a message.                                            *)
(***************************************************************************)
LEMMA CbcStep ==
    ASSUME CbcInv, [CbcNext]_cbcVars
    PROVE  CbcInv'
<1>1. ASSUME NEW iv \in Block, SetIv(iv) PROVE CbcInv'
  <2>1. /\ messages' = messages + 1 /\ encIv' = iv /\ decIv' = iv
        /\ plain' = <<>> /\ decrypted' = <<>> /\ wire = <<>> /\ encBuf = <<>> /\ encLeft = 0
        /\ UNCHANGED <<encLocal, encLeft, encBuf, decLeft, wire>>
    BY <1>1 DEF SetIv, Idle
  <2>2. CbcTypeOK'
    BY <2>1, EmptySeq DEF CbcInv, CbcTypeOK
  <2>3. Pending' = <<>> /\ Len(Pending') = 0 /\ Len(plain') = 0 /\ Len(decrypted') = 0
    BY <2>1, ConcatEmptySeq, EmptySeq DEF Pending
  <2>4. RunningIv' = ChainedTo(decIv', Pending', Len(Pending') + 1)
    BY <2>1, <2>3 DEF RunningIv, ChainedTo
  <2>5. Chained'
    BY <2>1, <2>3, <2>4 DEF Chained, CbcInv, CbcTypeOK
  <2> QED
    BY <2>2, <2>5 DEF CbcInv
<1>2. ASSUME Pending' = Pending, RunningIv' = RunningIv, encLeft' = 0 \/ messages # 0,
             UNCHANGED <<messages, decIv, plain, decrypted>>, CbcTypeOK'
      PROVE  CbcInv'
  BY <1>2 DEF CbcInv, Chained
<1>3. ASSUME NEW n \in 1 .. MaxBlocks, Encrypt(n) PROVE CbcInv'
  <2>1. CbcTypeOK' /\ UNCHANGED <<messages, decIv, plain, decrypted>>
    BY <1>3, CbcBounds DEF CbcInv, CbcTypeOK, Encrypt, decVars
  <2>2. Pending' = Pending /\ RunningIv' = RunningIv /\ messages # 0
    BY <1>3, CbcBounds DEF CbcInv, CbcTypeOK, Encrypt, Pending, RunningIv
  <2> QED
    BY <1>2, <2>1, <2>2
<1>4. ASSUME NEW n \in 1 .. MaxBlocks, Decrypt(n) PROVE CbcInv'
  <2>1. CbcTypeOK' /\ UNCHANGED <<messages, decIv, plain, decrypted>>
    BY <1>4, CbcBounds, LenProperties DEF CbcInv, CbcTypeOK, Decrypt, encVars
  <2>2. Pending' = Pending /\ RunningIv' = RunningIv /\ (encLeft' = 0 \/ messages # 0)
    BY <1>4 DEF CbcInv, CbcTypeOK, Chained, Decrypt, encVars, Pending, RunningIv
  <2> QED
    BY <1>2, <2>1, <2>2
<1>5. ASSUME EncryptReturns PROVE CbcInv'
  <2>1. /\ encLeft = 0 /\ encBuf # <<>> /\ encIv' = encLocal
        /\ wire' = wire \o encBuf /\ encBuf' = <<>>
        /\ UNCHANGED <<messages, encLocal, encLeft, decIv, decLeft, plain, decrypted>>
    BY <1>5 DEF EncryptReturns, decVars
  <2>2. /\ wire' \in Seq(Block) /\ Len(wire') \in Nat /\ Len(wire') >= Len(wire)
        /\ Len(wire) \in Nat
    BY <2>1, PendingFacts DEF CbcInv, CbcTypeOK
  <2>3. CbcTypeOK'
    BY <2>1, <2>2, EmptySeq DEF CbcInv, CbcTypeOK
  <2>4. Pending' = Pending /\ RunningIv' = RunningIv
    BY <2>1, <2>2, ConcatEmptySeq DEF Pending, RunningIv
  <2> QED
    BY <1>2, <2>1, <2>3, <2>4
<1>6. CASE UNCHANGED cbcVars
  BY <1>6 DEF cbcVars, CbcInv, CbcTypeOK, Chained, Pending, RunningIv
<1> QED
  BY <1>1, <1>3, <1>4, <1>5, <1>6, EncryptBlockChains, DecryptBlockUnchains
     DEF CbcNext, Done

(***************************************************************************)
(* The invariant says what DecryptedIsPlaintext says.                      *)
(***************************************************************************)
LEMMA CbcInvSuffices == CbcInv => DecryptedIsPlaintext
<1> SUFFICES ASSUME CbcInv PROVE DecryptedIsPlaintext
  OBVIOUS
<1>1. /\ decrypted \in Seq(Block) /\ plain \in Seq(Block) /\ Pending \in Seq(Block)
      /\ Len(decrypted) \in Nat /\ Len(plain) \in Nat /\ Len(Pending) \in Nat
      /\ Len(plain) = Len(decrypted) + Len(Pending)
      /\ \A i \in 1 .. Len(decrypted) : decrypted[i] = plain[i]
  BY LenProperties, PendingFacts DEF CbcInv, CbcTypeOK, Chained, Pending
<1>2. decrypted = SubSeq(plain, 1, Len(decrypted))
  <2>1. \A i \in 1 .. Len(decrypted) : plain[i] \in Block
    BY <1>1, ElementOfSeq
  <2>2. /\ SubSeq(plain, 1, Len(decrypted)) \in Seq(Block)
        /\ Len(SubSeq(plain, 1, Len(decrypted))) = Len(decrypted)
        /\ \A i \in 1 .. Len(decrypted) : SubSeq(plain, 1, Len(decrypted))[i] = plain[i]
    BY <1>1, <2>1, SubSeqProperties
  <2> QED
    BY <1>1, <2>2, SeqEqual
<1>3. ASSUME messages > 0, Idle, wire = <<>>
      PROVE  decrypted = plain /\ encIv = decIv
  <2>1. Pending = <<>> /\ Len(Pending) = 0
    BY <1>3, ConcatEmptySeq, EmptySeq DEF Idle, Pending
  <2>2. decrypted = plain
    BY <1>1, <2>1, SeqEqual
  <2>3. encIv = decIv
    BY <1>3, <2>1 DEF CbcInv, Chained, RunningIv, ChainedTo, Idle
  <2> QED
    BY <2>2, <2>3
<1> QED
  BY <1>1, <1>2, <1>3 DEF DecryptedIsPlaintext

(***************************************************************************)
(* Before the first message nothing is pending.                            *)
(***************************************************************************)
LEMMA CbcInitially == CbcInit => CbcInv
<1> SUFFICES ASSUME CbcInit PROVE CbcInv
  OBVIOUS
<1>1. /\ messages = 0 /\ encIv \in Block /\ decIv \in Block /\ encLocal = encIv
      /\ encLeft = 0 /\ decLeft = 0 /\ encBuf = <<>>
      /\ wire = <<>> /\ plain = <<>> /\ decrypted = <<>>
  BY DEF CbcInit
<1>2. Len(<<>>) = 0 /\ <<>> \in Seq(Block) /\ Pending = <<>>
  BY <1>1, EmptySeq, ConcatEmptySeq DEF Pending
<1> QED
  BY <1>1, <1>2 DEF CbcInv, CbcTypeOK, Chained

(***************************************************************************)
(* However the two sides split a message into calls, AES_CBC_decrypt_buffer*)
(* gives back what AES_CBC_encrypt_buffer was given.                       *)
(***************************************************************************)
THEOREM ChainingRoundTrip == CbcSpec => []DecryptedIsPlaintext
<1>1. CbcSpec => []CbcInv
  BY CbcInitially, CbcStep, PTL DEF CbcSpec
<1> QED
  BY <1>1, CbcInvSuffices, PTL

(***************************************************************************)
(* The same while the other mode may be chosen instead.                    *)
(***************************************************************************)
THEOREM ModesChainingRoundTrip == ModesSpec => []DecryptedIsPlaintext
<1>1. ModesInit => CbcInv
  BY CbcInitially DEF ModesInit
<1>2. CbcInv /\ [ModesNext]_modesVars => CbcInv'
  <2>1. [ModesNext]_modesVars => [CbcNext]_cbcVars
    BY DEF ModesNext, modesVars
  <2> QED
    BY <2>1, CbcStep
<1> QED
  BY <1>1, <1>2, CbcInvSuffices, PTL DEF ModesSpec

-----------------------------------------------------------------------------

(***************************************************************************)
(* The bytes of the keystream.                                             *)
(***************************************************************************)
KeyByte == Counter \X (0 .. AES_BLOCKLEN - 1)

CtrTypeOK ==
    /\ Iv \in [Sides -> Counter] /\ buffer \in [Sides -> Counter]
    /\ left \in [Sides -> Nat] /\ bi \in [Sides -> 1 .. AES_BLOCKLEN]
    /\ keystream \in [Sides -> Seq(KeyByte)]
    /\ calls \in [Sides -> Seq(Nat \ {0})]

(***************************************************************************)
(* What follows is about one side: its keystream ks, what is left of its   *)
(* running call, its variables bi, buffer and Iv, and its calls cs, of     *)
(* which the c-th begins behind the byte st[c]; the last element of st is  *)
(* where the next one would.                                               *)
(***************************************************************************)
StartsOfCalls(cs, st) ==
    /\ st \in Seq(Nat) /\ Len(st) = Len(cs) + 1 /\ st[1] = 0
    /\ \A c \in 1 .. Len(cs) : st[c + 1] = st[c] + cs[c]
    /\ \A c, d \in 1 .. Len(cs) + 1 : c < d => st[c] < st[d]

Begins(cs, st, i) == \E c \in 1 .. Len(cs) : st[c] = i - 1

(***************************************************************************)
(* The i-th byte of the keystream, by the one before it: a new block at    *)
(* the beginning of a call and behind a full block.                        *)
(***************************************************************************)
FollowingKey(ks, begins, i) ==
    IF begins \/ ks[i - 1][2] = AES_BLOCKLEN - 1
    THEN <<Incremented(ks[i - 1][1]), 0>>
    ELSE <<ks[i - 1][1], ks[i - 1][2] + 1>>

KeyAt(ks, begins, iv, i) == IF i = 1 THEN <<iv, 0>> ELSE FollowingKey(ks, begins, i)

KeysFollow(ks, cs, st, iv) ==
    \A i \in 1 .. Len(ks) : ks[i] = KeyAt(ks, Begins(cs, st, i), iv, i)

(***************************************************************************)
(* Where the running call is: done bytes behind its beginning, and bi      *)
(* bytes into a block.                                                     *)
(***************************************************************************)
InBlock(done, b) == \E q \in Nat : done + AES_BLOCKLEN = AES_BLOCKLEN * q + b

CallRuns(ks, lf, b, cs, st) ==
    /\ Len(ks) + lf = st[Len(cs) + 1]
    /\ cs # <<>> =>
          /\ lf <= cs[Len(cs)]
          /\ InBlock(cs[Len(cs)] - lf, b)
          /\ IF Len(ks) = st[Len(cs)] THEN b = AES_BLOCKLEN ELSE b = ks[Len(ks)][2] + 1

(***************************************************************************)
(* The counter for the next block.                                         *)
(***************************************************************************)
CounterReady(ks, bf, nx, iv) ==
    IF ks = <<>> THEN nx = iv
    ELSE nx = Incremented(ks[Len(ks)][1]) /\ bf = ks[Len(ks)][1]

(***************************************************************************)
(* A call that was given whole blocks ends at the end of a block.          *)
(***************************************************************************)
WholeCallsEndBlocks(ks, cs, st) ==
    \A c \in 1 .. Len(cs) :
       cs[c] % AES_BLOCKLEN = 0 /\ st[c + 1] <= Len(ks) =>
          ks[st[c + 1]][2] = AES_BLOCKLEN - 1

Side(ks, lf, b, bf, nx, cs, st, iv) ==
    /\ StartsOfCalls(cs, st)
    /\ KeysFollow(ks, cs, st, iv)
    /\ CallRuns(ks, lf, b, cs, st)
    /\ CounterReady(ks, bf, nx, iv)
    /\ WholeCallsEndBlocks(ks, cs, st)

SideInv(s, st, iv) ==
    Side(keystream[s], left[s], bi[s], buffer[s], Iv[s], calls[s], st, iv)

CtrInv ==
    /\ CtrTypeOK
    /\ \E iv \in Counter, st \in [Sides -> Seq(Nat)] : \A s \in Sides : SideInv(s, st[s], iv)

(***************************************************************************)
(* Multiples of the block size.                                            *)
(***************************************************************************)
LEMMA OneBlock ==
    ASSUME NEW n \in Nat \ {0}, NEW m \in Int, n * m \in 1 .. n
    PROVE  m = 1
<1>1. ASSUME m >= 2 PROVE FALSE
  <2>1. PICK j \in Nat : m = 2 + j
    <3>1. m - 2 \in Nat /\ m = 2 + (m - 2)
      BY <1>1
    <3> QED
      BY <3>1
  <2>2. n * m = 2 * n + n * j /\ n * j \in Nat
    BY <2>1
  <2> QED
    BY <2>2
<1>2. ASSUME m <= 0 PROVE FALSE
  <2>1. PICK j \in Nat : m = -j
    <3>1. -m \in Nat /\ m = -(-m)
      BY <1>2
    <3> QED
      BY <3>1
  <2>2. n * m = -(n * j) /\ n * j \in Nat
    BY <2>1
  <2> QED
    BY <2>2
<1> QED
  BY <1>1, <1>2

(***************************************************************************)
(* A number without a remainder is a multiple.                             *)
(***************************************************************************)
LEMMA Multiple ==
    ASSUME NEW n \in Nat, NEW b \in Nat \ {0}, n % b = 0
    PROVE  \E k \in Int : n = b * k
  OBVIOUS

(***************************************************************************)
(* A call that has done a number of whole blocks stands at the end of      *)
(* one.                                                                    *)
(***************************************************************************)
LEMMA WholeBlocksDone ==
    ASSUME NEW n \in Nat, n % AES_BLOCKLEN = 0, NEW b \in 1 .. AES_BLOCKLEN, InBlock(n, b)
    PROVE  b = AES_BLOCKLEN
<1>1. AES_BLOCKLEN \in Nat \ {0}
  BY CtrAssumption
<1>2. PICK q \in Nat : n + AES_BLOCKLEN = AES_BLOCKLEN * q + b
  BY DEF InBlock
<1>3. PICK k \in Int : n = AES_BLOCKLEN * k
  BY <1>1, Multiple
<1>4. AES_BLOCKLEN * (k + 1 - q) = b /\ k + 1 - q \in Int
  BY <1>1, <1>2, <1>3
<1>5. k + 1 - q = 1
  BY <1>1, <1>4, OneBlock
<1>6. AES_BLOCKLEN * 1 = AES_BLOCKLEN
  BY <1>1
<1> QED
  BY <1>4, <1>5, <1>6

(***************************************************************************)
(* One byte more, in the same block or as the first of the next.           *)
(***************************************************************************)
LEMMA OneMoreInBlock ==
    ASSUME NEW done \in Int, NEW b \in 1 .. AES_BLOCKLEN, InBlock(done, b)
    PROVE  InBlock(done + 1, IF b = AES_BLOCKLEN THEN 1 ELSE b + 1)
<1>1. AES_BLOCKLEN \in Nat \ {0}
  BY CtrAssumption
<1>2. PICK q \in Nat : done + AES_BLOCKLEN = AES_BLOCKLEN * q + b
  BY DEF InBlock
<1>3. /\ AES_BLOCKLEN * q \in Nat /\ q + 1 \in Nat
      /\ AES_BLOCKLEN * (q + 1) = AES_BLOCKLEN * q + AES_BLOCKLEN
  BY <1>1
<1>4. CASE b = AES_BLOCKLEN
  <2>1. done + 1 + AES_BLOCKLEN = AES_BLOCKLEN * (q + 1) + 1
    BY <1>1, <1>2, <1>3, <1>4
  <2> QED
    BY <1>3, <1>4, <2>1 DEF InBlock
<1>5. CASE b # AES_BLOCKLEN
  <2>1. done + 1 + AES_BLOCKLEN = AES_BLOCKLEN * q + (b + 1)
    BY <1>1, <1>2, <1>3
  <2> QED
    BY <1>5, <2>1 DEF InBlock
<1> QED
  BY <1>4, <1>5

(***************************************************************************)
(* The carry, and the wrap of the whole, lead to a counter again.          *)
(***************************************************************************)
LEMMA CounterIncremented ==
    ASSUME NEW iv \in Counter
    PROVE  Incremented(iv) \in Counter
<1>1. AES_BLOCKLEN \in Nat \ {0} /\ Radix \in Nat \ {0, 1} /\ DOMAIN iv = 0 .. AES_BLOCKLEN - 1
  BY CtrAssumption DEF Counter
<1>2. ASSUME NEW i \in 0 .. AES_BLOCKLEN - 1
      PROVE  iv[i] \in 0 .. Radix - 1 /\ (iv[i] + 1) % Radix \in 0 .. Radix - 1
  <2>1. iv[i] \in 0 .. Radix - 1
    BY DEF Counter
  <2> QED
    BY <1>1, <2>1
<1> QED
  BY <1>1, <1>2 DEF Incremented, Counter

(***************************************************************************)
(* The calls so far begin at a byte of the keystream or at its end.        *)
(***************************************************************************)
LEMMA StartBounds ==
    ASSUME NEW cs \in Seq(Nat \ {0}), NEW st, StartsOfCalls(cs, st)
    PROVE  /\ Len(cs) \in Nat
           /\ \A c \in 1 .. Len(cs) + 1 : st[c] \in Nat /\ st[c] <= st[Len(cs) + 1]
           /\ \A c \in 1 .. Len(cs) : st[c] <= st[Len(cs)] /\ cs[c] \in Nat \ {0}
<1>1. Len(cs) \in Nat
  BY LenProperties
<1>2. ASSUME NEW c \in 1 .. Len(cs) + 1 PROVE st[c] \in Nat
  BY <1>2, ElementOfSeq DEF StartsOfCalls
<1>3. ASSUME NEW c \in 1 .. Len(cs) + 1 PROVE st[c] <= st[Len(cs) + 1]
  <2>1. CASE c = Len(cs) + 1
    BY <1>2, <2>1
  <2>2. CASE c # Len(cs) + 1
    BY <1>1, <1>2, <2>2 DEF StartsOfCalls
  <2> QED
    BY <2>1, <2>2
<1>4. ASSUME NEW c \in 1 .. Len(cs) PROVE st[c] <= st[Len(cs)] /\ cs[c] \in Nat \ {0}
  <2>1. cs[c] \in Nat \ {0}
    BY ElementOfSeq
  <2>2. CASE c = Len(cs)
    BY <1>1, <1>2, <2>1, <2>2
  <2>3. CASE c # Len(cs)
    <3>1. c \in 1 .. Len(cs) + 1 /\ Len(cs) \in 1 .. Len(cs) + 1 /\ c < Len(cs)
      BY <1>1, <2>3
    <3>2. st[c] < st[Len(cs)]
      BY <3>1 DEF StartsOfCalls
    <3> QED
      BY <1>2, <2>1, <3>1, <3>2
  <2> QED
    BY <2>2, <2>3
<1> QED
  BY <1>1, <1>2, <1>3, <1>4

(***************************************************************************)
(* A call begins behind the last byte.                                     *)
(***************************************************************************)
LEMMA CallKeepsSide ==
    ASSUME NEW ks \in Seq(KeyByte), NEW b, NEW bf, NEW nx, NEW cs \in Seq(Nat \ {0}), NEW st,
           NEW iv, NEW n \in Nat \ {0}, Side(ks, 0, b, bf, nx, cs, st, iv)
    PROVE  Side(ks, n, AES_BLOCKLEN, bf, nx, Append(cs, n), Append(st, Len(ks) + n), iv)
<1> DEFINE cs2 == Append(cs, n)
           st2 == Append(st, Len(ks) + n)
<1>1. /\ StartsOfCalls(cs, st) /\ KeysFollow(ks, cs, st, iv)
      /\ CallRuns(ks, 0, b, cs, st) /\ CounterReady(ks, bf, nx, iv)
      /\ WholeCallsEndBlocks(ks, cs, st)
  BY DEF Side
<1>2. Len(ks) \in Nat /\ st \in Seq(Nat) /\ Len(st) = Len(cs) + 1 /\ Len(ks) = st[Len(cs) + 1]
  BY <1>1, LenProperties, StartBounds DEF StartsOfCalls, CallRuns
<1>3. /\ Len(cs) \in Nat
      /\ \A c \in 1 .. Len(cs) + 1 : st[c] \in Nat /\ st[c] <= Len(ks)
  BY <1>1, <1>2, StartBounds
<1>4. /\ cs2 \in Seq(Nat \ {0}) /\ Len(cs2) = Len(cs) + 1 /\ cs2[Len(cs) + 1] = n
      /\ \A c \in 1 .. Len(cs) : cs2[c] = cs[c]
  BY AppendProperties, <1>3
<1>5. /\ st2 \in Seq(Nat) /\ Len(st2) = Len(cs) + 2 /\ st2[Len(cs) + 2] = Len(ks) + n
      /\ \A c \in 1 .. Len(cs) + 1 : st2[c] = st[c]
  <2>1. Len(ks) + n \in Nat /\ Len(st) + 1 = Len(cs) + 2 /\ Len(st) = Len(cs) + 1
    BY <1>2, <1>3
  <2>2. /\ st2 \in Seq(Nat) /\ Len(st2) = Len(st) + 1 /\ st2[Len(st) + 1] = Len(ks) + n
        /\ \A c \in 1 .. Len(st) : st2[c] = st[c]
    BY AppendProperties, <1>2, <2>1
  <2> HIDE DEF st2
  <2> QED
    BY <2>1, <2>2
<1> HIDE DEF cs2, st2
<1>6. StartsOfCalls(cs2, st2)
  <2>1. st2[1] = 0
    BY <1>1, <1>3, <1>5 DEF StartsOfCalls
  <2>2. ASSUME NEW c \in 1 .. Len(cs2) PROVE st2[c + 1] = st2[c] + cs2[c]
    <3>1. CASE c = Len(cs) + 1
      <4>1. c + 1 = Len(cs) + 2 /\ c \in 1 .. Len(cs) + 1
        BY <1>3, <3>1
      <4>2. st2[c + 1] = Len(ks) + n /\ st2[c] = Len(ks) /\ cs2[c] = n
        BY <1>2, <1>4, <1>5, <3>1, <4>1
      <4> QED
        BY <4>2
    <3>2. CASE c # Len(cs) + 1
      <4>1. c \in 1 .. Len(cs) /\ c \in 1 .. Len(cs) + 1 /\ c + 1 \in 1 .. Len(cs) + 1
        BY <1>3, <1>4, <3>2
      <4>2. st[c + 1] = st[c] + cs[c]
        BY <1>1, <4>1 DEF StartsOfCalls
      <4> QED
        BY <1>4, <1>5, <4>1, <4>2
    <3> QED
      BY <3>1, <3>2
  <2>3. ASSUME NEW c \in 1 .. Len(cs2) + 1, NEW d \in 1 .. Len(cs2) + 1, c < d
        PROVE  st2[c] < st2[d]
    <3>1. c \in 1 .. Len(cs) + 1
      BY <1>3, <1>4, <2>3
    <3>2. CASE d = Len(cs) + 2
      BY <1>2, <1>3, <1>5, <3>1, <3>2
    <3>3. CASE d # Len(cs) + 2
      <4>1. d \in 1 .. Len(cs) + 1
        BY <1>3, <1>4, <3>3
      <4>2. st[c] < st[d]
        BY <1>1, <2>3, <3>1, <4>1 DEF StartsOfCalls
      <4> QED
        BY <1>5, <3>1, <4>1, <4>2
    <3> QED
      BY <3>2, <3>3
  <2>4. Len(st2) = Len(cs2) + 1
    BY <1>3, <1>4, <1>5
  <2> QED
    BY <1>5, <2>1, <2>2, <2>3, <2>4 DEF StartsOfCalls
<1>7. KeysFollow(ks, cs2, st2, iv)
  <2>1. ASSUME NEW i \in 1 .. Len(ks) PROVE Begins(cs2, st2, i) <=> Begins(cs, st, i)
    <3>1. \A c \in 1 .. Len(cs) : c \in 1 .. Len(cs2) /\ st2[c] = st[c]
      BY <1>3, <1>4, <1>5
    <3>2. ASSUME NEW c \in 1 .. Len(cs2), st2[c] = i - 1 PROVE c \in 1 .. Len(cs)
      <4>1. c # Len(cs) + 1
        <5>1. Len(cs) + 1 \in 1 .. Len(cs) + 1
          BY <1>3
        <5>2. st2[Len(cs) + 1] = Len(ks)
          BY <1>2, <1>5, <5>1
        <5> QED
          BY <1>2, <3>2, <5>2
      <4> QED
        BY <1>3, <1>4, <4>1
    <3> QED
      BY <3>1, <3>2 DEF Begins
  <2>2. ASSUME NEW i \in 1 .. Len(ks)
        PROVE  ks[i] = KeyAt(ks, Begins(cs2, st2, i), iv, i)
    <3>1. ks[i] = KeyAt(ks, Begins(cs, st, i), iv, i)
      BY <1>1 DEF KeysFollow
    <3> QED
      BY <2>1, <3>1 DEF KeyAt, FollowingKey
  <2> QED
    BY <2>2 DEF KeysFollow
<1>8. CallRuns(ks, n, AES_BLOCKLEN, cs2, st2)
  <2>1. AES_BLOCKLEN \in Nat \ {0}
    BY CtrAssumption
  <2>2. InBlock(0, AES_BLOCKLEN)
    <3>1. 0 + AES_BLOCKLEN = AES_BLOCKLEN * 0 + AES_BLOCKLEN
      BY <2>1
    <3> QED
      BY <3>1 DEF InBlock
  <2>3. st2[Len(cs2) + 1] = Len(ks) + n /\ st2[Len(cs2)] = Len(ks)
    <3>1. Len(cs2) + 1 = Len(cs) + 2 /\ Len(cs) + 1 \in 1 .. Len(cs) + 1
      BY <1>3, <1>4
    <3> QED
      BY <1>2, <1>4, <1>5, <3>1
  <2>4. cs2[Len(cs2)] - n = 0 /\ n <= cs2[Len(cs2)]
    BY <1>4
  <2> QED
    BY <2>2, <2>3, <2>4 DEF CallRuns
<1>9. WholeCallsEndBlocks(ks, cs2, st2)
  <2>1. ASSUME NEW c \in 1 .. Len(cs2), cs2[c] % AES_BLOCKLEN = 0, st2[c + 1] <= Len(ks)
        PROVE  ks[st2[c + 1]][2] = AES_BLOCKLEN - 1
    <3>1. c # Len(cs) + 1
      <4>1. c = Len(cs) + 1 => c + 1 = Len(cs) + 2
        BY <1>3
      <4> QED
        BY <1>2, <1>5, <2>1, <4>1
    <3>2. c \in 1 .. Len(cs) /\ c + 1 \in 1 .. Len(cs) + 1
      BY <1>3, <1>4, <3>1
    <3>3. cs2[c] = cs[c] /\ st2[c + 1] = st[c + 1]
      BY <1>4, <1>5, <3>2
    <3> QED
      BY <1>1, <2>1, <3>2, <3>3 DEF WholeCallsEndBlocks
  <2> QED
    BY <2>1 DEF WholeCallsEndBlocks
<1> QED
  BY <1>1, <1>6, <1>7, <1>8, <1>9 DEF Side, cs2, st2

(***************************************************************************)
(* A byte of the keystream is taken: the first of a new block, or the next *)
(* of the same one.                                                        *)
(***************************************************************************)
NextKey(b, bf, nx) == IF b = AES_BLOCKLEN THEN <<nx, 0>> ELSE <<bf, b>>

(***************************************************************************)
(* The byte taken is the one that follows the last: a new block's first    *)
(* where a call begins or a block is full, or else the next of the same    *)
(* block.                                                                  *)
(***************************************************************************)
LEMMA KeyFollows ==
    ASSUME NEW ks \in Seq(KeyByte), NEW lf \in Nat \ {0}, NEW b \in 1 .. AES_BLOCKLEN,
           NEW bf \in Counter, NEW nx \in Counter, NEW cs \in Seq(Nat \ {0}), NEW st,
           NEW iv, Side(ks, lf, b, bf, nx, cs, st, iv)
    PROVE  NextKey(b, bf, nx) = KeyAt(ks, Begins(cs, st, Len(ks) + 1), iv, Len(ks) + 1)
<1>1. /\ StartsOfCalls(cs, st) /\ CallRuns(ks, lf, b, cs, st) /\ CounterReady(ks, bf, nx, iv)
  BY DEF Side
<1>2. /\ Len(ks) \in Nat /\ Len(cs) \in Nat /\ AES_BLOCKLEN \in Nat \ {0}
      /\ \A c \in 1 .. Len(cs) + 1 : st[c] \in Nat
      /\ \A c \in 1 .. Len(cs) : st[c] <= st[Len(cs)] /\ cs[c] \in Nat
  BY <1>1, StartBounds, LenProperties, CtrAssumption
<1>3. Len(ks) + lf = st[Len(cs) + 1]
  BY <1>1 DEF CallRuns
<1>4. cs # <<>> /\ Len(cs) \in 1 .. Len(cs) /\ Len(cs) \in 1 .. Len(cs) + 1
  <2>1. Len(cs) # 0
    BY <1>1, <1>2, <1>3 DEF StartsOfCalls
  <2> QED
    BY <1>2, <2>1, EmptySeq
<1>5. st[Len(cs)] <= Len(ks)
  <2>1. st[Len(cs) + 1] = st[Len(cs)] + cs[Len(cs)] /\ lf <= cs[Len(cs)]
    BY <1>1, <1>4 DEF StartsOfCalls, CallRuns
  <2> QED
    BY <1>2, <1>3, <1>4, <2>1
<1>6. CASE Len(ks) = 0
  <2>1. st[Len(cs)] = 0
    BY <1>2, <1>4, <1>5, <1>6
  <2>2. b = AES_BLOCKLEN /\ nx = iv
    BY <1>1, <1>4, <1>6, <2>1, EmptySeq DEF CallRuns, CounterReady
  <2> QED
    BY <1>6, <2>2 DEF NextKey, KeyAt
<1>7. CASE Len(ks) # 0
  <2>1. /\ Len(ks) + 1 # 1 /\ (Len(ks) + 1) - 1 = Len(ks) /\ ks # <<>>
        /\ ks[Len(ks)] \in KeyByte
    <3>1. Len(ks) \in 1 .. Len(ks) /\ Len(ks) + 1 # 1 /\ (Len(ks) + 1) - 1 = Len(ks)
      BY <1>2, <1>7
    <3> QED
      BY <1>7, <3>1, EmptySeq, ElementOfSeq
  <2>2. nx = Incremented(ks[Len(ks)][1]) /\ bf = ks[Len(ks)][1]
    BY <1>1, <2>1 DEF CounterReady
  <2>3. Begins(cs, st, Len(ks) + 1) <=> st[Len(cs)] = Len(ks)
    <3>1. ASSUME NEW c \in 1 .. Len(cs), st[c] = Len(ks) PROVE st[Len(cs)] = Len(ks)
      <4>1. c \in 1 .. Len(cs) + 1
        BY <1>2
      <4> QED
        BY <1>2, <1>4, <1>5, <3>1, <4>1
    <3> QED
      BY <1>4, <2>1, <3>1 DEF Begins
  <2>4. KeyAt(ks, Begins(cs, st, Len(ks) + 1), iv, Len(ks) + 1) =
           IF st[Len(cs)] = Len(ks) \/ ks[Len(ks)][2] = AES_BLOCKLEN - 1
           THEN <<nx, 0>> ELSE <<bf, ks[Len(ks)][2] + 1>>
    BY <2>1, <2>2, <2>3 DEF KeyAt, FollowingKey
  <2>5. IF st[Len(cs)] = Len(ks) THEN b = AES_BLOCKLEN ELSE b = ks[Len(ks)][2] + 1
    BY <1>1, <1>4 DEF CallRuns
  <2>6. ks[Len(ks)][2] \in 0 .. AES_BLOCKLEN - 1
    BY <2>1 DEF KeyByte
  <2>7. CASE st[Len(cs)] = Len(ks)
    BY <2>4, <2>5, <2>7 DEF NextKey
  <2>8. CASE st[Len(cs)] # Len(ks)
    <3>1. b = ks[Len(ks)][2] + 1
      BY <2>5, <2>8
    <3>2. b = AES_BLOCKLEN <=> ks[Len(ks)][2] = AES_BLOCKLEN - 1
      BY <1>2, <2>6, <3>1
    <3> QED
      BY <2>4, <2>8, <3>1, <3>2 DEF NextKey
  <2> QED
    BY <2>7, <2>8
<1> QED
  BY <1>6, <1>7

(***************************************************************************)
(* With it, the side is as it should be, one byte further.                 *)
(***************************************************************************)
LEMMA KeyKeepsSide ==
    ASSUME NEW ks \in Seq(KeyByte), NEW lf \in Nat \ {0}, NEW b \in 1 .. AES_BLOCKLEN,
           NEW bf \in Counter, NEW nx \in Counter, NEW cs \in Seq(Nat \ {0}), NEW st,
           NEW iv, NEW key, key = NextKey(b, bf, nx),
           Side(ks, lf, b, bf, nx, cs, st, iv)
    PROVE  Side(Append(ks, key), lf - 1, key[2] + 1, key[1],
                IF b = AES_BLOCKLEN THEN Incremented(nx) ELSE nx, cs, st, iv)
<1> DEFINE ks2 == Append(ks, key)
<1>1. /\ StartsOfCalls(cs, st) /\ KeysFollow(ks, cs, st, iv)
      /\ CallRuns(ks, lf, b, cs, st) /\ CounterReady(ks, bf, nx, iv)
      /\ WholeCallsEndBlocks(ks, cs, st)
  BY DEF Side
<1>2. /\ Len(ks) \in Nat /\ Len(cs) \in Nat /\ AES_BLOCKLEN \in Nat \ {0}
      /\ \A c \in 1 .. Len(cs) + 1 : st[c] \in Nat /\ st[c] <= st[Len(cs) + 1]
      /\ \A c \in 1 .. Len(cs) : st[c] <= st[Len(cs)] /\ cs[c] \in Nat
  BY <1>1, StartBounds, LenProperties, CtrAssumption
<1>3. Len(ks) + lf = st[Len(cs) + 1]
  BY <1>1 DEF CallRuns
<1>4. cs # <<>> /\ Len(cs) \in 1 .. Len(cs) /\ Len(cs) \in 1 .. Len(cs) + 1
  <2>1. Len(cs) # 0
    BY <1>1, <1>2, <1>3 DEF StartsOfCalls
  <2> QED
    BY <1>2, <2>1, EmptySeq
<1>5. /\ st[Len(cs)] <= Len(ks) /\ lf <= cs[Len(cs)]
      /\ st[Len(cs) + 1] = st[Len(cs)] + cs[Len(cs)]
  <2>1. st[Len(cs) + 1] = st[Len(cs)] + cs[Len(cs)] /\ lf <= cs[Len(cs)]
    BY <1>1, <1>4 DEF StartsOfCalls, CallRuns
  <2> QED
    BY <1>2, <1>3, <1>4, <2>1
<1>6. key \in KeyByte /\ key[2] = (IF b = AES_BLOCKLEN THEN 0 ELSE b)
      /\ key[1] = (IF b = AES_BLOCKLEN THEN nx ELSE bf)
  BY <1>2 DEF NextKey, KeyByte
<1>7. /\ ks2 \in Seq(KeyByte) /\ Len(ks2) = Len(ks) + 1 /\ ks2[Len(ks) + 1] = key
      /\ \A i \in 1 .. Len(ks) : ks2[i] = ks[i]
  BY <1>2, <1>6, AppendProperties
<1>8. key = KeyAt(ks, Begins(cs, st, Len(ks) + 1), iv, Len(ks) + 1)
  BY KeyFollows
<1> HIDE DEF ks2
<1>9. KeysFollow(ks2, cs, st, iv)
  <2>1. ASSUME NEW i \in 1 .. Len(ks2), NEW begins
        PROVE  KeyAt(ks2, begins, iv, i) = KeyAt(ks, begins, iv, i)
    <3>1. CASE i = 1
      BY <3>1 DEF KeyAt
    <3>2. CASE i # 1
      <4>1. i - 1 \in 1 .. Len(ks)
        BY <1>2, <1>7, <3>2
      <4> QED
        BY <1>7, <3>2, <4>1 DEF KeyAt, FollowingKey
    <3> QED
      BY <3>1, <3>2
  <2>2. ASSUME NEW i \in 1 .. Len(ks2)
        PROVE  ks2[i] = KeyAt(ks2, Begins(cs, st, i), iv, i)
    <3>1. CASE i = Len(ks) + 1
      BY <1>7, <1>8, <2>1, <3>1
    <3>2. CASE i # Len(ks) + 1
      <4>1. i \in 1 .. Len(ks)
        BY <1>2, <1>7, <3>2
      <4>2. ks[i] = KeyAt(ks, Begins(cs, st, i), iv, i)
        BY <1>1, <4>1 DEF KeysFollow
      <4> QED
        BY <1>7, <2>1, <4>1, <4>2
    <3> QED
      BY <3>1, <3>2
  <2> QED
    BY <2>2 DEF KeysFollow
<1>10. InBlock(cs[Len(cs)] - (lf - 1), key[2] + 1)
  <2>1. InBlock(cs[Len(cs)] - lf, b)
    BY <1>1, <1>4 DEF CallRuns
  <2>2. cs[Len(cs)] - lf \in Int /\ (cs[Len(cs)] - lf) + 1 = cs[Len(cs)] - (lf - 1)
    BY <1>2, <1>4
  <2>3. key[2] + 1 = IF b = AES_BLOCKLEN THEN 1 ELSE b + 1
    BY <1>6
  <2> QED
    BY <2>1, <2>2, <2>3, OneMoreInBlock
<1>11. CallRuns(ks2, lf - 1, key[2] + 1, cs, st)
  <2>1. Len(ks2) + (lf - 1) = st[Len(cs) + 1]
    BY <1>2, <1>3, <1>7
  <2>2. Len(ks2) # st[Len(cs)] /\ key[2] + 1 = ks2[Len(ks2)][2] + 1
    BY <1>2, <1>4, <1>5, <1>7
  <2>3. lf - 1 <= cs[Len(cs)]
    BY <1>2, <1>4, <1>5
  <2> QED
    BY <1>10, <2>1, <2>2, <2>3 DEF CallRuns
<1>12. CounterReady(ks2, key[1], IF b = AES_BLOCKLEN THEN Incremented(nx) ELSE nx, iv)
  <2>1. ks2 # <<>> /\ ks2[Len(ks2)][1] = key[1]
    BY <1>2, <1>7, EmptySeq
  <2>2. CASE b = AES_BLOCKLEN
    BY <1>6, <2>1, <2>2 DEF CounterReady
  <2>3. CASE b # AES_BLOCKLEN
    <3>1. ks # <<>>
      <4>1. Len(ks) # st[Len(cs)]
        BY <1>1, <1>4, <2>3 DEF CallRuns
      <4>2. Len(ks) # 0
        BY <1>2, <1>4, <1>5, <4>1
      <4> QED
        BY <4>2, EmptySeq
    <3>2. nx = Incremented(bf)
      BY <1>1, <3>1 DEF CounterReady
    <3> QED
      BY <1>6, <2>1, <2>3, <3>2 DEF CounterReady
  <2> QED
    BY <2>2, <2>3
<1>13. WholeCallsEndBlocks(ks2, cs, st)
  <2>1. ASSUME NEW c \in 1 .. Len(cs), cs[c] % AES_BLOCKLEN = 0, st[c + 1] <= Len(ks2)
        PROVE  ks2[st[c + 1]][2] = AES_BLOCKLEN - 1
    <3>1. /\ st[c + 1] = st[c] + cs[c] /\ st[c] \in Nat /\ cs[c] \in Nat \ {0}
          /\ c + 1 \in 1 .. Len(cs) + 1
      BY <1>1, <1>2, ElementOfSeq DEF StartsOfCalls
    <3>9. st[c + 1] \in Nat \ {0}
      BY <3>1
    <3>2. CASE st[c + 1] <= Len(ks)
      <4>1. st[c + 1] \in 1 .. Len(ks)
        BY <1>2, <3>9, <3>2
      <4> QED
        BY <1>1, <1>7, <2>1, <3>2, <4>1 DEF WholeCallsEndBlocks
    <3>3. CASE st[c + 1] = Len(ks) + 1
      <4>1. c = Len(cs)
        <5>1. ASSUME c # Len(cs) PROVE FALSE
          <6>1. c + 1 \in 1 .. Len(cs)
            BY <1>2, <5>1
          <6>2. st[c + 1] <= st[Len(cs)]
            BY <1>2, <6>1
          <6> QED
            BY <1>2, <1>4, <1>5, <3>3, <6>2
        <5> QED
          BY <5>1
      <4>2. lf - 1 = 0
        BY <1>2, <1>3, <3>3, <4>1
      <4>3. InBlock(cs[c], key[2] + 1)
        <5>1. cs[Len(cs)] - 0 = cs[c]
          BY <3>1, <4>1
        <5> QED
          BY <1>10, <4>2, <5>1
      <4>4. key[2] + 1 \in 1 .. AES_BLOCKLEN
        BY <1>2, <1>6
      <4>5. key[2] + 1 = AES_BLOCKLEN
        BY <2>1, <3>1, <4>3, <4>4, WholeBlocksDone
      <4>6. key[2] = AES_BLOCKLEN - 1
        BY <1>2, <1>6, <4>5
      <4> QED
        BY <1>7, <3>3, <4>6
    <3> QED
      BY <1>2, <1>7, <2>1, <3>9, <3>2, <3>3
  <2> QED
    BY <2>1 DEF WholeCallsEndBlocks
<1> QED
  BY <1>1, <1>9, <1>11, <1>12, <1>13 DEF Side, ks2

-----------------------------------------------------------------------------

(***************************************************************************)
(* A set of naturals has a least element.  Induction is by the least       *)
(* counterexample.                                                         *)
(***************************************************************************)
LEMMA LeastNatural ==
    ASSUME NEW T, T \subseteq Nat, T # {}
    PROVE  \E x \in T : \A y \in T : x <= y
<1> DEFINE R == OpToRel(<, Nat)
<1>1. IsWellFoundedOn(R, Nat)
  BY NatLessThanWellFounded
<1>2. \A x, y \in Nat : x < y => <<x, y>> \in R
  BY DEF OpToRel
<1> HIDE DEF R
<1>3. PICK x \in T : \A y \in T : ~ (<<y, x>> \in R)
  BY <1>1, WFMin
<1>4. \A y \in T : x \in Nat /\ y \in Nat
  OBVIOUS
<1>5. \A y \in T : ~ (y < x)
  BY <1>2, <1>3, <1>4
<1> QED
  BY <1>4, <1>5

(***************************************************************************)
(* Two keystreams from one counter are the same as far as both go, if they *)
(* begin a block at the same bytes wherever they agreed so far.            *)
(***************************************************************************)
BeginsBlock(ks, cs, st, i) == Begins(cs, st, i) \/ ks[i - 1][2] = AES_BLOCKLEN - 1

(***************************************************************************)
(* Two keystreams that follow the same rule from the same counter agree.   *)
(***************************************************************************)
LEMMA SameKeystream ==
    ASSUME NEW ks1 \in Seq(KeyByte), NEW cs1, NEW st1, NEW ks2 \in Seq(KeyByte), NEW cs2,
           NEW st2, NEW iv,
           KeysFollow(ks1, cs1, st1, iv), KeysFollow(ks2, cs2, st2, iv),
           \A i \in 2 .. Len(ks1) : i <= Len(ks2) /\ ks1[i - 1] = ks2[i - 1] =>
              (BeginsBlock(ks1, cs1, st1, i) <=> BeginsBlock(ks2, cs2, st2, i))
    PROVE  \A i \in 1 .. Len(ks1) : i <= Len(ks2) => ks1[i] = ks2[i]
<1> DEFINE T == {i \in 1 .. Len(ks1) : i <= Len(ks2) /\ ks1[i] # ks2[i]}
<1>1. Len(ks1) \in Nat /\ Len(ks2) \in Nat
  BY LenProperties
<1>2. T = {}
  <2> SUFFICES ASSUME T # {} PROVE FALSE
    OBVIOUS
  <2>1. T \subseteq Nat
    BY <1>1
  <2>2. PICK i \in T : \A j \in T : i <= j
    BY <2>1, LeastNatural
  <2>3. i \in 1 .. Len(ks1) /\ i \in 1 .. Len(ks2) /\ ks1[i] # ks2[i]
    BY <1>1
  <2>4. /\ ks1[i] = KeyAt(ks1, Begins(cs1, st1, i), iv, i)
        /\ ks2[i] = KeyAt(ks2, Begins(cs2, st2, i), iv, i)
    BY <2>3 DEF KeysFollow
  <2>5. CASE i = 1
    BY <2>3, <2>4, <2>5 DEF KeyAt
  <2>6. CASE i # 1
    <3>1. /\ i \in 2 .. Len(ks1) /\ i <= Len(ks2) /\ i - 1 \in 1 .. Len(ks1)
          /\ i - 1 <= Len(ks2) /\ ~ (i <= i - 1)
      BY <1>1, <2>3, <2>6
    <3>2. ks1[i - 1] = ks2[i - 1]
      BY <2>2, <3>1
    <3>3. BeginsBlock(ks1, cs1, st1, i) <=> BeginsBlock(ks2, cs2, st2, i)
      BY <3>1, <3>2
    <3> QED
      BY <2>3, <2>4, <2>6, <3>2, <3>3 DEF KeyAt, FollowingKey, BeginsBlock
  <2> QED
    BY <2>5, <2>6
<1> QED
  BY <1>2

(***************************************************************************)
(* If all calls but the last are of whole blocks, only a full block is     *)
(* followed by a new one.                                                  *)
(***************************************************************************)
LEMMA WholeCallsBegin ==
    ASSUME NEW ks \in Seq(KeyByte), NEW lf \in Nat, NEW b, NEW bf, NEW nx,
           NEW cs \in Seq(Nat \ {0}), NEW st, NEW iv, Side(ks, lf, b, bf, nx, cs, st, iv),
           \A c \in 1 .. Len(cs) - 1 : cs[c] % AES_BLOCKLEN = 0,
           NEW i \in 2 .. Len(ks)
    PROVE  BeginsBlock(ks, cs, st, i) <=> ks[i - 1][2] = AES_BLOCKLEN - 1
<1>1. StartsOfCalls(cs, st) /\ WholeCallsEndBlocks(ks, cs, st)
  BY DEF Side
<1>2. Len(ks) \in Nat /\ Len(cs) \in Nat
  BY LenProperties
<1>3. ASSUME NEW c \in 1 .. Len(cs), st[c] = i - 1
      PROVE  ks[i - 1][2] = AES_BLOCKLEN - 1
  <2>1. c # 1
    BY <1>1, <1>2, <1>3 DEF StartsOfCalls
  <2>2. /\ c - 1 \in 1 .. Len(cs) /\ c - 1 \in 1 .. Len(cs) - 1 /\ (c - 1) + 1 = c
        /\ i - 1 <= Len(ks)
    BY <1>2, <2>1
  <2>3. cs[c - 1] % AES_BLOCKLEN = 0 /\ st[(c - 1) + 1] = i - 1
    BY <1>3, <2>2
  <2> QED
    BY <1>1, <2>2, <2>3 DEF WholeCallsEndBlocks
<1> QED
  BY <1>3 DEF BeginsBlock, Begins

(***************************************************************************)
(* Calls of the same lengths begin at the same bytes.                      *)
(***************************************************************************)
BeginAlike(cs1, cs2) == \A c \in 1 .. Len(cs1) : c <= Len(cs2) /\ cs1[c] = cs2[c]

(***************************************************************************)
(* By induction over the calls.                                            *)
(***************************************************************************)
LEMMA SameStarts ==
    ASSUME NEW cs1 \in Seq(Nat \ {0}), NEW st1, NEW cs2 \in Seq(Nat \ {0}), NEW st2,
           StartsOfCalls(cs1, st1), StartsOfCalls(cs2, st2),
           BeginAlike(cs1, cs2)
    PROVE  \A c \in 1 .. Len(cs1) + 1 : st1[c] = st2[c]
<1> DEFINE T == {c \in 1 .. Len(cs1) + 1 : st1[c] # st2[c]}
<1>1. Len(cs1) \in Nat /\ Len(cs2) \in Nat
  BY LenProperties
<1>2. T = {}
  <2> SUFFICES ASSUME T # {} PROVE FALSE
    OBVIOUS
  <2>1. T \subseteq Nat
    BY <1>1
  <2>2. PICK c \in T : \A d \in T : c <= d
    BY <2>1, LeastNatural
  <2>3. c # 1
    BY DEF StartsOfCalls
  <2>4. /\ c - 1 \in 1 .. Len(cs1) /\ c - 1 \in 1 .. Len(cs1) + 1 /\ (c - 1) + 1 = c
        /\ ~ (c <= c - 1)
    BY <1>1, <2>3
  <2>5. st1[c - 1] = st2[c - 1]
    BY <2>2, <2>4
  <2>6. c - 1 \in 1 .. Len(cs2) /\ cs1[c - 1] = cs2[c - 1]
    <3>1. c - 1 <= Len(cs2) /\ cs1[c - 1] = cs2[c - 1]
      BY <2>4 DEF BeginAlike
    <3> QED
      BY <1>1, <2>4, <3>1
  <2>7. /\ st1[(c - 1) + 1] = st1[c - 1] + cs1[c - 1]
        /\ st2[(c - 1) + 1] = st2[c - 1] + cs2[c - 1]
    BY <2>4, <2>6 DEF StartsOfCalls
  <2> QED
    BY <2>4, <2>5, <2>6, <2>7
<1> QED
  BY <1>2

(***************************************************************************)
(* As far as the first keystream goes, a call of the one side begins       *)
(* where a call of the other does.                                         *)
(***************************************************************************)
LEMMA SameCallsBegin ==
    ASSUME NEW ks1 \in Seq(KeyByte), NEW lf1 \in Nat, NEW b1, NEW bf1, NEW nx1,
           NEW cs1 \in Seq(Nat \ {0}), NEW st1,
           NEW ks2, NEW lf2, NEW b2, NEW bf2, NEW nx2,
           NEW cs2 \in Seq(Nat \ {0}), NEW st2, NEW iv,
           Side(ks1, lf1, b1, bf1, nx1, cs1, st1, iv),
           Side(ks2, lf2, b2, bf2, nx2, cs2, st2, iv),
           BeginAlike(cs1, cs2),
           NEW i \in 1 .. Len(ks1)
    PROVE  Begins(cs1, st1, i) <=> Begins(cs2, st2, i)
<1>1. /\ StartsOfCalls(cs1, st1) /\ StartsOfCalls(cs2, st2)
      /\ Len(ks1) + lf1 = st1[Len(cs1) + 1]
  BY DEF Side, CallRuns
<1>2. Len(ks1) \in Nat /\ Len(cs1) \in Nat /\ Len(cs2) \in Nat
  BY LenProperties
<1>3. \A c \in 1 .. Len(cs1) + 1 : st1[c] = st2[c] /\ st1[c] \in Nat
  <2>1. \A c \in 1 .. Len(cs1) + 1 : st1[c] = st2[c]
    BY <1>1, SameStarts
  <2>2. \A c \in 1 .. Len(cs1) + 1 : st1[c] \in Nat
    BY <1>1, StartBounds
  <2> QED
    BY <2>1, <2>2
<1>4. \A c \in 1 .. Len(cs2) + 1 : st2[c] \in Nat
  BY <1>1, StartBounds
<1>5. ASSUME NEW c \in 1 .. Len(cs1), st1[c] = i - 1 PROVE Begins(cs2, st2, i)
  <2>1. c \in 1 .. Len(cs2) /\ c \in 1 .. Len(cs1) + 1
    BY <1>2 DEF BeginAlike
  <2> QED
    BY <1>3, <1>5, <2>1 DEF Begins
<1>6. ASSUME NEW c \in 1 .. Len(cs2), st2[c] = i - 1 PROVE Begins(cs1, st1, i)
  <2>1. CASE c \in 1 .. Len(cs1)
    <3>1. c \in 1 .. Len(cs1) + 1
      BY <1>2, <2>1
    <3> QED
      BY <1>3, <1>6, <2>1, <3>1 DEF Begins
  <2>2. CASE c = Len(cs1) + 1
    <3>1. c \in 1 .. Len(cs1) + 1
      BY <1>2, <2>2
    <3>2. i - 1 = Len(ks1) + lf1
      BY <1>1, <1>3, <1>6, <2>2, <3>1
    <3> QED
      BY <1>2, <3>2
  <2>3. CASE c > Len(cs1) + 1
    <3>1. /\ Len(cs1) + 1 \in 1 .. Len(cs2) + 1 /\ c \in 1 .. Len(cs2) + 1
          /\ Len(cs1) + 1 < c /\ Len(cs1) + 1 \in 1 .. Len(cs1) + 1
      BY <1>2, <2>3
    <3>2. st2[Len(cs1) + 1] < st2[c] /\ st2[Len(cs1) + 1] = st1[Len(cs1) + 1]
      BY <1>1, <1>3, <3>1 DEF StartsOfCalls
    <3> QED
      BY <1>1, <1>2, <1>3, <1>4, <1>6, <3>1, <3>2
  <2> QED
    BY <1>2, <2>1, <2>2, <2>3
<1> QED
  BY <1>5, <1>6 DEF Begins

-----------------------------------------------------------------------------

(***************************************************************************)
(* Both contexts begin with the same counter and no keystream.             *)
(***************************************************************************)
LEMMA CtrInitially == CtrInit => CtrInv
<1> SUFFICES ASSUME CtrInit PROVE CtrInv
  OBVIOUS
<1>1. PICK iv \in Vectors : Iv = [s \in Sides |-> iv] /\ buffer = [s \in Sides |-> iv]
  BY DEF CtrInit
<1>2. iv \in Counter /\ AES_BLOCKLEN \in Nat \ {0}
  BY CtrAssumption DEF Counter
<1>3. /\ left = [s \in Sides |-> 0] /\ bi = [s \in Sides |-> AES_BLOCKLEN]
      /\ keystream = [s \in Sides |-> <<>>] /\ calls = [s \in Sides |-> <<>>]
  BY DEF CtrInit
<1>4. CtrTypeOK
  BY <1>1, <1>2, <1>3, EmptySeq DEF CtrTypeOK
<1> DEFINE st == [s \in Sides |-> <<0>>]
<1>5. st \in [Sides -> Seq(Nat)]
  OBVIOUS
<1>6. ASSUME NEW s \in Sides PROVE SideInv(s, st[s], iv)
  <2>1. keystream[s] = <<>> /\ left[s] = 0 /\ calls[s] = <<>> /\ st[s] = <<0>> /\ Iv[s] = iv
    BY <1>1, <1>3
  <2>2. Len(<<>>) = 0 /\ Len(<<0>>) = 1 /\ <<0>>[1] = 0 /\ <<0>> \in Seq(Nat)
    OBVIOUS
  <2>3. StartsOfCalls(<<>>, <<0>>)
    BY <2>2 DEF StartsOfCalls
  <2>4. Side(<<>>, 0, bi[s], buffer[s], iv, <<>>, <<0>>, iv)
    BY <2>2, <2>3 DEF Side, KeysFollow, CallRuns, CounterReady, WholeCallsEndBlocks
  <2> QED
    BY <2>1, <2>4 DEF SideInv
<1> QED
  BY <1>2, <1>4, <1>5, <1>6 DEF CtrInv

(***************************************************************************)
(* A step of one side leaves the other as it was.                          *)
(***************************************************************************)
LEMMA OneSide ==
    ASSUME NEW iv \in Counter, NEW st \in [Sides -> Seq(Nat)],
           \A r \in Sides : SideInv(r, st[r], iv),
           CtrTypeOK', NEW s \in Sides, NEW st2 \in Seq(Nat), SideInv(s, st2, iv)',
           \A r \in Sides \ {s} :
              /\ keystream'[r] = keystream[r] /\ left'[r] = left[r] /\ bi'[r] = bi[r]
              /\ buffer'[r] = buffer[r] /\ Iv'[r] = Iv[r] /\ calls'[r] = calls[r]
    PROVE  CtrInv'
<1> DEFINE all == [st EXCEPT ![s] = st2]
<1>1. all \in [Sides -> Seq(Nat)] /\ all[s] = st2 /\ \A r \in Sides \ {s} : all[r] = st[r]
  OBVIOUS
<1> HIDE DEF all
<1>2. ASSUME NEW r \in Sides PROVE SideInv(r, all[r], iv)'
  <2>1. CASE r = s
    BY <1>1, <2>1
  <2>2. CASE r # s
    BY <1>1, <2>2 DEF SideInv
  <2> QED
    BY <2>1, <2>2
<1> QED
  BY <1>1, <1>2 DEF CtrInv

(***************************************************************************)
(* A call, and each turn of its loop, keep both sides as they should be.   *)
(***************************************************************************)
LEMMA CtrStep ==
    ASSUME CtrInv, [CtrNext]_ctrVars
    PROVE  CtrInv'
<1>1. CtrTypeOK
  BY DEF CtrInv
<1>2. PICK iv \in Counter, st \in [Sides -> Seq(Nat)] : \A s \in Sides : SideInv(s, st[s], iv)
  BY DEF CtrInv
<1>3. ASSUME NEW s \in Sides, NEW n \in CallSizes, Call(s, n) PROVE CtrInv'
  <2>1. n \in Nat \ {0} /\ AES_BLOCKLEN \in Nat \ {0}
    BY CtrAssumption
  <2>2. /\ left[s] = 0 /\ left' = [left EXCEPT ![s] = n]
        /\ bi' = [bi EXCEPT ![s] = AES_BLOCKLEN]
        /\ calls' = [calls EXCEPT ![s] = Append(calls[s], n)]
        /\ UNCHANGED <<Iv, buffer, keystream>>
    BY <1>3 DEF Call
  <2>3. /\ keystream[s] \in Seq(KeyByte) /\ calls[s] \in Seq(Nat \ {0})
        /\ st[s] \in Seq(Nat) /\ Len(keystream[s]) + n \in Nat
    BY <1>1, <2>1, LenProperties DEF CtrTypeOK
  <2>4. /\ Append(calls[s], n) \in Seq(Nat \ {0})
        /\ Append(st[s], Len(keystream[s]) + n) \in Seq(Nat)
    BY <2>1, <2>3, AppendProperties
  <2>5. CtrTypeOK'
    BY <1>1, <2>1, <2>2, <2>4 DEF CtrTypeOK
  <2>6. /\ left'[s] = n /\ bi'[s] = AES_BLOCKLEN /\ calls'[s] = Append(calls[s], n)
        /\ keystream'[s] = keystream[s] /\ buffer'[s] = buffer[s] /\ Iv'[s] = Iv[s]
    BY <1>1, <2>2 DEF CtrTypeOK
  <2>7. Side(keystream[s], n, AES_BLOCKLEN, buffer[s], Iv[s], Append(calls[s], n),
             Append(st[s], Len(keystream[s]) + n), iv)
    <3>1. Side(keystream[s], 0, bi[s], buffer[s], Iv[s], calls[s], st[s], iv)
      BY <1>2, <2>2 DEF SideInv
    <3> QED
      BY <2>1, <2>3, <3>1, CallKeepsSide
  <2>8. PICK st2 \in Seq(Nat) : st2 = Append(st[s], Len(keystream[s]) + n)
    BY <2>4
  <2>9. \A r \in Sides \ {s} :
           /\ keystream'[r] = keystream[r] /\ left'[r] = left[r] /\ bi'[r] = bi[r]
           /\ buffer'[r] = buffer[r] /\ Iv'[r] = Iv[r] /\ calls'[r] = calls[r]
    BY <1>1, <2>2 DEF CtrTypeOK
  <2>10. SideInv(s, st2, iv)'
    BY <2>6, <2>7, <2>8 DEF SideInv
  <2> QED
    BY <1>2, <2>5, <2>9, <2>10, OneSide
<1>4. ASSUME NEW s \in Sides, NextBlock(s) \/ SameBlock(s) PROVE CtrInv'
  <2> DEFINE key == NextKey(bi[s], buffer[s], Iv[s])
             nx == IF bi[s] = AES_BLOCKLEN THEN Incremented(Iv[s]) ELSE Iv[s]
  <2>1. /\ keystream[s] \in Seq(KeyByte) /\ calls[s] \in Seq(Nat \ {0})
        /\ left[s] \in Nat \ {0} /\ bi[s] \in 1 .. AES_BLOCKLEN /\ AES_BLOCKLEN \in Nat \ {0}
        /\ buffer[s] \in Counter /\ Iv[s] \in Counter
    BY <1>1, <1>4, CtrAssumption DEF CtrTypeOK, NextBlock, SameBlock
  <2>2. key \in KeyByte /\ nx \in Counter
    BY <2>1, CounterIncremented DEF NextKey, KeyByte
  <2>3. /\ keystream' = [keystream EXCEPT ![s] = Append(keystream[s], key)]
        /\ bi' = [bi EXCEPT ![s] = key[2] + 1]
        /\ left' = [left EXCEPT ![s] = left[s] - 1]
        /\ buffer' = [buffer EXCEPT ![s] = key[1]]
        /\ Iv' = [Iv EXCEPT ![s] = nx]
        /\ calls' = calls
    <3>1. CASE NextBlock(s)
      BY <1>1, <3>1 DEF NextBlock, Apply, NextKey, CtrTypeOK
    <3>2. CASE SameBlock(s)
      BY <1>1, <3>2 DEF SameBlock, Apply, NextKey, CtrTypeOK
    <3> QED
      BY <1>4, <3>1, <3>2
  <2>4. Append(keystream[s], key) \in Seq(KeyByte)
    BY <2>1, <2>2, AppendProperties
  <2>5. key[1] \in Counter /\ key[2] + 1 \in 1 .. AES_BLOCKLEN /\ left[s] - 1 \in Nat
    BY <2>1, <2>2 DEF KeyByte
  <2>6. Side(Append(keystream[s], key), left[s] - 1, key[2] + 1, key[1], nx, calls[s],
             st[s], iv)
    <3>1. Side(keystream[s], left[s], bi[s], buffer[s], Iv[s], calls[s], st[s], iv)
      BY <1>2 DEF SideInv
    <3> QED
      BY <2>1, <3>1, KeyKeepsSide
  <2> HIDE DEF key, nx
  <2>7. CtrTypeOK'
    BY <1>1, <2>2, <2>3, <2>4, <2>5 DEF CtrTypeOK
  <2>8. /\ left'[s] = left[s] - 1 /\ bi'[s] = key[2] + 1 /\ calls'[s] = calls[s]
        /\ keystream'[s] = Append(keystream[s], key) /\ buffer'[s] = key[1] /\ Iv'[s] = nx
    BY <1>1, <2>3 DEF CtrTypeOK
  <2>9. SideInv(s, st[s], iv)'
    BY <2>6, <2>8 DEF SideInv
  <2>10. \A r \in Sides \ {s} :
            /\ keystream'[r] = keystream[r] /\ left'[r] = left[r] /\ bi'[r] = bi[r]
            /\ buffer'[r] = buffer[r] /\ Iv'[r] = Iv[r] /\ calls'[r] = calls[r]
    BY <1>1, <2>3 DEF CtrTypeOK
  <2>11. st[s] \in Seq(Nat)
    OBVIOUS
  <2> QED
    BY <1>2, <2>7, <2>9, <2>10, <2>11, OneSide
<1>5. CASE UNCHANGED ctrVars
  BY <1>1, <1>2, <1>5 DEF ctrVars, CtrInv, CtrTypeOK, SideInv
<1> QED
  BY <1>3, <1>4, <1>5 DEF CtrNext, Full

(***************************************************************************)
(* The two sides use the same keystream.                                   *)
(***************************************************************************)
LEMMA CtrInvSuffices == CtrInv => DecryptsWhatWasEncrypted
<1> SUFFICES ASSUME CtrInv PROVE DecryptsWhatWasEncrypted
  OBVIOUS
<1>1. PICK iv \in Counter, st \in [Sides -> Seq(Nat)] : \A s \in Sides : SideInv(s, st[s], iv)
  BY DEF CtrInv
<1> DEFINE e == "encrypt"
           d == "decrypt"
<1>2. e \in Sides /\ d \in Sides
  BY DEF Sides
<1>3. ASSUME NEW s \in Sides
      PROVE  /\ keystream[s] \in Seq(KeyByte) /\ calls[s] \in Seq(Nat \ {0})
             /\ left[s] \in Nat /\ Len(keystream[s]) \in Nat
             /\ Side(keystream[s], left[s], bi[s], buffer[s], Iv[s], calls[s], st[s], iv)
             /\ KeysFollow(keystream[s], calls[s], st[s], iv)
  BY <1>1, LenProperties DEF CtrInv, CtrTypeOK, SideInv, Side
<1>4. ASSUME \A s \in Sides : WholeBlocks(s),
             NEW i \in 1 .. Len(keystream[e]), i <= Len(keystream[d])
      PROVE  keystream[e][i] = keystream[d][i]
  <2>1. ASSUME NEW s \in Sides, NEW j \in 2 .. Len(keystream[s])
        PROVE  BeginsBlock(keystream[s], calls[s], st[s], j) <=>
                  keystream[s][j - 1][2] = AES_BLOCKLEN - 1
    BY <1>3, <1>4, WholeCallsBegin DEF WholeBlocks
  <2>2. \A j \in 2 .. Len(keystream[e]) :
           j <= Len(keystream[d]) /\ keystream[e][j - 1] = keystream[d][j - 1] =>
              (BeginsBlock(keystream[e], calls[e], st[e], j) <=>
                  BeginsBlock(keystream[d], calls[d], st[d], j))
    <3> SUFFICES ASSUME NEW j \in 2 .. Len(keystream[e]), j <= Len(keystream[d]),
                        keystream[e][j - 1] = keystream[d][j - 1]
                 PROVE  BeginsBlock(keystream[e], calls[e], st[e], j) <=>
                           BeginsBlock(keystream[d], calls[d], st[d], j)
      OBVIOUS
    <3>1. j \in 2 .. Len(keystream[d])
      BY <1>2, <1>3
    <3> QED
      BY <1>2, <2>1, <3>1
  <2> QED
    BY <1>2, <1>3, <1>4, <2>2, SameKeystream
<1>5. ASSUME \A c \in 1 .. Len(calls[d]) : c <= Len(calls[e]) /\ calls[d][c] = calls[e][c],
             NEW i \in 1 .. Len(keystream[e]), i <= Len(keystream[d])
      PROVE  keystream[e][i] = keystream[d][i]
  <2>1. ASSUME NEW j \in 1 .. Len(keystream[d])
        PROVE  Begins(calls[d], st[d], j) <=> Begins(calls[e], st[e], j)
    <3>1. BeginAlike(calls[d], calls[e])
      BY <1>5 DEF BeginAlike
    <3> QED
      BY <1>2, <1>3, <3>1, SameCallsBegin
  <2>2. \A j \in 2 .. Len(keystream[d]) :
           j <= Len(keystream[e]) /\ keystream[d][j - 1] = keystream[e][j - 1] =>
              (BeginsBlock(keystream[d], calls[d], st[d], j) <=>
                  BeginsBlock(keystream[e], calls[e], st[e], j))
    BY <1>2, <1>3, <2>1 DEF BeginsBlock
  <2>3. \A j \in 1 .. Len(keystream[d]) :
           j <= Len(keystream[e]) => keystream[d][j] = keystream[e][j]
    BY <1>2, <1>3, <2>2, SameKeystream
  <2>4. i \in 1 .. Len(keystream[d]) /\ i <= Len(keystream[e])
    BY <1>2, <1>3, <1>5
  <2> QED
    BY <2>3, <2>4
<1> QED
  BY <1>4, <1>5 DEF DecryptsWhatWasEncrypted

(***************************************************************************)
(* "Same function for encrypting as for decrypting": as long as both sides *)
(* split the message at whole blocks or at the same places, what           *)
(* AES_CTR_xcrypt_buffer put on at one side it takes off at the other.     *)
(***************************************************************************)
THEOREM CounterRoundTrip == CtrSpec => []DecryptsWhatWasEncrypted
<1>1. CtrSpec => []CtrInv
  BY CtrInitially, CtrStep, PTL DEF CtrSpec
<1> QED
  BY <1>1, CtrInvSuffices, PTL

(***************************************************************************)
(* The same while the other mode may be chosen instead.                    *)
(***************************************************************************)
THEOREM ModesCounterRoundTrip == ModesSpec => []DecryptsWhatWasEncrypted
<1>1. ModesInit => CtrInv
  BY CtrInitially DEF ModesInit
<1>2. CtrInv /\ [ModesNext]_modesVars => CtrInv'
  <2>1. [ModesNext]_modesVars => [CtrNext]_ctrVars
    BY DEF ModesNext, modesVars
  <2> QED
    BY <2>1, CtrStep
<1> QED
  BY <1>1, <1>2, CtrInvSuffices, PTL DEF ModesSpec

-----------------------------------------------------------------------------

(***************************************************************************)
(* The counter as a number.  What follows gives every counter a number     *)
(* below m, another for each; adding one to the counter adds one to it,    *)
(* and leads from m - 1 to 0.                                              *)
(***************************************************************************)
After(x, m) == IF x = m - 1 THEN 0 ELSE x + 1

Follows(f, n, a, m, g) == f[0] = a /\ \A k \in 1 .. n : f[k] = m * f[k - 1] + g[k]

LEMMA ProductsAreNaturals ==
    ASSUME NEW x \in Nat, NEW y \in Nat, NEW z \in Nat
    PROVE  x * y \in Nat /\ x * y + z \in Nat
<1>1. x * y \in Nat
  BY SMT
<1>2. PICK p \in Nat : p = x * y
  BY <1>1
<1> QED
  BY ONLY <1>2, z \in Nat

(***************************************************************************)
(* A linear recurrence has a solution.                                     *)
(***************************************************************************)
LEMMA Recurrence ==
    ASSUME NEW n \in Nat, NEW a \in Nat, NEW m \in Nat, NEW g \in [1 .. n -> Nat]
    PROVE  \E f \in [0 .. n -> Nat] : Follows(f, n, a, m, g)
<1> DEFINE Solved(k) == \E f \in [0 .. k -> Nat] : Follows(f, k, a, m, g)
           T == {k \in 0 .. n : ~ Solved(k)}
<1>1. Solved(0)
  <2>1. [i \in 0 .. 0 |-> a] \in [0 .. 0 -> Nat] /\ Follows([i \in 0 .. 0 |-> a], 0, a, m, g)
    BY DEF Follows
  <2> QED
    BY <2>1
<1>2. ASSUME NEW k \in 1 .. n, Solved(k - 1) PROVE Solved(k)
  <2>1. PICK f \in [0 .. k - 1 -> Nat] : Follows(f, k - 1, a, m, g)
    BY <1>2
  <2> DEFINE h == [i \in 0 .. k |-> IF i = k THEN m * f[k - 1] + g[k] ELSE f[i]]
  <2>2. f[k - 1] \in Nat /\ g[k] \in Nat
    BY ONLY f \in [0 .. k - 1 -> Nat], g \in [1 .. n -> Nat], k \in 1 .. n, n \in Nat
  <2>3. m * f[k - 1] + g[k] \in Nat
    BY ONLY <2>2, m \in Nat, ProductsAreNaturals
  <2>4. h \in [0 .. k -> Nat]
    <3>1. \A i \in 0 .. k : i = k \/ i \in 0 .. k - 1
      BY ONLY k \in 1 .. n, n \in Nat
    <3> QED
      BY ONLY <2>3, <3>1, f \in [0 .. k - 1 -> Nat]
  <2>5. h[k] = m * f[k - 1] + g[k] /\ \A i \in 0 .. k - 1 : h[i] = f[i]
    BY ONLY k \in 1 .. n, n \in Nat
  <2> HIDE DEF h
  <2>6. h[0] = a
    <3>1. 0 \in 0 .. k - 1
      BY ONLY k \in 1 .. n, n \in Nat
    <3> QED
      BY ONLY <2>1, <2>5, <3>1 DEF Follows
  <2>7. ASSUME NEW i \in 1 .. k PROVE h[i] = m * h[i - 1] + g[i]
    <3>1. i - 1 \in 0 .. k - 1 /\ (i = k \/ (i \in 1 .. k - 1 /\ i \in 0 .. k - 1))
      BY ONLY k \in 1 .. n, n \in Nat, i \in 1 .. k
    <3>2. h[i - 1] = f[i - 1]
      BY ONLY <2>5, <3>1
    <3> QED
      BY ONLY <2>1, <2>5, <3>1, <3>2 DEF Follows
  <2>8. Follows(h, k, a, m, g)
    BY ONLY <2>6, <2>7 DEF Follows
  <2> QED
    BY <2>4, <2>8
<1> HIDE DEF Solved
<1>3. T = {}
  <2> SUFFICES ASSUME T # {} PROVE FALSE
    OBVIOUS
  <2> HIDE DEF T
  <2>1. PICK x \in T : \A y \in T : x <= y
    <3>1. T \subseteq Nat
      BY ONLY n \in Nat DEF T
    <3> QED
      BY ONLY <3>1, T # {}, LeastNatural
  <2>2. x \in 0 .. n /\ ~ Solved(x)
    BY DEF T
  <2>3. x \in 1 .. n /\ x - 1 \in 0 .. n /\ ~ (x <= x - 1)
    BY ONLY <1>1, <2>2, n \in Nat
  <2>4. x - 1 \notin T
    BY ONLY <2>1, <2>3
  <2> QED
    BY <1>2, <2>2, <2>3, <2>4 DEF T
<1>4. n \in 0 .. n
  OBVIOUS
<1>5. Solved(n)
  BY <1>3, <1>4
<1> QED
  BY <1>5 DEF Solved

(***************************************************************************)
(* w[k] is what the last k bytes can count to, f[k] what they count in iv. *)
(***************************************************************************)
Weights(w) == w \in [0 .. AES_BLOCKLEN -> Nat]
              /\ w[0] = 1 /\ \A k \in 1 .. AES_BLOCKLEN : w[k] = Radix * w[k - 1]

LowBytes(f, w, iv) ==
    /\ f \in [0 .. AES_BLOCKLEN -> Nat] /\ f[0] = 0
    /\ \A k \in 1 .. AES_BLOCKLEN : f[k] = iv[AES_BLOCKLEN - k] * w[k - 1] + f[k - 1]

LEMMA WeightsExist == \E w : Weights(w)
<1>1. AES_BLOCKLEN \in Nat /\ Radix \in Nat
  BY CtrAssumption
<1> PICK n \in Nat, r \in Nat : n = AES_BLOCKLEN /\ r = Radix
  BY <1>1
<1>2. [k \in 1 .. n |-> 0] \in [1 .. n -> Nat]
  OBVIOUS
<1>3. PICK w \in [0 .. n -> Nat] : Follows(w, n, 1, r, [k \in 1 .. n |-> 0])
  BY <1>2, Recurrence
<1>4. ASSUME NEW k \in 1 .. n PROVE w[k] = r * w[k - 1]
  <2>1. w[k - 1] \in Nat
    BY ONLY w \in [0 .. n -> Nat], k \in 1 .. n, n \in Nat
  <2>2. w[k] = r * w[k - 1] + 0
    BY <1>3 DEF Follows
  <2>3. r * w[k - 1] \in Nat
    BY ONLY <2>1, r \in Nat
  <2> QED
    BY ONLY <2>2, <2>3
<1> QED
  BY <1>3, <1>4 DEF Weights, Follows

LEMMA LowBytesExist ==
    ASSUME NEW w, Weights(w), NEW iv \in Counter
    PROVE  \E f : LowBytes(f, w, iv)
<1>1. AES_BLOCKLEN \in Nat /\ Radix \in Nat \ {0, 1}
  BY CtrAssumption
<1> PICK n \in Nat, r \in Nat : n = AES_BLOCKLEN /\ r = Radix
  BY <1>1
<1> DEFINE g == [k \in 1 .. n |-> iv[n - k] * w[k - 1]]
<1>2. ASSUME NEW k \in 1 .. n PROVE iv[n - k] * w[k - 1] \in Nat
  <2>1. n - k \in 0 .. n - 1 /\ k - 1 \in 0 .. n
    BY ONLY k \in 1 .. n, n \in Nat
  <2>2. iv[n - k] \in Nat /\ w[k - 1] \in Nat
    BY <1>1, <2>1 DEF Counter, Weights
  <2> QED
    BY ONLY <2>2
<1>3. g \in [1 .. n -> Nat]
  BY ONLY <1>2
<1>4. \A k \in 1 .. n : g[k] = iv[n - k] * w[k - 1]
  OBVIOUS
<1> HIDE DEF g
<1>5. PICK f \in [0 .. n -> Nat] : Follows(f, n, 0, 1, g)
  BY ONLY <1>3, n \in Nat, 0 \in Nat, 1 \in Nat, Recurrence
<1>6. ASSUME NEW k \in 1 .. n PROVE f[k] = iv[n - k] * w[k - 1] + f[k - 1]
  <2>1. f[k - 1] \in Nat /\ g[k] \in Nat
    BY ONLY <1>3, f \in [0 .. n -> Nat], k \in 1 .. n, n \in Nat
  <2>2. f[k] = 1 * f[k - 1] + g[k]
    BY <1>5 DEF Follows
  <2>3. f[k] = g[k] + f[k - 1]
    BY ONLY <2>1, <2>2
  <2> QED
    BY ONLY <1>4, <2>3
<1> QED
  BY <1>5, <1>6 DEF LowBytes, Follows

(***************************************************************************)
(* One byte more, dig of r values, in front of bytes that count to x below *)
(* v: what they count to together, and when they are all at their end.     *)
(***************************************************************************)
LEMMA OneDigitMore ==
    ASSUME NEW r \in Nat \ {0, 1}, NEW v \in Nat \ {0}, NEW dig \in 0 .. r - 1,
           NEW x \in 0 .. v - 1
    PROVE  /\ r * v \in Nat \ {0}
           /\ dig * v + x \in 0 .. r * v - 1
           /\ dig * v + x = r * v - 1 <=> dig = r - 1 /\ x = v - 1
<1>1. PICK e \in Nat : r = dig + e + 1
  <2>1. r - dig - 1 \in Nat /\ r = dig + (r - dig - 1) + 1
    OBVIOUS
  <2> QED
    BY ONLY <2>1
<1>2. PICK a \in Nat, b \in Nat : a = dig * v /\ b = e * v
  BY ProductsAreNaturals
<1>3. r * v = a + b + v
  <2>1. r * v = dig * v + e * v + v
    BY ONLY <1>1, dig \in 0 .. r - 1, v \in Nat, r \in Nat, e \in Nat
  <2> QED
    BY ONLY <1>2, <2>1
<1>4. (e = 0 /\ b = 0) \/ (e # 0 /\ v <= b)
  <2>1. CASE e = 0
    BY ONLY <1>2, <2>1, v \in Nat
  <2>2. CASE e # 0
    <3>1. PICK c \in Nat : e = c + 1
      <4>1. e - 1 \in Nat /\ e = (e - 1) + 1
        BY ONLY <2>2, e \in Nat
      <4> QED
        BY ONLY <4>1
    <3>2. PICK q \in Nat : q = c * v
      BY ProductsAreNaturals
    <3>3. e * v = c * v + v
      BY ONLY <3>1, c \in Nat, v \in Nat
    <3> QED
      BY ONLY <1>2, <2>2, <3>2, <3>3, v \in Nat
  <2> QED
    BY <2>1, <2>2
<1>5. dig = r - 1 <=> e = 0
  BY ONLY <1>1, dig \in 0 .. r - 1, r \in Nat, e \in Nat
<1>6. /\ a + b + v \in Nat \ {0} /\ a + x \in 0 .. a + b + v - 1
      /\ a + x = a + b + v - 1 <=> e = 0 /\ x = v - 1
  BY ONLY <1>4, v \in Nat \ {0}, x \in 0 .. v - 1, a \in Nat, b \in Nat, e \in Nat
<1> QED
  BY ONLY <1>2, <1>3, <1>5, <1>6

(***************************************************************************)
(* Two such counts are different unless both the byte and the rest agree.  *)
(***************************************************************************)
LEMMA DigitsTell ==
    ASSUME NEW v \in Nat, NEW d1 \in Nat, NEW d2 \in Nat,
           NEW x1 \in 0 .. v - 1, NEW x2 \in 0 .. v - 1, d1 * v + x1 = d2 * v + x2
    PROVE  d1 = d2 /\ x1 = x2
<1>1. ASSUME NEW a \in Nat, NEW b \in Nat, NEW x \in 0 .. v - 1, NEW y \in 0 .. v - 1,
             a < b, a * v + x = b * v + y
      PROVE  FALSE
  <2>1. PICK c \in Nat : b = a + c + 1
    <3>1. b - a - 1 \in Nat /\ b = a + (b - a - 1) + 1
      BY ONLY <1>1, a \in Nat, b \in Nat
    <3> QED
      BY ONLY <3>1
  <2>2. b * v = a * v + c * v + v
    BY ONLY <2>1, a \in Nat, c \in Nat, v \in Nat
  <2>3. PICK p \in Nat, q \in Nat : p = a * v /\ q = c * v
    BY ProductsAreNaturals
  <2>4. p + x = p + q + v + y
    BY ONLY <1>1, <2>2, <2>3
  <2> QED
    BY ONLY <2>4, p \in Nat, q \in Nat, x \in 0 .. v - 1, y \in 0 .. v - 1, v \in Nat
<1>2. ~ (d1 < d2)
  BY <1>1
<1>3. ~ (d2 < d1)
  BY <1>1
<1>4. d1 = d2
  BY ONLY <1>2, <1>3, d1 \in Nat, d2 \in Nat
<1>5. PICK p \in Nat : p = d1 * v
  BY ProductsAreNaturals
<1>6. p + x1 = p + x2
  BY ONLY <1>4, <1>5, d1 * v + x1 = d2 * v + x2
<1>7. x1 = x2
  BY ONLY <1>6, p \in Nat, x1 \in 0 .. v - 1, x2 \in 0 .. v - 1, v \in Nat
<1> QED
  BY <1>4, <1>7

LEMMA WeightsCount ==
    ASSUME NEW w, Weights(w)
    PROVE  \A k \in 0 .. AES_BLOCKLEN : w[k] \in Nat \ {0}
<1> DEFINE T == {k \in 0 .. AES_BLOCKLEN : w[k] = 0}
<1>1. AES_BLOCKLEN \in Nat /\ Radix \in Nat \ {0, 1}
  BY CtrAssumption
<1>2. w \in [0 .. AES_BLOCKLEN -> Nat] /\ w[0] = 1
      /\ \A k \in 1 .. AES_BLOCKLEN : w[k] = Radix * w[k - 1]
  BY DEF Weights
<1>3. T = {}
  <2> SUFFICES ASSUME T # {} PROVE FALSE
    OBVIOUS
  <2> HIDE DEF T
  <2>1. PICK x \in T : \A y \in T : x <= y
    <3>1. T \subseteq Nat
      BY ONLY <1>1 DEF T
    <3> QED
      BY ONLY <3>1, T # {}, LeastNatural
  <2>2. x \in 0 .. AES_BLOCKLEN /\ w[x] = 0
    BY DEF T
  <2>3. x \in 1 .. AES_BLOCKLEN /\ x - 1 \in 0 .. AES_BLOCKLEN /\ ~ (x <= x - 1)
    BY ONLY <1>1, <1>2, <2>2
  <2>4. PICK p \in Nat, r \in Nat \ {0} : p = w[x - 1] /\ r = Radix
    BY ONLY <1>1, <1>2, <2>3
  <2>5. r * p = 0
    BY ONLY <1>2, <2>2, <2>3, <2>4
  <2>6. p = 0
    BY ONLY <2>5, p \in Nat, r \in Nat \ {0}
  <2>7. x - 1 \in T
    BY ONLY <2>3, <2>4, <2>6 DEF T
  <2> QED
    BY ONLY <2>1, <2>3, <2>7
<1>4. ASSUME NEW k \in 0 .. AES_BLOCKLEN PROVE w[k] # 0
  BY <1>3
<1> QED
  BY ONLY <1>2, <1>4

(***************************************************************************)
(* What the last k bytes of iv count, behind what they counted without     *)
(* their first.                                                            *)
(***************************************************************************)
Wrapped(iv, k) == \A j \in AES_BLOCKLEN - k .. AES_BLOCKLEN - 1 : iv[j] = Radix - 1

LowFacts(f, g, w, iv, k) ==
    /\ f[k] \in 0 .. w[k] - 1
    /\ f[k] = w[k] - 1 <=> Wrapped(iv, k)
    /\ g[k] = After(f[k], w[k])

LEMMA LowStep ==
    ASSUME NEW w, Weights(w), NEW iv \in Counter, NEW f, LowBytes(f, w, iv),
           NEW g, LowBytes(g, w, Incremented(iv)),
           NEW k \in 1 .. AES_BLOCKLEN, LowFacts(f, g, w, iv, k - 1)
    PROVE  LowFacts(f, g, w, iv, k)
<1>1. AES_BLOCKLEN \in Nat \ {0} /\ Radix \in Nat \ {0, 1}
  BY CtrAssumption
<1>2. AES_BLOCKLEN - k \in 0 .. AES_BLOCKLEN - 1 /\ k - 1 \in 0 .. AES_BLOCKLEN
  BY ONLY <1>1, k \in 1 .. AES_BLOCKLEN
<1> PICK r \in Nat \ {0, 1}, v \in Nat \ {0} : r = Radix /\ v = w[k - 1]
  BY <1>1, <1>2, WeightsCount
<1> PICK dig \in 0 .. r - 1, x \in 0 .. v - 1 : dig = iv[AES_BLOCKLEN - k] /\ x = f[k - 1]
  <2>1. iv[AES_BLOCKLEN - k] \in 0 .. Radix - 1
    BY <1>2 DEF Counter
  <2>2. f[k - 1] \in 0 .. w[k - 1] - 1
    BY DEF LowFacts
  <2> QED
    BY <2>1, <2>2
<1>3. /\ w[k] = r * v /\ f[k] = dig * v + x
      /\ g[k] = Incremented(iv)[AES_BLOCKLEN - k] * v + g[k - 1]
  BY DEF Weights, LowBytes
<1>4. /\ r * v \in Nat \ {0}
      /\ dig * v + x \in 0 .. r * v - 1
      /\ dig * v + x = r * v - 1 <=> dig = r - 1 /\ x = v - 1
  BY ONLY OneDigitMore, r \in Nat \ {0, 1}, v \in Nat \ {0}, dig \in 0 .. r - 1, x \in 0 .. v - 1
<1>5. /\ x = v - 1 <=> Wrapped(iv, k - 1)
      /\ g[k - 1] = After(x, v)
  BY DEF LowFacts
<1>6. Wrapped(iv, k) <=> dig = r - 1 /\ Wrapped(iv, k - 1)
  <2>1. \A j : j \in AES_BLOCKLEN - k .. AES_BLOCKLEN - 1 <=>
                  j = AES_BLOCKLEN - k \/ j \in AES_BLOCKLEN - (k - 1) .. AES_BLOCKLEN - 1
    BY ONLY <1>1, k \in 1 .. AES_BLOCKLEN
  <2> QED
    BY ONLY <2>1, dig = iv[AES_BLOCKLEN - k], r = Radix DEF Wrapped
<1>7. Incremented(iv)[AES_BLOCKLEN - k] = IF Wrapped(iv, k - 1) THEN (dig + 1) % r ELSE dig
  <2>1. AES_BLOCKLEN - (k - 1) = (AES_BLOCKLEN - k) + 1
    BY ONLY <1>1, k \in 1 .. AES_BLOCKLEN
  <2>2. DOMAIN iv = 0 .. AES_BLOCKLEN - 1
    BY DEF Counter
  <2> QED
    BY ONLY <1>2, <2>1, <2>2, dig = iv[AES_BLOCKLEN - k], r = Radix DEF Incremented, Wrapped
<1>8. g[k] = After(dig * v + x, r * v)
  <2>1. CASE x # v - 1
    <3>1. g[k] = dig * v + (x + 1)
      BY ONLY <1>3, <1>5, <1>7, <2>1 DEF After
    <3>2. PICK p \in Nat : p = dig * v
      BY ONLY ProductsAreNaturals, dig \in 0 .. r - 1, r \in Nat, v \in Nat
    <3>3. p + (x + 1) = (p + x) + 1
      BY ONLY p \in Nat, x \in 0 .. v - 1, v \in Nat
    <3> QED
      BY ONLY <1>4, <2>1, <3>1, <3>2, <3>3 DEF After
  <2>2. CASE x = v - 1 /\ dig = r - 1
    <3>1. (dig + 1) % r = 0
      BY ONLY <2>2, r \in Nat \ {0, 1}
    <3>2. g[k] = 0 * v + 0
      BY ONLY <1>3, <1>5, <1>7, <2>2, <3>1 DEF After
    <3>3. g[k] = 0
      BY ONLY <3>2, v \in Nat
    <3> QED
      BY ONLY <1>4, <2>2, <3>3 DEF After
  <2>3. CASE x = v - 1 /\ dig # r - 1
    <3>1. (dig + 1) % r = dig + 1
      <4>1. dig + 1 \in 0 .. r - 1
        BY ONLY <2>3, dig \in 0 .. r - 1, r \in Nat
      <4> QED
        BY ONLY <4>1, r \in Nat \ {0, 1}
    <3>2. g[k] = (dig + 1) * v + 0
      BY ONLY <1>3, <1>5, <1>7, <2>3, <3>1 DEF After
    <3>3. (dig + 1) * v + 0 = dig * v + x + 1
      BY ONLY <2>3, dig \in 0 .. r - 1, r \in Nat, v \in Nat
    <3> QED
      BY ONLY <1>4, <2>3, <3>2, <3>3 DEF After
  <2> QED
    BY <2>1, <2>2, <2>3
<1> QED
  BY ONLY <1>3, <1>4, <1>5, <1>6, <1>8 DEF LowFacts

(***************************************************************************)
(* What a counter counts to, and what the next one does.                   *)
(***************************************************************************)
LEMMA LowCounts ==
    ASSUME NEW w, Weights(w), NEW iv \in Counter, NEW f, LowBytes(f, w, iv),
           NEW g, LowBytes(g, w, Incremented(iv))
    PROVE  \A k \in 0 .. AES_BLOCKLEN : LowFacts(f, g, w, iv, k)
<1> DEFINE T == {k \in 0 .. AES_BLOCKLEN : ~ LowFacts(f, g, w, iv, k)}
<1>1. AES_BLOCKLEN \in Nat
  BY CtrAssumption
<1>2. LowFacts(f, g, w, iv, 0)
  <2>1. w[0] = 1 /\ f[0] = 0 /\ g[0] = 0
    BY DEF Weights, LowBytes
  <2>2. Wrapped(iv, 0)
    <3>1. AES_BLOCKLEN - 0 .. AES_BLOCKLEN - 1 = {}
      BY ONLY <1>1
    <3> QED
      BY ONLY <3>1 DEF Wrapped
  <2> QED
    BY ONLY <2>1, <2>2 DEF LowFacts, After
<1>3. T = {}
  <2> SUFFICES ASSUME T # {} PROVE FALSE
    OBVIOUS
  <2> HIDE DEF T
  <2>1. PICK x \in T : \A y \in T : x <= y
    <3>1. T \subseteq Nat
      BY ONLY <1>1 DEF T
    <3> QED
      BY ONLY <3>1, T # {}, LeastNatural
  <2>2. x \in 0 .. AES_BLOCKLEN /\ ~ LowFacts(f, g, w, iv, x)
    BY DEF T
  <2>3. x \in 1 .. AES_BLOCKLEN /\ x - 1 \in 0 .. AES_BLOCKLEN /\ ~ (x <= x - 1)
    BY ONLY <1>1, <1>2, <2>2
  <2>4. LowFacts(f, g, w, iv, x - 1)
    BY ONLY <2>1, <2>3 DEF T
  <2> QED
    BY <2>2, <2>3, <2>4, LowStep
<1> QED
  BY <1>3

(***************************************************************************)
(* Two counters of which all bytes count to the same are the same.         *)
(***************************************************************************)
LEMMA LowTells ==
    ASSUME NEW w, Weights(w), NEW a \in Counter, NEW b \in Counter,
           NEW f, LowBytes(f, w, a), NEW g, LowBytes(g, w, b),
           \A k \in 0 .. AES_BLOCKLEN : f[k] \in 0 .. w[k] - 1 /\ g[k] \in 0 .. w[k] - 1,
           f[AES_BLOCKLEN] = g[AES_BLOCKLEN]
    PROVE  a = b
<1>1. AES_BLOCKLEN \in Nat /\ Radix \in Nat
  BY CtrAssumption
<1>2. ASSUME NEW k \in 1 .. AES_BLOCKLEN, f[k] = g[k]
      PROVE  a[AES_BLOCKLEN - k] = b[AES_BLOCKLEN - k] /\ f[k - 1] = g[k - 1]
  <2>1. AES_BLOCKLEN - k \in 0 .. AES_BLOCKLEN - 1 /\ k - 1 \in 0 .. AES_BLOCKLEN
    BY ONLY <1>1, k \in 1 .. AES_BLOCKLEN
  <2> PICK v \in Nat, d1 \in Nat, d2 \in Nat :
         v = w[k - 1] /\ d1 = a[AES_BLOCKLEN - k] /\ d2 = b[AES_BLOCKLEN - k]
    <3>1. w[k - 1] \in Nat
      BY <2>1, WeightsCount
    <3>2. a[AES_BLOCKLEN - k] \in Nat /\ b[AES_BLOCKLEN - k] \in Nat
      BY <1>1, <2>1 DEF Counter
    <3> QED
      BY ONLY <3>1, <3>2
  <2> PICK x1 \in 0 .. v - 1, x2 \in 0 .. v - 1 : x1 = f[k - 1] /\ x2 = g[k - 1]
    BY <2>1
  <2>2. d1 * v + x1 = d2 * v + x2
    BY <1>2 DEF LowBytes
  <2>3. d1 = d2 /\ x1 = x2
    BY ONLY <2>2, DigitsTell, v \in Nat, d1 \in Nat, d2 \in Nat,
            x1 \in 0 .. v - 1, x2 \in 0 .. v - 1
  <2> QED
    BY <2>3
<1> DEFINE T == {k \in 0 .. AES_BLOCKLEN : f[AES_BLOCKLEN - k] # g[AES_BLOCKLEN - k]}
<1>3. T = {}
  <2> SUFFICES ASSUME T # {} PROVE FALSE
    OBVIOUS
  <2> HIDE DEF T
  <2>1. PICK x \in T : \A y \in T : x <= y
    <3>1. T \subseteq Nat
      BY ONLY <1>1 DEF T
    <3> QED
      BY ONLY <3>1, T # {}, LeastNatural
  <2>2. x \in 0 .. AES_BLOCKLEN /\ f[AES_BLOCKLEN - x] # g[AES_BLOCKLEN - x]
    BY DEF T
  <2>3. x # 0
    <3>1. AES_BLOCKLEN - 0 = AES_BLOCKLEN
      BY ONLY <1>1
    <3> QED
      BY <2>2, <3>1
  <2>4. /\ x - 1 \in 0 .. AES_BLOCKLEN /\ ~ (x <= x - 1)
        /\ AES_BLOCKLEN - (x - 1) \in 1 .. AES_BLOCKLEN
        /\ (AES_BLOCKLEN - (x - 1)) - 1 = AES_BLOCKLEN - x
    BY ONLY <1>1, <2>2, <2>3
  <2>5. f[AES_BLOCKLEN - (x - 1)] = g[AES_BLOCKLEN - (x - 1)]
    BY ONLY <2>1, <2>4 DEF T
  <2>6. f[(AES_BLOCKLEN - (x - 1)) - 1] = g[(AES_BLOCKLEN - (x - 1)) - 1]
    BY ONLY <1>2, <2>4, <2>5
  <2> QED
    BY ONLY <2>2, <2>4, <2>6
<1>4. ASSUME NEW i \in 0 .. AES_BLOCKLEN - 1 PROVE a[i] = b[i]
  <2> DEFINE k == AES_BLOCKLEN - i
  <2>1. /\ k \in 1 .. AES_BLOCKLEN /\ AES_BLOCKLEN - k = i
        /\ i \in 0 .. AES_BLOCKLEN /\ i + 1 \in 0 .. AES_BLOCKLEN
    BY ONLY <1>1, i \in 0 .. AES_BLOCKLEN - 1
  <2>2. f[k] = g[k]
    BY <1>3, <2>1
  <2> HIDE DEF k
  <2> QED
    BY ONLY <1>2, <2>1, <2>2
<1>5. a = [i \in 0 .. AES_BLOCKLEN - 1 |-> a[i]] /\ b = [i \in 0 .. AES_BLOCKLEN - 1 |-> b[i]]
  BY DEF Counter
<1> QED
  BY ONLY <1>4, <1>5

(***************************************************************************)
(* So there are no more counters than m, and they can be numbered in the   *)
(* order in which they are incremented.                                    *)
(***************************************************************************)
Numbers(v, m) ==
    /\ v \in [Counter -> 0 .. m - 1]
    /\ \A iv \in Counter : v[Incremented(iv)] = After(v[iv], m)

LEMMA CountersNumbered ==
    \E m \in Nat : /\ \E v : Numbers(v, m)
                   /\ IsFiniteSet(Counter) /\ Cardinality(Counter) <= m
<1>1. AES_BLOCKLEN \in Nat /\ AES_BLOCKLEN \in 0 .. AES_BLOCKLEN
  BY CtrAssumption
<1>2. PICK w : Weights(w)
  BY WeightsExist
<1> DEFINE low == [iv \in Counter |-> CHOOSE f : LowBytes(f, w, iv)]
           m == w[AES_BLOCKLEN]
           v == [iv \in Counter |-> low[iv][AES_BLOCKLEN]]
<1>3. \A iv \in Counter : LowBytes(low[iv], w, iv)
  BY <1>2, LowBytesExist
<1> HIDE DEF low
<1>4. m \in Nat
  BY <1>1, <1>2, WeightsCount
<1>5. ASSUME NEW iv \in Counter
      PROVE  /\ \A k \in 0 .. AES_BLOCKLEN : low[iv][k] \in 0 .. w[k] - 1
             /\ v[iv] \in 0 .. m - 1 /\ v[Incremented(iv)] = After(v[iv], m)
  <2>1. Incremented(iv) \in Counter
    BY CounterIncremented
  <2>2. \A k \in 0 .. AES_BLOCKLEN : LowFacts(low[iv], low[Incremented(iv)], w, iv, k)
    BY <1>2, <1>3, <2>1, LowCounts
  <2> QED
    BY <1>1, <2>1, <2>2 DEF LowFacts
<1>6. Numbers(v, m)
  BY <1>5 DEF Numbers
<1>7. ASSUME NEW a \in Counter, NEW b \in Counter, v[a] = v[b] PROVE a = b
  <2>1. /\ LowBytes(low[a], w, a) /\ LowBytes(low[b], w, b)
        /\ \A k \in 0 .. AES_BLOCKLEN :
              low[a][k] \in 0 .. w[k] - 1 /\ low[b][k] \in 0 .. w[k] - 1
    BY <1>3, <1>5
  <2>2. low[a][AES_BLOCKLEN] = low[b][AES_BLOCKLEN]
    BY <1>7
  <2> QED
    BY <1>2, <2>1, <2>2, LowTells
<1> HIDE DEF v, m
<1>8. v \in Injection(Counter, 0 .. m - 1)
  BY <1>6, <1>7 DEF Numbers, Injection, IsInjective
<1>9. IsFiniteSet(0 .. m - 1) /\ Cardinality(0 .. m - 1) = m
  <2>1. /\ IsFiniteSet(0 .. m - 1)
        /\ Cardinality(0 .. m - 1) = IF 0 > m - 1 THEN 0 ELSE m - 1 - 0 + 1
    BY ONLY <1>4, FS_Interval, m - 1 \in Int, 0 \in Int
  <2> QED
    BY ONLY <1>4, <2>1
<1>10. IsFiniteSet(Counter) /\ Cardinality(Counter) <= m
  BY ONLY <1>8, <1>9, FS_Injection
<1> QED
  BY <1>4, <1>6, <1>10

(***************************************************************************)
(* The bytes of a keystream, by the number of the counter each is made     *)
(* with (v), its block among those used (o) and its position there (p):    *)
(* each is of the next block, or the next of its block.                    *)
(***************************************************************************)
Turns(l, m, v, o, p) ==
    /\ v \in [1 .. l -> 0 .. m - 1] /\ o \in [1 .. l -> Nat] /\ p \in [1 .. l -> Nat]
    /\ l > 0 => o[1] = 1
    /\ \A k \in 1 .. l - 1 :
          \/ p[k + 1] = 0 /\ o[k + 1] = o[k] + 1 /\ v[k + 1] = After(v[k], m)
          \/ p[k + 1] = p[k] + 1 /\ o[k + 1] = o[k] /\ v[k + 1] = v[k]

(***************************************************************************)
(* As long as no more than m blocks are used, the number of a byte's       *)
(* counter is as far from the first one's as its block, modulo m.          *)
(***************************************************************************)
LEMMA TurnsCount ==
    ASSUME NEW l \in Nat, NEW m \in Nat, NEW v, NEW o, NEW p, Turns(l, m, v, o, p)
    PROVE  \A k \in 1 .. l :
              /\ o[k] >= 1
              /\ o[k] <= m => v[k] + 1 = v[1] + o[k] \/ v[k] + 1 + m = v[1] + o[k]
<1> DEFINE Fits(k) ==
             /\ o[k] >= 1
             /\ o[k] <= m => v[k] + 1 = v[1] + o[k] \/ v[k] + 1 + m = v[1] + o[k]
           T == {k \in 1 .. l : ~ Fits(k)}
<1>1. ASSUME NEW k \in 1 .. l
      PROVE  v[k] \in 0 .. m - 1 /\ o[k] \in Nat /\ p[k] \in Nat /\ v[1] \in 0 .. m - 1
  <2>1. 1 \in 1 .. l
    BY ONLY k \in 1 .. l, l \in Nat
  <2> QED
    BY <2>1 DEF Turns
<1>2. ASSUME 1 \in 1 .. l PROVE Fits(1)
  <2>1. o[1] = 1
    BY <1>2 DEF Turns
  <2>2. PICK a \in Nat : a = v[1]
    BY <1>1, <1>2
  <2> QED
    BY ONLY <2>1, <2>2
<1>3. ASSUME NEW k \in 1 .. l - 1, Fits(k) PROVE Fits(k + 1)
  <2>1. k \in 1 .. l /\ k + 1 \in 1 .. l
    BY ONLY k \in 1 .. l - 1, l \in Nat
  <2> PICK v0 \in 0 .. m - 1, v1 \in 0 .. m - 1, v2 \in 0 .. m - 1, o1 \in Nat, o2 \in Nat :
         v0 = v[1] /\ v1 = v[k] /\ v2 = v[k + 1] /\ o1 = o[k] /\ o2 = o[k + 1]
    BY <1>1, <2>1
  <2>2. (o2 = o1 + 1 /\ v2 = After(v1, m)) \/ (o2 = o1 /\ v2 = v1)
    BY DEF Turns
  <2>3. o1 >= 1 /\ (o1 <= m => v1 + 1 = v0 + o1 \/ v1 + 1 + m = v0 + o1)
    BY <1>3
  <2>4. o2 >= 1 /\ (o2 <= m => v2 + 1 = v0 + o2 \/ v2 + 1 + m = v0 + o2)
    BY ONLY <2>2, <2>3, v0 \in 0 .. m - 1, v1 \in 0 .. m - 1, o1 \in Nat, m \in Nat DEF After
  <2> QED
    BY ONLY <2>4, v0 = v[1], v2 = v[k + 1], o2 = o[k + 1]
<1> HIDE DEF Fits
<1>4. T = {}
  <2> SUFFICES ASSUME T # {} PROVE FALSE
    OBVIOUS
  <2> HIDE DEF T
  <2>1. PICK x \in T : \A y \in T : x <= y
    <3>1. T \subseteq Nat
      BY ONLY l \in Nat DEF T
    <3> QED
      BY ONLY <3>1, T # {}, LeastNatural
  <2>2. x \in 1 .. l /\ ~ Fits(x)
    BY DEF T
  <2>3. /\ x # 1 => x - 1 \in 1 .. l - 1 /\ x - 1 \in 1 .. l /\ (x - 1) + 1 = x
        /\ ~ (x <= x - 1)
    BY ONLY <2>2, l \in Nat
  <2>4. x # 1
    BY <1>2, <2>2
  <2>5. Fits(x - 1)
    BY ONLY <2>1, <2>3, <2>4 DEF T
  <2>6. Fits((x - 1) + 1)
    BY <1>3, <2>3, <2>4, <2>5
  <2> QED
    BY ONLY <2>2, <2>3, <2>4, <2>6
<1> QED
  BY <1>4 DEF Fits

(***************************************************************************)
(* A later byte is of a later block, or further on in the same block.      *)
(***************************************************************************)
LEMMA TurnsGoOn ==
    ASSUME NEW l \in Nat, NEW m \in Nat, NEW v, NEW o, NEW p, Turns(l, m, v, o, p),
           NEW i \in 1 .. l
    PROVE  \A j \in i + 1 .. l : o[i] < o[j] \/ (o[i] = o[j] /\ p[i] < p[j])
<1> DEFINE Later(j) == o[i] < o[j] \/ (o[i] = o[j] /\ p[i] < p[j])
           T == {j \in i + 1 .. l : ~ Later(j)}
<1>1. ASSUME NEW k \in i .. l - 1, k = i \/ Later(k) PROVE Later(k + 1)
  <2>1. k \in 1 .. l - 1 /\ k \in 1 .. l /\ k + 1 \in 1 .. l
    BY ONLY k \in i .. l - 1, i \in 1 .. l, l \in Nat
  <2> PICK oi \in Nat, o1 \in Nat, o2 \in Nat, pi \in Nat, p1 \in Nat, p2 \in Nat :
         /\ oi = o[i] /\ o1 = o[k] /\ o2 = o[k + 1]
         /\ pi = p[i] /\ p1 = p[k] /\ p2 = p[k + 1]
    BY <2>1 DEF Turns
  <2>2. o2 = o1 + 1 \/ (o2 = o1 /\ p2 = p1 + 1)
    BY <2>1 DEF Turns
  <2>3. (o1 = oi /\ p1 = pi) \/ oi < o1 \/ (oi = o1 /\ pi < p1)
    BY <1>1
  <2>4. oi < o2 \/ (oi = o2 /\ pi < p2)
    BY ONLY <2>2, <2>3, oi \in Nat, o1 \in Nat, pi \in Nat, p1 \in Nat
  <2> QED
    BY ONLY <2>4, oi = o[i], o2 = o[k + 1], pi = p[i], p2 = p[k + 1]
<1> HIDE DEF Later
<1>2. T = {}
  <2> SUFFICES ASSUME T # {} PROVE FALSE
    OBVIOUS
  <2> HIDE DEF T
  <2>1. PICK x \in T : \A y \in T : x <= y
    <3>1. T \subseteq Nat
      BY ONLY l \in Nat, i \in 1 .. l DEF T
    <3> QED
      BY ONLY <3>1, T # {}, LeastNatural
  <2>2. x \in i + 1 .. l /\ ~ Later(x)
    BY DEF T
  <2>3. /\ x - 1 \in i .. l - 1 /\ (x - 1) + 1 = x /\ ~ (x <= x - 1)
        /\ x - 1 = i \/ x - 1 \in i + 1 .. l
    BY ONLY <2>2, l \in Nat, i \in 1 .. l
  <2>4. x - 1 = i \/ Later(x - 1)
    BY ONLY <2>1, <2>3 DEF T
  <2>5. Later((x - 1) + 1)
    BY ONLY <1>1, <2>3, <2>4
  <2> QED
    BY ONLY <2>2, <2>3, <2>5
<1> QED
  BY <1>2 DEF Later

LEMMA TurnsDiffer ==
    ASSUME NEW l \in Nat, NEW m \in Nat, NEW v, NEW o, NEW p, Turns(l, m, v, o, p),
           NEW i \in 1 .. l, NEW j \in i + 1 .. l, o[l] <= m
    PROVE  v[i] # v[j] \/ p[i] # p[j]
<1>1. j \in 1 .. l /\ l \in 1 .. l /\ 1 \in 1 .. l /\ (j = l \/ l \in j + 1 .. l)
  BY ONLY l \in Nat, i \in 1 .. l, j \in i + 1 .. l
<1> PICK oi \in Nat, oj \in Nat, ol \in Nat, pi \in Nat, pj \in Nat :
       oi = o[i] /\ oj = o[j] /\ ol = o[l] /\ pi = p[i] /\ pj = p[j]
  BY <1>1 DEF Turns
<1> PICK v0 \in 0 .. m - 1, vi \in 0 .. m - 1, vj \in 0 .. m - 1 :
       v0 = v[1] /\ vi = v[i] /\ vj = v[j]
  BY <1>1 DEF Turns
<1>2. oi < oj \/ (oi = oj /\ pi < pj)
  BY TurnsGoOn
<1>3. oj <= ol
  <2>1. j = l \/ o[j] < o[l] \/ o[j] = o[l]
    BY <1>1, TurnsGoOn
  <2> QED
    BY ONLY <2>1, oj = o[j], ol = o[l], oj \in Nat, ol \in Nat
<1>4. /\ oi >= 1 /\ (oi <= m => vi + 1 = v0 + oi \/ vi + 1 + m = v0 + oi)
      /\ oj >= 1 /\ (oj <= m => vj + 1 = v0 + oj \/ vj + 1 + m = v0 + oj)
  BY <1>1, TurnsCount
<1>5. ol <= m
  OBVIOUS
<1>6. vi # vj \/ pi # pj
  BY ONLY <1>2, <1>3, <1>4, <1>5, oi \in Nat, oj \in Nat, ol \in Nat, pi \in Nat, pj \in Nat,
          v0 \in 0 .. m - 1, vi \in 0 .. m - 1, vj \in 0 .. m - 1, m \in Nat
<1> QED
  BY ONLY <1>6, vi = v[i], vj = v[j], pi = p[i], pj = p[j]

(***************************************************************************)
(* The blocks begun by the first k bytes of a keystream.                   *)
(***************************************************************************)
Begun(ks, k) == {i \in 1 .. k : ks[i][2] = 0}

LEMMA BegunCounted ==
    ASSUME NEW ks, NEW k \in Nat
    PROVE  /\ Cardinality(Begun(ks, 0)) = 0 /\ Cardinality(Begun(ks, k)) \in Nat
           /\ Cardinality(Begun(ks, k + 1)) = IF ks[k + 1][2] = 0
                                              THEN Cardinality(Begun(ks, k)) + 1
                                              ELSE Cardinality(Begun(ks, k))
<1>1. Begun(ks, 0) = {}
  BY DEF Begun
<1>2. Cardinality(Begun(ks, 0)) = 0
  BY ONLY <1>1, FS_EmptySet
<1>3. IsFiniteSet(Begun(ks, k)) /\ Cardinality(Begun(ks, k)) \in Nat
  <2>1. IsFiniteSet(1 .. k)
    BY FS_Interval
  <2>2. Begun(ks, k) \in SUBSET (1 .. k)
    BY DEF Begun
  <2>3. IsFiniteSet(Begun(ks, k))
    BY ONLY <2>1, <2>2, FS_Subset
  <2> QED
    BY ONLY <2>3, FS_CardinalityType
<1>4. CASE ks[k + 1][2] = 0
  <2>1. Begun(ks, k + 1) = Begun(ks, k) \cup {k + 1} /\ k + 1 \notin Begun(ks, k)
    BY <1>4 DEF Begun
  <2>2. Cardinality(Begun(ks, k) \cup {k + 1}) = Cardinality(Begun(ks, k)) + 1
    BY ONLY <1>3, <2>1, FS_AddElement
  <2> QED
    BY ONLY <1>2, <1>3, <1>4, <2>1, <2>2
<1>5. CASE ks[k + 1][2] # 0
  <2>1. Begun(ks, k + 1) = Begun(ks, k)
    BY <1>5 DEF Begun
  <2> QED
    BY ONLY <1>2, <1>3, <1>5, <2>1
<1> QED
  BY ONLY <1>4, <1>5

(***************************************************************************)
(* A side's keystream, by numbers.                                         *)
(***************************************************************************)
LEMMA KeysTurn ==
    ASSUME NEW ks \in Seq(KeyByte), NEW cs, NEW st, NEW iv \in Counter,
           KeysFollow(ks, cs, st, iv), NEW m \in Nat, NEW v, Numbers(v, m)
    PROVE  Turns(Len(ks), m, [k \in 1 .. Len(ks) |-> v[ks[k][1]]],
                 [k \in 1 .. Len(ks) |-> Cardinality(Begun(ks, k))],
                 [k \in 1 .. Len(ks) |-> ks[k][2]])
<1> PICK l \in Nat : l = Len(ks)
  BY LenProperties
<1> DEFINE num == [k \in 1 .. l |-> v[ks[k][1]]]
           ord == [k \in 1 .. l |-> Cardinality(Begun(ks, k))]
           pos == [k \in 1 .. l |-> ks[k][2]]
<1>1. AES_BLOCKLEN \in Nat
  BY CtrAssumption
<1>2. ASSUME NEW k \in 1 .. l PROVE ks[k][1] \in Counter /\ ks[k][2] \in Nat
  <2>1. ks[k] \in KeyByte
    BY ElementOfSeq
  <2> QED
    BY <1>1, <2>1 DEF KeyByte
<1>3. /\ num \in [1 .. l -> 0 .. m - 1] /\ ord \in [1 .. l -> Nat] /\ pos \in [1 .. l -> Nat]
  BY <1>2, BegunCounted DEF Numbers
<1>4. ASSUME l > 0 PROVE ord[1] = 1
  <2>1. 1 \in 1 .. l
    BY ONLY <1>4, l \in Nat
  <2>2. ks[1] = <<iv, 0>>
    BY <2>1 DEF KeysFollow, KeyAt
  <2>3. ks[0 + 1][2] = 0 /\ 0 + 1 = 1
    BY ONLY <2>2
  <2>4. Cardinality(Begun(ks, 0 + 1)) = 0 + 1
    BY ONLY <2>3, 0 \in Nat, BegunCounted
  <2> QED
    BY ONLY <2>1, <2>3, <2>4
<1>5. ASSUME NEW k \in 1 .. l - 1
      PROVE  \/ pos[k + 1] = 0 /\ ord[k + 1] = ord[k] + 1 /\ num[k + 1] = After(num[k], m)
             \/ pos[k + 1] = pos[k] + 1 /\ ord[k + 1] = ord[k] /\ num[k + 1] = num[k]
  <2>1. /\ k \in 1 .. l /\ k + 1 \in 1 .. l /\ k \in Nat /\ k + 1 # 1 /\ (k + 1) - 1 = k
    BY ONLY k \in 1 .. l - 1, l \in Nat
  <2>2. \/ ks[k + 1] = <<Incremented(ks[k][1]), 0>>
        \/ ks[k + 1] = <<ks[k][1], ks[k][2] + 1>>
    BY <2>1 DEF KeysFollow, KeyAt, FollowingKey
  <2>3. ks[k][1] \in Counter /\ ks[k][2] \in Nat
    BY <1>2, <2>1
  <2>4. /\ pos[k + 1] = ks[k + 1][2] /\ pos[k] = ks[k][2]
        /\ num[k + 1] = v[ks[k + 1][1]] /\ num[k] = v[ks[k][1]]
        /\ ord[k] = Cardinality(Begun(ks, k)) /\ ord[k + 1] = Cardinality(Begun(ks, k + 1))
    BY ONLY <2>1
  <2> HIDE DEF num, ord, pos
  <2>5. ord[k + 1] = IF pos[k + 1] = 0 THEN ord[k] + 1 ELSE ord[k]
    BY ONLY <2>1, <2>4, BegunCounted
  <2>6. CASE ks[k + 1] = <<Incremented(ks[k][1]), 0>>
    <3>1. ks[k + 1][1] = Incremented(ks[k][1]) /\ ks[k + 1][2] = 0
      BY ONLY <2>6
    <3> QED
      BY <2>3, <2>4, <2>5, <3>1 DEF Numbers
  <2>7. CASE ks[k + 1] = <<ks[k][1], ks[k][2] + 1>>
    <3>1. ks[k + 1][1] = ks[k][1] /\ ks[k + 1][2] = ks[k][2] + 1
      BY ONLY <2>7
    <3>2. ks[k][2] + 1 # 0
      BY ONLY <2>3
    <3> QED
      BY ONLY <2>4, <2>5, <3>1, <3>2
  <2> QED
    BY ONLY <2>2, <2>6, <2>7
<1> HIDE DEF num, ord, pos
<1>6. Turns(l, m, num, ord, pos)
  BY ONLY <1>3, <1>4, <1>5 DEF Turns
<1> QED
  BY <1>6 DEF num, ord, pos

(***************************************************************************)
(* No two bytes of a side's keystream are the same.                        *)
(***************************************************************************)
LEMMA CtrInvUsesOnce == CtrInv => KeystreamUsedOnce
<1> SUFFICES ASSUME CtrInv, NEW s \in Sides, BlocksUsed(s) <= Cardinality(Counter),
                    NEW i \in 1 .. Len(keystream[s]), NEW j \in 1 .. Len(keystream[s]), i # j
             PROVE  keystream[s][i] # keystream[s][j]
  BY DEF KeystreamUsedOnce
<1>1. PICK iv \in Counter, st \in [Sides -> Seq(Nat)] : \A r \in Sides : SideInv(r, st[r], iv)
  BY DEF CtrInv
<1>2. PICK m \in Nat : /\ \E v : Numbers(v, m)
                       /\ IsFiniteSet(Counter) /\ Cardinality(Counter) <= m
  BY CountersNumbered
<1>3. PICK v : Numbers(v, m)
  BY <1>2
<1> PICK ks \in Seq(KeyByte) : ks = keystream[s]
  BY DEF CtrInv, CtrTypeOK
<1> PICK l \in Nat : l = Len(ks)
  BY LenProperties
<1> DEFINE num == [k \in 1 .. l |-> v[ks[k][1]]]
           ord == [k \in 1 .. l |-> Cardinality(Begun(ks, k))]
           pos == [k \in 1 .. l |-> ks[k][2]]
<1>4. Turns(l, m, num, ord, pos)
  <2>1. KeysFollow(ks, calls[s], st[s], iv)
    BY <1>1 DEF SideInv, Side
  <2> QED
    BY <1>3, <2>1, KeysTurn
<1>5. i \in 1 .. l /\ j \in 1 .. l /\ l \in 1 .. l /\ (j \in i + 1 .. l \/ i \in j + 1 .. l)
  <2>1. i \in 1 .. l /\ j \in 1 .. l /\ i # j
    OBVIOUS
  <2> QED
    BY ONLY <2>1, l \in Nat
<1>6. ord[l] <= m
  <2>1. ord[l] = Cardinality(Begun(ks, l)) /\ Begun(ks, l) = {k \in 1 .. l : ks[k][2] = 0}
    BY ONLY <1>5 DEF Begun
  <2>2. ord[l] <= Cardinality(Counter)
    BY <2>1 DEF BlocksUsed
  <2>3. PICK a \in Nat, b \in Nat : a = ord[l] /\ b = Cardinality(Counter)
    <3>1. ord[l] \in Nat
      BY ONLY <2>1, l \in Nat, BegunCounted
    <3>2. Cardinality(Counter) \in Nat
      BY <1>2, FS_CardinalityType
    <3> QED
      BY ONLY <3>1, <3>2
  <2>4. a <= m
    <3>1. a <= b /\ b <= m
      BY ONLY <1>2, <2>2, <2>3
    <3> QED
      BY ONLY <3>1, a \in Nat, b \in Nat, m \in Nat
  <2> QED
    BY ONLY <2>3, <2>4
<1> HIDE DEF num, ord, pos
<1>7. num[i] # num[j] \/ pos[i] # pos[j]
  <2>1. CASE j \in i + 1 .. l
    BY ONLY <1>4, <1>5, <1>6, <2>1, TurnsDiffer, l \in Nat, m \in Nat
  <2>2. CASE i \in j + 1 .. l
    BY ONLY <1>4, <1>5, <1>6, <2>2, TurnsDiffer, l \in Nat, m \in Nat
  <2> QED
    BY ONLY <1>5, <2>1, <2>2
<1>8. num[i] = v[ks[i][1]] /\ num[j] = v[ks[j][1]] /\ pos[i] = ks[i][2] /\ pos[j] = ks[j][2]
  BY ONLY <1>5 DEF num, pos
<1>9. ks[i] # ks[j]
  BY ONLY <1>7, <1>8
<1> QED
  BY ONLY <1>9, ks = keystream[s]

(***************************************************************************)
(* No byte of the keystream that AES_CTR_xcrypt_buffer makes is used twice *)
(* before every value of the counter was used: wherever the counter began, *)
(* however it carries and wraps, and however the message is split over     *)
(* calls.                                                                  *)
(***************************************************************************)
THEOREM KeystreamNeverReused == CtrSpec => []KeystreamUsedOnce
<1>1. CtrSpec => []CtrInv
  BY CtrInitially, CtrStep, PTL DEF CtrSpec
<1> QED
  BY <1>1, CtrInvUsesOnce, PTL

(***************************************************************************)
(* The same while the other mode may be chosen instead.                    *)
(***************************************************************************)
THEOREM ModesKeystreamNeverReused == ModesSpec => []KeystreamUsedOnce
<1>1. ModesInit => CtrInv
  BY CtrInitially DEF ModesInit
<1>2. CtrInv /\ [ModesNext]_modesVars => CtrInv'
  <2>1. [ModesNext]_modesVars => [CtrNext]_ctrVars
    BY DEF ModesNext, modesVars
  <2> QED
    BY <2>1, CtrStep
<1> QED
  BY <1>1, <1>2, CtrInvUsesOnce, PTL DEF ModesSpec

=============================================================================
