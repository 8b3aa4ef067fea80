------------------------- MODULE Sha256StreamProofs -------------------------
(***************************************************************************)
(* Theorems about a hash context over its calls, for every set of sizes a  *)
(* call may add and every number and length of messages.                   *)
(***************************************************************************)
EXTENDS Sha256Stream, SequenceTheorems, TLAPS

(***************************************************************************)
(* STORE64H stores eight bytes: its recursive function is one whose values *)
(* can be written out.                                                     *)
(***************************************************************************)
LEMMA LengthBytesTyped ==
    ASSUME NEW n \in Nat
    PROVE  LengthBytes(n) \in Seq(Octet) /\ Len(LengthBytes(n)) = 8
  <1> DEFINE q(m)    == m \div 256
             Rest(f) == f = [i \in 1 .. 8 |-> IF i = 8 THEN n ELSE q(f[i + 1])]
             rest    == CHOOSE f : Rest(f)
  <1>1. LengthBytes(n) = [i \in 1 .. 8 |-> rest[i] % 256]
    BY DEF LengthBytes
  <1>2. \A m \in Nat : q(m) \in Nat
    OBVIOUS
  <1> HIDE DEF q
  <1>3. Rest(<<q(q(q(q(q(q(q(n))))))), q(q(q(q(q(q(n)))))), q(q(q(q(q(n))))), q(q(q(q(n)))),
               q(q(q(n))), q(q(n)), q(n), n>>)
    <2> DEFINE f == <<q(q(q(q(q(q(q(n))))))), q(q(q(q(q(q(n)))))), q(q(q(q(q(n))))),
                      q(q(q(q(n)))), q(q(q(n))), q(q(n)), q(n), n>>
               g == [i \in 1 .. 8 |-> IF i = 8 THEN n ELSE q(f[i + 1])]
    <2>1. f = [i \in 1 .. 8 |-> f[i]]
      OBVIOUS
    <2>2. /\ f[1] = q(f[2]) /\ f[2] = q(f[3]) /\ f[3] = q(f[4]) /\ f[4] = q(f[5])
          /\ f[5] = q(f[6]) /\ f[6] = q(f[7]) /\ f[7] = q(f[8]) /\ f[8] = n
      OBVIOUS
    <2> HIDE DEF f
    <2>3. ASSUME NEW i \in 1 .. 8 PROVE f[i] = g[i]
      <3>1. i \in {1, 2, 3, 4, 5, 6, 7, 8}
        OBVIOUS
      <3>2. CASE i = 8
        BY <2>2, <3>2
      <3>3. CASE i # 8
        <4>1. f[i] = q(f[i + 1])
          BY <2>2, <3>1, <3>3
        <4> QED
          BY <3>3, <4>1
      <3> QED
        BY <3>2, <3>3
    <2>4. f = g
      BY <2>1, <2>3
    <2> QED
      BY <2>4 DEF f
  <1>4. Rest(rest)
    BY <1>3
  <1> HIDE DEF rest
  <1>5. \A i \in 1 .. 8 : rest[i] \in Nat
    <2>1. rest[8] = n
      BY <1>4
    <2>2. \A i \in 1 .. 7 : rest[i] = q(rest[i + 1])
      BY <1>4
    <2> HIDE DEF Rest
    <2>3. rest[7] = q(rest[8]) /\ rest[6] = q(rest[7]) /\ rest[5] = q(rest[6])
      BY <2>2
    <2>4. rest[4] = q(rest[5]) /\ rest[3] = q(rest[4]) /\ rest[2] = q(rest[3])
      BY <2>2
    <2>5. rest[1] = q(rest[2])
      BY <2>2
    <2>6. rest[7] \in Nat /\ rest[6] \in Nat /\ rest[5] \in Nat
      BY <1>2, <2>1, <2>3
    <2>7. rest[4] \in Nat /\ rest[3] \in Nat /\ rest[2] \in Nat /\ rest[1] \in Nat
      BY <1>2, <2>4, <2>5, <2>6
    <2>8. \A i \in 1 .. 8 : i \in {1, 2, 3, 4, 5, 6, 7, 8}
      OBVIOUS
    <2> QED
      BY <2>1, <2>6, <2>7, <2>8
  <1>6. \A i \in 1 .. 8 : rest[i] % 256 \in Octet
    BY <1>5 DEF Octet
  <1> QED
    BY <1>1, <1>6

(***************************************************************************)
(* Taking n bytes from the front of a run.                                 *)
(***************************************************************************)
LEMMA FrontTaken ==
    ASSUME NEW s \in Seq(Octet), NEW n \in 0 .. Len(s)
    PROVE  /\ SubSeq(s, 1, n) \in Seq(Octet) /\ Len(SubSeq(s, 1, n)) = n
           /\ SubSeq(s, n + 1, Len(s)) \in Seq(Octet)
           /\ Len(SubSeq(s, n + 1, Len(s))) = Len(s) - n
           /\ SubSeq(s, 1, n) \o SubSeq(s, n + 1, Len(s)) = s
  <1>1. PICK total \in Nat : total = Len(s)
    BY LenProperties
  <1>2. SubSeq(s, 1, n) \o SubSeq(s, n + 1, Len(s)) = SubSeq(s, 1, Len(s))
    <2>1. 1 \in 1 .. Len(s) + 1 /\ n \in 1 - 1 .. Len(s) /\ Len(s) \in n .. Len(s)
      BY <1>1
    <2> QED
      BY <2>1, ConcatAdjacentSubSeq
  <1>3. SubSeq(s, 1, Len(s)) = s
    BY SubSeqFull
  <1>4. /\ \A i \in 1 .. n : s[i] \in Octet
        /\ \A i \in n + 1 .. total : s[i] \in Octet
    BY <1>1, ElementOfSeq
  <1>5. /\ SubSeq(s, 1, n) \in Seq(Octet) /\ Len(SubSeq(s, 1, n)) = n
    BY <1>1, <1>4, SubSeqProperties
  <1>6. /\ SubSeq(s, n + 1, total) \in Seq(Octet)
        /\ Len(SubSeq(s, n + 1, total)) = total - n
    BY <1>1, <1>4, SubSeqProperties
  <1> QED
    BY <1>1, <1>2, <1>3, <1>5, <1>6

(***************************************************************************)
(* The elements at the front of a sequence.                                *)
(***************************************************************************)
LEMMA FrontBytes ==
    ASSUME NEW s \in Seq(Octet), NEW n \in 0 .. Len(s), NEW i \in 1 .. n
    PROVE  SubSeq(s, 1, n)[i] = s[i]
  <1>1. PICK total \in Nat : total = Len(s)
    BY LenProperties
  <1>2. n <= total
    BY <1>1
  <1> QED
    BY ONLY <1>1, <1>2, s \in Seq(Octet), n \in Nat, i \in 1 .. n

(***************************************************************************)
(* Two runs of bytes, one behind the other, are a run.                     *)
(***************************************************************************)
LEMMA RunsJoin ==
    ASSUME NEW s \in Seq(Octet), NEW t \in Seq(Octet)
    PROVE  s \o t \in Seq(Octet) /\ Len(s \o t) = Len(s) + Len(t)
  BY ConcatProperties

(***************************************************************************)
(* Of three runs it does not matter which two are joined first.            *)
(***************************************************************************)
LEMMA RunsAssociate ==
    ASSUME NEW s \in Seq(Octet), NEW t \in Seq(Octet), NEW u \in Seq(Octet)
    PROVE  (s \o t) \o u = s \o (t \o u)
  BY ConcatAssociative

(***************************************************************************)
(* What is left over whole blocks is the remainder.                        *)
(***************************************************************************)
LEMMA Remainder ==
    ASSUME NEW k \in Int, NEW rest \in 0 .. 63
    PROVE  (64 * k + rest) % 64 = rest
  OBVIOUS

(***************************************************************************)
(* A buffer is a run of BLOCK_SIZE bytes.                                  *)
(***************************************************************************)
LEMMA BufferRun ==
    ASSUME NEW block \in [1 .. BLOCK_SIZE -> Octet]
    PROVE  block \in Seq(Octet) /\ Len(block) = 64
  <1>1. block = [i \in 1 .. 64 |-> block[i]] /\ \A i \in 1 .. 64 : block[i] \in Octet
    BY DEF BLOCK_SIZE
  <1> QED
    BY <1>1

(***************************************************************************)
(* What the buffer holds after some bytes went into it.                    *)
(***************************************************************************)
LEMMA FilledFacts ==
    ASSUME StreamTypeOK, input # <<>>
    PROVE  /\ Taken \in 1 .. Len(input) /\ curlen + Taken <= 64
           /\ curlen + Taken < 64 => Taken = Len(input)
           /\ Filled \in [1 .. BLOCK_SIZE -> Octet]
           /\ SubSeq(Filled, 1, curlen + Taken)
                 = SubSeq(buf, 1, curlen) \o SubSeq(input, 1, Taken)
  <1>1. PICK n \in Nat : n = Len(input) /\ n > 0
    BY EmptySeq DEF StreamTypeOK
  <1>2. PICK c \in 0 .. 63 : c = curlen
    BY DEF StreamTypeOK, BLOCK_SIZE
  <1>3. PICK t \in Nat : t = Taken /\ t \in 1 .. n /\ c + t <= 64 /\ (c + t < 64 => t = n)
    <2>1. Taken = IF n < 64 - c THEN n ELSE 64 - c
      BY <1>1, <1>2 DEF Taken, Room, BLOCK_SIZE
    <2> QED
      BY <1>1, <1>2, <2>1
  <1> DEFINE waiting == SubSeq(buf, 1, c)
             taken   == SubSeq(input, 1, t)
             behind  == SubSeq(buf, c + t + 1, 64)
             front   == waiting \o taken
  <1>4. buf \in Seq(Octet) /\ Len(buf) = 64 /\ input \in Seq(Octet)
    BY BufferRun DEF StreamTypeOK
  <1>5. waiting \in Seq(Octet) /\ Len(waiting) = c
    <2>1. c \in 0 .. Len(buf)
      BY <1>2, <1>4
    <2> QED
      BY <1>4, <2>1, FrontTaken
  <1>6. taken \in Seq(Octet) /\ Len(taken) = t
    BY <1>1, <1>3, <1>4, FrontTaken
  <1>7. behind \in Seq(Octet) /\ Len(behind) = 64 - (c + t)
    <2>1. c + t \in 0 .. Len(buf)
      BY <1>2, <1>3, <1>4
    <2> QED
      BY <1>4, <2>1, FrontTaken
  <1>8. Filled = front \o behind
    BY <1>2, <1>3 DEF Filled, BLOCK_SIZE
  <1> HIDE DEF waiting, taken, behind
  <1>9. front \in Seq(Octet) /\ Len(front) = c + t
    BY <1>2, <1>3, <1>5, <1>6, ConcatProperties
  <1> HIDE DEF front
  <1>10. front \o behind \in Seq(Octet) /\ Len(front \o behind) = 64
    <2>1. Len(front \o behind) = Len(front) + Len(behind) /\ front \o behind \in Seq(Octet)
      BY <1>7, <1>9, ConcatProperties
    <2>2. (c + t) + (64 - (c + t)) = 64
      BY <1>2, <1>3
    <2> QED
      BY <1>7, <1>9, <2>1, <2>2
  <1>11. Filled \in [1 .. BLOCK_SIZE -> Octet]
    BY <1>8, <1>10, LenProperties DEF BLOCK_SIZE
  <1>12. SubSeq(front \o behind, 1, c + t) = front
    <2>1. c + t \in 1 .. Len(front) /\ 1 \in 1 .. Len(front)
      BY <1>2, <1>3, <1>9
    <2>2. SubSeq(front \o behind, 1, c + t) = SubSeq(front, 1, c + t)
      BY <1>7, <1>9, <2>1, SubSeqOfConcat1
    <2> QED
      BY <1>9, <2>2, SubSeqFull
  <1> QED
    BY <1>1, <1>2, <1>3, <1>8, <1>11, <1>12 DEF front, waiting, taken

-----------------------------------------------------------------------------

(***************************************************************************)
(* The inductive invariant: the three invariants and that messages are     *)
(* counted.                                                                *)
(***************************************************************************)
StreamInv ==
    /\ StreamTypeOK /\ messages \in Nat
    /\ MessageInThreeParts /\ HashedPadded

(***************************************************************************)
(* Before it is initialised, a context has hashed nothing.                 *)
(***************************************************************************)
LEMMA InitStreamInv == StreamInit => StreamInv
  <1> SUFFICES ASSUME StreamInit PROVE StreamInv
    OBVIOUS
  <1>1. <<>> \in Seq(Octet)
    OBVIOUS
  <1>2. buf \in [1 .. BLOCK_SIZE -> Octet]
    <2>1. PICK b \in {0, 170} : buf = [i \in 1 .. BLOCK_SIZE |-> b]
      BY DEF StreamInit
    <2>2. b \in Octet
      BY DEF Octet
    <2> QED
      BY <2>1, <2>2
  <1> QED
    BY <1>1, <1>2 DEF StreamInit, StreamInv, StreamTypeOK, MessageInThreeParts,
       HashedPadded, BLOCK_SIZE

(***************************************************************************)
(* Sha256Initialise begins a message with nothing of the one before it.    *)
(***************************************************************************)
LEMMA InitialiseStreamInv == StreamInv /\ Sha256Initialise => StreamInv'
  <1> SUFFICES ASSUME StreamInv, Sha256Initialise PROVE StreamInv'
    OBVIOUS
  <1>1. /\ calling' = "between" /\ curlen' = 0 /\ length' = 0 /\ hashed' = <<>>
        /\ message' = <<>> /\ messages' = messages + 1 /\ buf' = buf
        /\ input' = <<>>
    BY DEF Sha256Initialise, StreamInv, StreamTypeOK
  <1>2. <<>> \in Seq(Octet) /\ Len(<<>>) = 0
    OBVIOUS
  <1>3. SubSeq(buf, 1, 0) = <<>>
    BY SubSeqEmpty
  <1>4. <<>> \o <<>> \o <<>> = <<>>
    BY ConcatEmptySeq, <1>2
  <1>5. StreamTypeOK' /\ messages' \in Nat /\ HashedPadded'
    BY <1>1, <1>2 DEF StreamInv, StreamTypeOK, HashedPadded, BLOCK_SIZE
  <1>6. MessageInThreeParts'
    BY <1>1, <1>2, <1>3, <1>4 DEF MessageInThreeParts, BLOCK_SIZE
  <1> QED
    BY <1>5, <1>6 DEF StreamInv

(***************************************************************************)
(* Sha256Update is given bytes, all of them still to be taken.             *)
(***************************************************************************)
LEMMA UpdateStreamInv ==
    ASSUME StreamInv, NEW n \in UpdateSizes, Sha256Update(n)
    PROVE  StreamInv'
  <1>1. /\ calling = "between" /\ calling' = "update"
        /\ input' = NextBytes(n) /\ message' = message \o NextBytes(n)
        /\ UNCHANGED <<curlen, length, buf, hashed, messages>>
    BY DEF Sha256Update
  <1>2. n \in Nat /\ message \in Seq(Octet) /\ hashed \in Seq(Octet) /\ input = <<>>
    BY <1>1, StreamAssumption DEF StreamInv, StreamTypeOK
  <1>3. NextBytes(n) \in Seq(Octet)
    <2>1. Len(message) \in Nat /\ messages \in Nat
      BY <1>2, LenProperties DEF StreamInv
    <2>2. ASSUME NEW i \in 1 .. n
          PROVE  (100 * messages + Len(message) + i) % 256 \in Octet
      <3>1. 100 * messages + Len(message) + i \in Nat
        BY <1>2, <2>1
      <3>2. \A m \in Nat : m % 256 \in Octet
        BY DEF Octet
      <3> QED
        BY <3>1, <3>2
    <2> QED
      BY <1>2, <2>2 DEF NextBytes
  <1> DEFINE waiting == SubSeq(buf, 1, curlen)
  <1>4. waiting \in Seq(Octet)
    <2>1. buf \in Seq(Octet) /\ Len(buf) = 64
      BY BufferRun DEF StreamInv, StreamTypeOK
    <2>2. curlen \in 0 .. Len(buf)
      BY <2>1 DEF StreamInv, StreamTypeOK, BLOCK_SIZE
    <2> QED
      BY <2>1, <2>2, FrontTaken
  <1>5. hashed \o waiting = message
    <2>1. hashed \o waiting \o <<>> = message
      BY <1>1, <1>2 DEF StreamInv, MessageInThreeParts
    <2>2. hashed \o waiting \in Seq(Octet)
      BY <1>2, <1>4, ConcatProperties
    <2> QED
      BY <2>1, <2>2, ConcatEmptySeq
  <1>6. StreamTypeOK' /\ messages' \in Nat
    <2>1. message' \in Seq(Octet)
      BY <1>1, <1>2, <1>3, ConcatProperties
    <2> QED
      BY <1>1, <1>3, <2>1 DEF StreamInv, StreamTypeOK
  <1>7. MessageInThreeParts' /\ HashedPadded'
    BY <1>1, <1>5 DEF StreamInv, MessageInThreeParts, HashedPadded
  <1> QED
    BY <1>6, <1>7 DEF StreamInv

(***************************************************************************)
(* HashBlock moves a block from what is to be taken to what is hashed.     *)
(***************************************************************************)
LEMMA HashBlockStreamInv == StreamInv /\ HashBlock => StreamInv'
  <1> SUFFICES ASSUME StreamInv, HashBlock PROVE StreamInv'
    OBVIOUS
  <1>1. PICK n \in Nat : n = Len(input) /\ n >= 64
    BY LenProperties DEF StreamInv, StreamTypeOK, HashBlock, BLOCK_SIZE
  <1>2. /\ curlen = 0 /\ length' = length + 512
        /\ hashed' = hashed \o SubSeq(input, 1, 64)
        /\ input' = SubSeq(input, 65, n)
        /\ UNCHANGED <<calling, curlen, buf, message, messages>>
    BY <1>1 DEF HashBlock, BLOCK_SIZE
  <1>3. calling = "update" /\ input \in Seq(Octet) /\ hashed \in Seq(Octet)
    BY <1>1 DEF StreamInv, StreamTypeOK
  <1> DEFINE block == SubSeq(input, 1, 64)
             rest  == SubSeq(input, 65, n)
  <1>4. /\ block \in Seq(Octet) /\ Len(block) = 64
        /\ rest \in Seq(Octet) /\ block \o rest = input
    <2>1. PICK k \in 0 .. Len(input) : k = 64
      BY <1>1
    <2>2. /\ SubSeq(input, 1, k) \in Seq(Octet) /\ Len(SubSeq(input, 1, k)) = k
          /\ SubSeq(input, k + 1, Len(input)) \in Seq(Octet)
          /\ SubSeq(input, 1, k) \o SubSeq(input, k + 1, Len(input)) = input
      BY <1>3, FrontTaken
    <2>3. block = SubSeq(input, 1, k) /\ rest = SubSeq(input, k + 1, Len(input))
      BY <1>1, <2>1
    <2> HIDE DEF block, rest
    <2> QED
      BY <2>1, <2>2, <2>3
  <1> HIDE DEF block, rest
  <1>5. hashed' \in Seq(Octet) /\ Len(hashed') = Len(hashed) + 64
    BY <1>2, <1>3, <1>4, ConcatProperties DEF block
  <1>6. Len(hashed) \in Nat
    BY <1>3, LenProperties
  <1>7. StreamTypeOK' /\ messages' \in Nat
    <2>1. input' \in Seq(Octet)
      BY <1>2, <1>4 DEF rest
    <2>2. length' \in Nat
      BY <1>2 DEF StreamInv, StreamTypeOK
    <2> QED
      BY <1>2, <1>3, <1>5, <2>1, <2>2 DEF StreamInv, StreamTypeOK
  <1>8. hashed' \o <<>> \o input' = message
    <2>1. hashed \o <<>> \o input = message
      <3>1. SubSeq(buf, 1, curlen) = <<>>
        BY <1>2, SubSeqEmpty
      <3> QED
        BY <1>3, <3>1 DEF StreamInv, MessageInThreeParts
    <2>2. hashed \o input = message
      BY <1>3, <2>1, ConcatEmptySeq
    <2>3. hashed' \o <<>> = hashed'
      BY <1>5, ConcatEmptySeq
    <2>4. (hashed \o block) \o rest = hashed \o (block \o rest)
      <3>1. hashed \in Seq(Octet) /\ block \in Seq(Octet) /\ rest \in Seq(Octet)
        BY <1>3, <1>4
      <3> QED
        BY ONLY <3>1, ConcatAssociative
    <2> QED
      BY <1>2, <1>4, <2>2, <2>3, <2>4 DEF block, rest
  <1>9. MessageInThreeParts'
    <2>1. SubSeq(buf', 1, curlen') = <<>>
      BY <1>2, SubSeqEmpty
    <2>2. length = 8 * Len(hashed) /\ Len(hashed) % 64 = 0
      BY <1>3 DEF StreamInv, MessageInThreeParts, BLOCK_SIZE
    <2>3. length' = 8 * Len(hashed') /\ Len(hashed') % 64 = 0
      BY <1>2, <1>5, <1>6, <2>2
    <2> QED
      BY <1>2, <1>8, <2>1, <2>3 DEF MessageInThreeParts, BLOCK_SIZE
  <1>10. HashedPadded'
    BY <1>2, <1>3 DEF HashedPadded
  <1> QED
    BY <1>7, <1>9, <1>10 DEF StreamInv

(***************************************************************************)
(* Buffer moves bytes into buf, and from there, when it is full, to what   *)
(* is hashed.                                                              *)
(***************************************************************************)
LEMMA BufferStreamInv == StreamInv /\ Buffer => StreamInv'
  <1> SUFFICES ASSUME StreamInv, Buffer PROVE StreamInv'
    OBVIOUS
  <1>1. /\ input # <<>> /\ buf' = Filled
        /\ input' = SubSeq(input, Taken + 1, Len(input))
        /\ UNCHANGED <<calling, message, messages>>
        /\ curlen + Taken = 64 =>
              hashed' = hashed \o buf' /\ length' = length + 512 /\ curlen' = 0
        /\ curlen + Taken # 64 =>
              curlen' = curlen + Taken /\ UNCHANGED <<hashed, length>>
    BY DEF Buffer, BLOCK_SIZE
  <1>2. /\ calling = "update" /\ input \in Seq(Octet) /\ hashed \in Seq(Octet)
        /\ curlen \in 0 .. 63 /\ buf \in Seq(Octet) /\ Len(buf) = 64
    BY <1>1, BufferRun DEF StreamInv, StreamTypeOK, BLOCK_SIZE
  <1> DEFINE waiting == SubSeq(buf, 1, curlen)
             taken   == SubSeq(input, 1, Taken)
             rest    == SubSeq(input, Taken + 1, Len(input))
             front   == waiting \o taken
  <1>3. /\ Taken \in 1 .. Len(input) /\ curlen + Taken <= 64
        /\ Filled \in [1 .. BLOCK_SIZE -> Octet]
        /\ SubSeq(Filled, 1, curlen + Taken) = front
    BY <1>1, FilledFacts DEF StreamInv
  <1>4. PICK n \in Nat : n = curlen + Taken /\ n \in 1 .. 64 /\ Len(input) \in Nat
    <2>1. Len(input) \in Nat
      BY <1>2, LenProperties
    <2> QED
      BY <1>2, <1>3, <2>1
  <1>5. /\ taken \in Seq(Octet) /\ rest \in Seq(Octet) /\ taken \o rest = input
    <2>1. Taken \in 0 .. Len(input)
      BY <1>3, <1>4
    <2> QED
      BY <1>2, <2>1, FrontTaken
  <1>6. waiting \in Seq(Octet)
    <2>1. curlen \in 0 .. Len(buf)
      BY <1>2
    <2> QED
      BY <1>2, <2>1, FrontTaken
  <1>7. (hashed \o waiting) \o input = message
    BY <1>2 DEF StreamInv, MessageInThreeParts
  <1> HIDE DEF waiting, taken, rest
  <1>8. (hashed \o front) \o rest = message
    <2>1. hashed \o (waiting \o taken) = (hashed \o waiting) \o taken
      <3>1. hashed \in Seq(Octet) /\ waiting \in Seq(Octet) /\ taken \in Seq(Octet)
        BY <1>2, <1>5, <1>6
      <3> QED
        BY ONLY <3>1, ConcatAssociative, SMTT(30)
    <2>2. hashed \o waiting \in Seq(Octet)
      BY <1>2, <1>6, ConcatProperties
    <2>3. ((hashed \o waiting) \o taken) \o rest = (hashed \o waiting) \o (taken \o rest)
      <3>1. PICK h \in Seq(Octet) : h = hashed \o waiting
        BY <2>2
      <3>2. taken \in Seq(Octet) /\ rest \in Seq(Octet)
        BY <1>5
      <3>3. (h \o taken) \o rest = h \o (taken \o rest)
        BY ONLY <3>2, h \in Seq(Octet), ConcatAssociative, SMTT(30)
      <3> QED
        BY <3>1, <3>3
    <2> QED
      BY <1>5, <1>7, <2>1, <2>3
  <1>9. front \in Seq(Octet)
    BY <1>5, <1>6, ConcatProperties
  <1> HIDE DEF front
  <1>10. /\ buf' \in [1 .. BLOCK_SIZE -> Octet]
         /\ buf' \in Seq(Octet) /\ Len(buf') = 64
         /\ SubSeq(buf', 1, n) = front
    BY <1>1, <1>3, <1>4, BufferRun
  <1>11. length = 8 * Len(hashed) /\ Len(hashed) % 64 = 0 /\ Len(hashed) \in Nat
    <2>1. Len(hashed) \in Nat
      BY <1>2, LenProperties
    <2> QED
      BY <1>2, <2>1 DEF StreamInv, MessageInThreeParts, BLOCK_SIZE
  <1>12. input' = rest
    BY <1>1 DEF rest
  <1>13. CASE n = 64
    <2>1. hashed' = hashed \o buf' /\ length' = length + 512 /\ curlen' = 0
      BY <1>1, <1>4, <1>13
    <2>2. hashed' \in Seq(Octet) /\ Len(hashed') = Len(hashed) + 64
      <3>1. hashed \in Seq(Octet) /\ buf' \in Seq(Octet) /\ Len(buf') = 64
        BY <1>2, <1>10
      <3>2. PICK h \in Seq(Octet), b \in Seq(Octet) : h = hashed /\ b = buf'
        BY <3>1
      <3>3. h \o b \in Seq(Octet) /\ Len(h \o b) = Len(h) + Len(b)
        BY ConcatProperties
      <3> QED
        BY <2>1, <3>1, <3>2, <3>3
    <2>3. front = buf'
      BY <1>10, <1>13, SubSeqFull
    <2>4. SubSeq(buf', 1, curlen') = <<>>
      BY <2>1, SubSeqEmpty
    <2>5. hashed' \o <<>> = hashed'
      BY <2>2, ConcatEmptySeq
    <2>6. hashed' \o SubSeq(buf', 1, curlen') \o input' = message
      BY <1>8, <1>12, <2>1, <2>3, <2>4, <2>5
    <2>7. length' = 8 * Len(hashed') /\ Len(hashed') % 64 = 0 /\ length' \in Nat
      BY <1>11, <2>1, <2>2
    <2>8. StreamTypeOK' /\ messages' \in Nat
      <3>1. input' \in Seq(Octet) /\ buf' \in [1 .. BLOCK_SIZE -> Octet]
        BY <1>5, <1>10, <1>12
      <3>2. curlen' \in 0 .. BLOCK_SIZE - 1
        BY <2>1 DEF BLOCK_SIZE
      <3> QED
        BY <1>1, <1>2, <2>2, <2>7, <3>1, <3>2 DEF StreamInv, StreamTypeOK
    <2>9. MessageInThreeParts' /\ HashedPadded'
      BY <1>1, <1>2, <2>6, <2>7 DEF MessageInThreeParts, HashedPadded, BLOCK_SIZE
    <2> QED
      BY <2>8, <2>9 DEF StreamInv
  <1>14. CASE n # 64
    <2>1. curlen' = n /\ UNCHANGED <<hashed, length>> /\ n \in 0 .. 63
      BY <1>1, <1>4, <1>14
    <2>2. hashed' \o SubSeq(buf', 1, curlen') \o input' = message
      BY <1>8, <1>10, <1>12, <2>1
    <2>3. StreamTypeOK' /\ messages' \in Nat
      <3>1. input' \in Seq(Octet) /\ buf' \in [1 .. BLOCK_SIZE -> Octet]
        BY <1>5, <1>10, <1>12
      <3>2. curlen' \in 0 .. BLOCK_SIZE - 1
        BY <2>1 DEF BLOCK_SIZE
      <3> QED
        BY <1>1, <1>2, <2>1, <3>1, <3>2 DEF StreamInv, StreamTypeOK
    <2>4. MessageInThreeParts' /\ HashedPadded'
      BY <1>1, <1>2, <1>11, <2>1, <2>2 DEF MessageInThreeParts, HashedPadded, BLOCK_SIZE
    <2> QED
      BY <2>3, <2>4 DEF StreamInv
  <1> QED
    BY <1>13, <1>14

(***************************************************************************)
(* When nothing is left to be taken the call returns.                      *)
(***************************************************************************)
LEMMA ReturnsStreamInv == StreamInv /\ UpdateReturns => StreamInv'
  <1> SUFFICES ASSUME StreamInv, UpdateReturns PROVE StreamInv'
    OBVIOUS
  <1>1. /\ calling = "update" /\ calling' = "between" /\ input = <<>>
        /\ UNCHANGED <<curlen, length, buf, hashed, input, message, messages>>
    BY DEF UpdateReturns
  <1>2. StreamTypeOK' /\ messages' \in Nat
    BY <1>1 DEF StreamInv, StreamTypeOK
  <1>3. MessageInThreeParts' /\ HashedPadded'
    BY <1>1 DEF StreamInv, MessageInThreeParts, HashedPadded
  <1> QED
    BY <1>2, <1>3 DEF StreamInv

-----------------------------------------------------------------------------

(***************************************************************************)
(* The end of a message: buf up to `end', behind the bytes of the message  *)
(* the '1' bit and zeros.                                                  *)
(***************************************************************************)
ClosedUpTo(end, closed, block, c) ==
    /\ closed \in Seq(Octet) /\ Len(closed) = 64
    /\ SubSeq(closed, 1, end) = (SubSeq(block, 1, c) \o <<128>>) \o Zeroes(end - 1 - c)

(***************************************************************************)
(* Sha256Finalise closes the message in buf: the '1' bit fits behind it.   *)
(***************************************************************************)
LEMMA Closed ==
    ASSUME NEW block \in [1 .. BLOCK_SIZE -> Octet], NEW c \in 0 .. 63,
           NEW end \in {56, 64}, c + 1 <= end,
           NEW closed, closed = ZeroedTo([block EXCEPT ![c + 1] = 128], c + 1, end)
    PROVE  ClosedUpTo(end, closed, block, c)
  <1>1. block \in Seq(Octet) /\ Len(block) = 64 /\ DOMAIN block = 1 .. 64
    BY BufferRun DEF BLOCK_SIZE
  <1>2. \A i \in 1 .. 64 : block[i] \in Octet
    BY <1>1, ElementOfSeq
  <1>3. 0 \in Octet /\ 128 \in Octet
    BY DEF Octet
  <1> DEFINE byte(i) == IF i \in c + 2 .. end THEN 0 ELSE IF i = c + 1 THEN 128 ELSE block[i]
  <1>4. closed = [i \in 1 .. 64 |-> byte(i)]
    <2>1. c + 1 \in 1 .. 64
      OBVIOUS
    <2>2. ASSUME NEW i \in 1 .. 64
          PROVE  [block EXCEPT ![c + 1] = 128][i] = IF i = c + 1 THEN 128 ELSE block[i]
      BY <1>1, <2>1
    <2>3. (c + 1) + 1 = c + 2
      OBVIOUS
    <2> QED
      BY <2>2, <2>3 DEF ZeroedTo, BLOCK_SIZE
  <1>5. ASSUME NEW i \in 1 .. 64 PROVE byte(i) \in Octet
    <2>1. block[i] \in Octet
      BY <1>2
    <2> QED
      BY <1>3, <2>1
  <1> HIDE DEF byte
  <1>15. /\ closed \in Seq(Octet) /\ Len(closed) = 64
         /\ \A i \in 1 .. 64 : closed[i] = byte(i) /\ closed[i] \in Octet
    <2>1. ASSUME NEW i \in 1 .. 64 PROVE closed[i] = byte(i) /\ closed[i] \in Octet
      <3>1. closed[i] = byte(i)
        BY <1>4 DEF byte
      <3> QED
        BY <1>5, <3>1, ZenonT(30)
    <2>2. closed = [i \in 1 .. 64 |-> closed[i]]
      BY <1>4
    <2> QED
      BY ONLY <2>1, <2>2
  <1>16. end \in Nat /\ end <= 64 /\ c \in Nat
    OBVIOUS
  <1> DEFINE left  == SubSeq(closed, 1, end)
             text  == SubSeq(block, 1, c)
             bit   == <<128>>
             zeros == Zeroes(end - 1 - c)
             front == text \o bit
             right == front \o zeros
  <1>6. /\ left \in Seq(Octet) /\ Len(left) = end
        /\ \A i \in 1 .. end : left[i] = closed[i]
    <2>1. end \in 0 .. Len(closed)
      BY <1>15, <1>16
    <2>2. left \in Seq(Octet) /\ Len(left) = end
      <3>1. closed \in Seq(Octet)
        BY <1>15
      <3> QED
        BY ONLY <2>1, <3>1, FrontTaken
    <2>3. \A i \in 1 .. end : left[i] = closed[i]
      BY <1>15, <2>1, FrontBytes
    <2> QED
      BY <2>2, <2>3
  <1>7. /\ text \in Seq(Octet) /\ Len(text) = c
        /\ \A i \in 1 .. c : text[i] = block[i]
    <2>1. c \in 0 .. Len(block)
      BY <1>1
    <2>2. text \in Seq(Octet) /\ Len(text) = c
      BY <1>1, <2>1, FrontTaken
    <2>3. \A i \in 1 .. c : text[i] = block[i]
      BY <1>1, <2>1, FrontBytes
    <2> QED
      BY <2>2, <2>3
  <1>8. bit \in Seq(Octet) /\ Len(bit) = 1 /\ bit[1] = 128
    BY <1>3
  <1>9. PICK z \in Nat : z = end - 1 - c
    OBVIOUS
  <1>10. zeros \in Seq(Octet) /\ Len(zeros) = z /\ \A i \in 1 .. z : zeros[i] = 0
    BY <1>3, <1>9 DEF Zeroes
  <1> HIDE DEF left, text, bit, zeros
  <1>11. /\ front \in Seq(Octet) /\ Len(front) = c + 1
         /\ \A i \in 1 .. c + 1 : front[i] = IF i <= c THEN text[i] ELSE bit[i - c]
    <2>1. /\ text \o bit \in Seq(Octet) /\ Len(text \o bit) = Len(text) + Len(bit)
          /\ \A i \in 1 .. Len(text) + Len(bit) :
                (text \o bit)[i] = IF i <= Len(text) THEN text[i] ELSE bit[i - Len(text)]
      <3>1. text \in Seq(Octet) /\ bit \in Seq(Octet)
        BY <1>7, <1>8
      <3> QED
        BY ONLY <3>1, ConcatProperties
    <2> QED
      BY <1>7, <1>8, <2>1
  <1> HIDE DEF front
  <1>12. /\ right \in Seq(Octet) /\ Len(right) = (c + 1) + z
         /\ \A i \in 1 .. (c + 1) + z :
               right[i] = IF i <= c + 1 THEN front[i] ELSE zeros[i - (c + 1)]
    <2>1. /\ front \o zeros \in Seq(Octet)
          /\ Len(front \o zeros) = Len(front) + Len(zeros)
          /\ \A i \in 1 .. Len(front) + Len(zeros) :
                (front \o zeros)[i] = IF i <= Len(front) THEN front[i]
                                      ELSE zeros[i - Len(front)]
      BY <1>10, <1>11, ConcatProperties
    <2> QED
      BY <1>10, <1>11, <2>1
  <1> HIDE DEF right
  <1>13. ASSUME NEW i \in 1 .. end PROVE left[i] = right[i]
    <2>0. i \in 1 .. 64 /\ i \in 1 .. (c + 1) + z
      BY <1>9, <1>16
    <2>1. left[i] = closed[i] /\ closed[i] = byte(i)
      BY <1>6, <1>15, <2>0
    <2>2. right[i] = IF i <= c + 1 THEN front[i] ELSE zeros[i - (c + 1)]
      BY <1>12, <2>0
    <2>3. CASE i <= c
      <3>1. right[i] = text[i] /\ text[i] = block[i]
        BY <1>7, <1>11, <2>2, <2>3
      <3>2. closed[i] = block[i]
        BY <2>1, <2>3 DEF byte
      <3> QED
        BY <2>1, <3>1, <3>2
    <2>4. CASE i = c + 1
      <3>1. right[i] = bit[i - c] /\ i - c = 1
        BY <1>11, <2>2, <2>4
      <3>2. closed[i] = 128
        BY <2>1, <2>4 DEF byte
      <3> QED
        BY <1>8, <2>1, <3>1, <3>2
    <2>5. CASE i > c + 1
      <3>1. right[i] = zeros[i - (c + 1)] /\ i - (c + 1) \in 1 .. z
        <4>1. ~(i <= c + 1)
          BY ONLY <2>5, i \in 1 .. end, end \in {56, 64}, c \in 0 .. 63
        <4>2. i - (c + 1) \in 1 .. z
          BY ONLY <1>9, <2>5, i \in 1 .. end, end \in {56, 64}, c \in 0 .. 63
        <4> QED
          BY ONLY <2>2, <4>1, <4>2, Zenon
      <3>2. closed[i] = 0
        BY <2>1, <2>5 DEF byte
      <3> QED
        BY <1>10, <2>1, <3>1, <3>2
    <2> QED
      BY <2>3, <2>4, <2>5
  <1>14. left = right
    BY <1>6, <1>9, <1>12, <1>13, SeqEqual
  <1> QED
    BY <1>14, <1>15 DEF left, right, front, text, bit, zeros, ClosedUpTo

(***************************************************************************)
(* Runs of zeros.                                                          *)
(***************************************************************************)
LEMMA ZeroesTyped ==
    ASSUME NEW n \in Nat
    PROVE  /\ Zeroes(n) \in Seq(Octet) /\ Len(Zeroes(n)) = n
           /\ \A i \in 1 .. n : Zeroes(n)[i] = 0
  <1>1. 0 \in Octet
    BY DEF Octet
  <1> QED
    BY <1>1 DEF Zeroes

(***************************************************************************)
(* Zeros behind zeros.                                                     *)
(***************************************************************************)
LEMMA ZeroesJoin ==
    ASSUME NEW a \in Nat, NEW b \in Nat
    PROVE  Zeroes(a) \o Zeroes(b) = Zeroes(a + b)
  <1>1. PICK s \in Seq(Octet), t \in Seq(Octet), u \in Seq(Octet) :
           /\ s = Zeroes(a) /\ Len(s) = a /\ \A i \in 1 .. a : s[i] = 0
           /\ t = Zeroes(b) /\ Len(t) = b /\ \A i \in 1 .. b : t[i] = 0
           /\ u = Zeroes(a + b) /\ Len(u) = a + b /\ \A i \in 1 .. a + b : u[i] = 0
    <2>1. a + b \in Nat
      OBVIOUS
    <2> QED
      BY <2>1, ZeroesTyped
  <1>2. /\ s \o t \in Seq(Octet) /\ Len(s \o t) = a + b
        /\ \A i \in 1 .. a + b : (s \o t)[i] = IF i <= a THEN s[i] ELSE t[i - a]
    <2>1. /\ s \o t \in Seq(Octet) /\ Len(s \o t) = Len(s) + Len(t)
          /\ \A i \in 1 .. Len(s) + Len(t) :
                (s \o t)[i] = IF i <= Len(s) THEN s[i] ELSE t[i - Len(s)]
      BY ConcatProperties
    <2> QED
      BY <1>1, <2>1
  <1>3. ASSUME NEW i \in 1 .. a + b PROVE (s \o t)[i] = u[i]
    <2>1. u[i] = 0
      BY <1>1
    <2>2. CASE i <= a
      <3>1. i \in 1 .. a
        BY <2>2
      <3> QED
        BY <1>1, <1>2, <2>1, <3>1
    <2>3. CASE i > a
      <3>1. i - a \in 1 .. b /\ ~(i <= a)
        BY <2>3
      <3>2. (s \o t)[i] = t[i - a]
        BY <1>2, <3>1
      <3>3. t[i - a] = 0
        BY <1>1, <3>1
      <3> QED
        BY <2>1, <3>2, <3>3
    <2>4. i <= a \/ i > a
      OBVIOUS
    <2> QED
      BY ONLY <2>2, <2>3, <2>4
  <1>4. s \o t = u
    BY <1>1, <1>2, <1>3, SeqEqual
  <1> QED
    BY <1>1, <1>4

(***************************************************************************)
(* Joined from the left, or part by part: bit behind text, zeros, length.  *)
(***************************************************************************)
PartByPart(p1, p2, p3, p4, p5) ==
    (((p1 \o p2) \o p3) \o p4) \o p5 = p1 \o (((p2 \o p3) \o p4) \o p5)

(***************************************************************************)
(* The parts of the padding, grouped into one block.                       *)
(***************************************************************************)
LEMMA RegroupOne ==
    ASSUME NEW p1 \in Seq(Octet), NEW p2 \in Seq(Octet), NEW p3 \in Seq(Octet),
           NEW p4 \in Seq(Octet), NEW p5 \in Seq(Octet)
    PROVE  PartByPart(p1, p2, p3, p4, p5)
  <1>1. p2 \o p3 \in Seq(Octet)
    BY RunsJoin
  <1>2. (p2 \o p3) \o p4 \in Seq(Octet)
    BY <1>1, RunsJoin
  <1>3. p4 \in Seq(Octet) /\ p5 \in Seq(Octet)
    OBVIOUS
  <1>4. (p1 \o p2) \o p3 = p1 \o (p2 \o p3)
    BY RunsAssociate, SMTT(30)
  <1>5. \A x, y \in Seq(Octet) : (p1 \o x) \o y = p1 \o (x \o y)
    BY RunsAssociate
  <1>6. (p1 \o (p2 \o p3)) \o p4 = p1 \o ((p2 \o p3) \o p4)
    BY ONLY <1>3, <1>1, <1>5, Zenon
  <1>7. (p1 \o ((p2 \o p3) \o p4)) \o p5 = p1 \o (((p2 \o p3) \o p4) \o p5)
    BY ONLY <1>3, <1>2, <1>5, Zenon
  <1> QED
    BY ONLY Zenon, <1>4, <1>6, <1>7 DEF PartByPart

(***************************************************************************)
(* The same where the zeros reach into a second block.                     *)
(***************************************************************************)
SecondBlock(p1, p2, p3, p4, p5, p6) ==
    p1 \o (((p2 \o p3) \o (p4 \o p5)) \o p6) = (p1 \o ((p2 \o p3) \o p4)) \o (p5 \o p6)

(***************************************************************************)
(* The parts of the padding, grouped into two blocks.                      *)
(***************************************************************************)
LEMMA RegroupTwo ==
    ASSUME NEW p1 \in Seq(Octet), NEW p2 \in Seq(Octet), NEW p3 \in Seq(Octet),
           NEW p4 \in Seq(Octet), NEW p5 \in Seq(Octet), NEW p6 \in Seq(Octet)
    PROVE  SecondBlock(p1, p2, p3, p4, p5, p6)
  <1>1. p2 \o p3 \in Seq(Octet) /\ p5 \o p6 \in Seq(Octet)
    BY RunsJoin
  <1>2. (p2 \o p3) \o p4 \in Seq(Octet)
    BY <1>1, RunsJoin
  <1>3. \A x, y \in Seq(Octet) : (x \o p4) \o y = x \o (p4 \o y)
    BY RunsAssociate
  <1>4. \A x, y \in Seq(Octet) : (x \o p5) \o y = x \o (p5 \o y)
    BY RunsAssociate
  <1>5. (p2 \o p3) \o (p4 \o p5) = ((p2 \o p3) \o p4) \o p5
    BY ONLY <1>1, <1>3, p5 \in Seq(Octet), Zenon
  <1>6. (((p2 \o p3) \o p4) \o p5) \o p6 = ((p2 \o p3) \o p4) \o (p5 \o p6)
    BY ONLY <1>2, <1>4, p6 \in Seq(Octet), Zenon
  <1>7. \A x, y \in Seq(Octet) : (p1 \o x) \o y = p1 \o (x \o y)
    BY RunsAssociate
  <1>8. p1 \o (((p2 \o p3) \o p4) \o (p5 \o p6)) = (p1 \o ((p2 \o p3) \o p4)) \o (p5 \o p6)
    BY ONLY <1>1, <1>2, <1>7, Zenon
  <1> QED
    BY ONLY Zenon, <1>5, <1>6, <1>8 DEF SecondBlock

(***************************************************************************)
(* The padding: what is hashed at the end, put together from its parts, in *)
(* one block or in two.                                                    *)
(***************************************************************************)
InParts(padded, h, w, m, l) ==
    /\ Len(w) < 56 =>
          /\ padded = h \o (((w \o <<128>>) \o Zeroes(55 - Len(w))) \o l)
          /\ Len(padded) = Len(h) + 64
    /\ Len(w) >= 56 =>
          /\ padded = (h \o ((w \o <<128>>) \o Zeroes(63 - Len(w)))) \o (Zeroes(56) \o l)
          /\ Len(padded) = Len(h) + 128
    /\ Len(m) = Len(h) + Len(w)

(***************************************************************************)
(* The padded message is the message, the '1' bit, as many zeros as fill   *)
(* up a block, and the length.                                             *)
(***************************************************************************)
LEMMA PaddedInParts ==
    ASSUME NEW h \in Seq(Octet), NEW w \in Seq(Octet), NEW m \in Seq(Octet),
           m = h \o w, Len(w) \in 0 .. 63, Len(h) % 64 = 0,
           NEW l \in Seq(Octet), l = LengthBytes(8 * Len(m)), Len(l) = 8
    PROVE  InParts(Padded(m), h, w, m, l)
  <1>1. PICK a \in Nat, c \in 0 .. 63 : a = Len(h) /\ c = Len(w)
    BY LenProperties
  <1>2. Len(m) = a + c
    BY <1>1, RunsJoin
  <1> DEFINE z == (63 - 8 - (a + c)) % 64
  <1>3. z = IF c < 56 THEN 55 - c ELSE 119 - c
    <2>1. a % 64 = 0
      BY <1>1
    <2>2. PICK k \in Nat : a = 64 * k
      <3>1. a = 64 * (a \div 64) /\ a \div 64 \in Nat
        BY <2>1
      <3> QED
        BY <3>1
    <2>3. CASE c < 56
      <3>1. PICK k1 \in Int, r \in 0 .. 63, n \in Int :
               k1 = 0 - k /\ r = 55 - c /\ n = 63 - 8 - (a + c) /\ n = 64 * k1 + r
        BY <2>2, <2>3
      <3>2. n % 64 = r
        <4>1. (64 * k1 + r) % 64 = r
          BY ONLY Zenon, k1 \in Int, r \in 0 .. 63, Remainder
        <4> QED
          BY ONLY Zenon, <3>1, <4>1
      <3> QED
        BY <2>3, <3>1, <3>2
    <2>4. CASE c >= 56
      <3>1. PICK k1 \in Int, r \in 0 .. 63, n \in Int :
               k1 = 0 - k - 1 /\ r = 119 - c /\ n = 63 - 8 - (a + c) /\ n = 64 * k1 + r
        BY <2>2, <2>4
      <3>2. n % 64 = r
        <4>1. (64 * k1 + r) % 64 = r
          BY ONLY Zenon, k1 \in Int, r \in 0 .. 63, Remainder
        <4> QED
          BY ONLY Zenon, <3>1, <4>1
      <3> QED
        BY <2>4, <3>1, <3>2
    <2> QED
      BY <2>3, <2>4
  <1>4. z \in Nat
    BY <1>3
  <1>5. Padded(m) = ((m \o <<128>>) \o Zeroes(z)) \o l
    <2>1. (BLOCK_SIZE - 9 - Len(m)) % BLOCK_SIZE = z
      BY <1>2 DEF BLOCK_SIZE
    <2> HIDE DEF z
    <2> QED
      BY <2>1 DEF Padded
  <1> HIDE DEF z
  <1>6. PICK zeros \in Seq(Octet) : zeros = Zeroes(z) /\ Len(zeros) = z
    BY <1>4, ZeroesTyped
  <1>7. PICK bit \in Seq(Octet) : bit = <<128>> /\ Len(bit) = 1
    <2>1. <<128>> \in Seq(Octet) /\ Len(<<128>>) = 1
      BY DEF Octet
    <2> QED
      BY <2>1
  <1>8. Padded(m) = h \o (((w \o bit) \o zeros) \o l)
    <2>1. /\ h \in Seq(Octet) /\ w \in Seq(Octet) /\ bit \in Seq(Octet)
          /\ zeros \in Seq(Octet) /\ l \in Seq(Octet)
      BY <1>6, <1>7
    <2>2. (((h \o w) \o bit) \o zeros) \o l = h \o (((w \o bit) \o zeros) \o l)
      <3>1. PartByPart(h, w, bit, zeros, l)
        BY ONLY <2>1, RegroupOne, Zenon
      <3> QED
        BY ONLY <3>1, Zenon DEF PartByPart
    <2>3. Padded(m) = (((h \o w) \o bit) \o zeros) \o l
      BY Zenon, <1>5, <1>6, <1>7
    <2> QED
      BY ONLY <2>2, <2>3, Zenon
  <1>9. Len(Padded(m)) = a + c + 1 + z + 8
    <2>1. Len(m \o bit) = a + c + 1 /\ m \o bit \in Seq(Octet)
      BY <1>2, <1>7, RunsJoin
    <2>2. /\ Len((m \o bit) \o zeros) = a + c + 1 + z
          /\ (m \o bit) \o zeros \in Seq(Octet)
      BY <1>6, <2>1, RunsJoin
    <2>3. Len(((m \o bit) \o zeros) \o l) = a + c + 1 + z + 8
      <3>1. PICK front \in Seq(Octet) :
               front = (m \o bit) \o zeros /\ Len(front) = a + c + 1 + z
        BY ONLY <2>2, Zenon
      <3>2. Len(front \o l) = Len(front) + Len(l)
        BY ONLY front \in Seq(Octet), l \in Seq(Octet), RunsJoin, Zenon
      <3>3. Len(front \o l) = a + c + 1 + z + 8
        BY <3>1, <3>2
      <3> QED
        BY ONLY <3>1, <3>3, Zenon
    <2>4. Padded(m) = ((m \o bit) \o zeros) \o l
      BY Zenon, <1>5, <1>6, <1>7
    <2> QED
      BY Zenon, <2>3, <2>4
  <1>10. ASSUME c < 56
         PROVE  /\ Padded(m) = h \o (((w \o <<128>>) \o Zeroes(55 - c)) \o l)
                /\ Len(Padded(m)) = a + 64
    <2>1. z = 55 - c /\ a + c + 1 + z + 8 = a + 64
      BY <1>3, <1>10
    <2> QED
      BY <1>6, <1>7, <1>8, <1>9, <2>1
  <1>11. ASSUME c >= 56
         PROVE  /\ Padded(m) = (h \o ((w \o <<128>>) \o Zeroes(63 - c))) \o (Zeroes(56) \o l)
                /\ Len(Padded(m)) = a + 128
    <2>1. z = 119 - c /\ a + c + 1 + z + 8 = a + 128
      BY <1>3, <1>11
    <2>2. PICK early \in Seq(Octet), late \in Seq(Octet) :
             early = Zeroes(63 - c) /\ late = Zeroes(56) /\ zeros = early \o late
      <3>1. 63 - c \in Nat /\ 56 \in Nat /\ (63 - c) + 56 = 119 - c
        OBVIOUS
      <3>2. Zeroes(63 - c) \o Zeroes(56) = Zeroes((63 - c) + 56)
        BY <3>1, ZeroesJoin
      <3>3. Zeroes(63 - c) \in Seq(Octet) /\ Zeroes(56) \in Seq(Octet)
        BY <3>1, ZeroesTyped
      <3>4. zeros = Zeroes(63 - c) \o Zeroes(56)
        BY ONLY Zenon, <1>6, <2>1, <3>1, <3>2
      <3> QED
        BY ONLY Zenon, <3>3, <3>4
    <2>3. h \o (((w \o bit) \o (early \o late)) \o l)
             = (h \o ((w \o bit) \o early)) \o (late \o l)
      <3>1. /\ h \in Seq(Octet) /\ w \in Seq(Octet) /\ bit \in Seq(Octet)
            /\ early \in Seq(Octet) /\ late \in Seq(Octet) /\ l \in Seq(Octet)
        BY <1>7, <2>2
      <3>2. SecondBlock(h, w, bit, early, late, l)
        BY ONLY <3>1, RegroupTwo, Zenon
      <3> QED
        BY ONLY <3>2, Zenon DEF SecondBlock
    <2> QED
      BY <1>7, <1>8, <1>9, <2>1, <2>2, <2>3, ZenonT(30)
  <1> QED
    BY <1>1, <1>2, <1>10, <1>11 DEF InParts


(***************************************************************************)
(* The block the length goes into.                                         *)
(***************************************************************************)
LEMMA LastBlock ==
    ASSUME NEW front \in Seq(Octet), Len(front) = 56, NEW l \in Seq(Octet), Len(l) = 8
    PROVE  /\ front \o l \in Seq(Octet) /\ Len(front \o l) = 64
           /\ front \o l \in [1 .. BLOCK_SIZE -> Octet]
  <1>1. PICK both : both = front \o l
    OBVIOUS
  <1>2. both \in Seq(Octet) /\ Len(both) = 64
    <2>1. front \o l \in Seq(Octet) /\ Len(front \o l) = Len(front) + Len(l)
      BY RunsJoin
    <2> QED
      BY <1>1, <2>1
  <1>3. both \in [1 .. BLOCK_SIZE -> Octet]
    BY <1>2, LenProperties DEF BLOCK_SIZE
  <1> QED
    BY <1>1, <1>2, <1>3

(***************************************************************************)
(* The buffer cleared up to the length is all zeros there.                 *)
(***************************************************************************)
LEMMA ClearedFront ==
    ASSUME NEW before \in Seq(Octet), Len(before) = 64, NEW end \in 0 .. 64,
           NEW cleared, cleared = ZeroedTo(before, 0, end)
    PROVE  cleared \in Seq(Octet) /\ Len(cleared) = 64 /\ SubSeq(cleared, 1, end) = Zeroes(end)
  <1> DEFINE byte(i) == IF i \in 1 .. end THEN 0 ELSE before[i]
  <1>1. cleared = [i \in 1 .. 64 |-> byte(i)]
    BY DEF ZeroedTo, BLOCK_SIZE
  <1>2. ASSUME NEW i \in 1 .. 64 PROVE byte(i) \in Octet
    <2>1. before[i] \in Octet
      <3>1. before \in Seq(Octet) /\ i \in 1 .. Len(before)
        OBVIOUS
      <3> QED
        BY ONLY <3>1, ElementOfSeq, Zenon
    <2>2. 0 \in Octet
      BY DEF Octet
    <2>3. CASE i \in 1 .. end
      BY <2>2, <2>3
    <2>4. CASE i \notin 1 .. end
      BY <2>1, <2>4
    <2> QED
      BY <2>3, <2>4
  <1>3. ASSUME NEW i \in 1 .. end PROVE byte(i) = 0
    OBVIOUS
  <1> HIDE DEF byte
  <1>4. cleared \in Seq(Octet) /\ Len(cleared) = 64
    BY ONLY <1>1, <1>2 DEF byte
  <1>5. ASSUME NEW i \in 1 .. end PROVE cleared[i] = 0
    <2>1. i \in 1 .. 64
      OBVIOUS
    <2>2. cleared[i] = byte(i)
      BY ONLY <1>1, <2>1 DEF byte
    <2> QED
      BY <1>3, <2>2
  <1> DEFINE run   == SubSeq(cleared, 1, end)
             zeros == Zeroes(end)
  <1>6. end \in Nat /\ end \in 0 .. Len(cleared)
    BY ONLY <1>4, end \in 0 .. 64
  <1>7. run \in Seq(Octet) /\ Len(run) = end
    BY ONLY <1>4, <1>6, FrontTaken
  <1>8. ASSUME NEW i \in 1 .. end PROVE run[i] = cleared[i]
    BY ONLY <1>4, <1>6, i \in 1 .. end, FrontBytes
  <1>9. /\ zeros \in Seq(Octet) /\ Len(zeros) = end
        /\ \A i \in 1 .. end : zeros[i] = 0
    BY ONLY <1>6, ZeroesTyped
  <1> HIDE DEF run, zeros
  <1>10. ASSUME NEW i \in 1 .. end PROVE run[i] = zeros[i]
    BY ONLY <1>5, <1>8, <1>9, i \in 1 .. end
  <1>11. run = zeros
    BY ONLY <1>7, <1>9, <1>10, SeqEqual
  <1> QED
    BY <1>4, <1>11 DEF run, zeros

(***************************************************************************)
(* Sha256Finalise where the length fits behind the bytes that wait, and    *)
(* where it needs a block more.                                            *)
(***************************************************************************)
PaddedWith(m, h, c, before, closing, blocks) ==
    /\ closing \in [1 .. BLOCK_SIZE -> Octet]
    /\ before \o closing = Padded(m) /\ Padded(m) \in Seq(Octet)
    /\ Len(Padded(m)) = Len(h) + blocks /\ Len(m) = Len(h) + c

(***************************************************************************)
(* With room for the length, the block in buf completes the padded         *)
(* message.                                                                *)
(***************************************************************************)
LEMMA OneBlockPads ==
    ASSUME NEW block \in [1 .. BLOCK_SIZE -> Octet], NEW c \in 0 .. 55,
           NEW h \in Seq(Octet), Len(h) % 64 = 0,
           NEW m \in Seq(Octet), m = h \o SubSeq(block, 1, c),
           NEW l \in Seq(Octet), l = LengthBytes(8 * Len(m)), Len(l) = 8,
           NEW closed, closed = ZeroedTo([block EXCEPT ![c + 1] = 128], c + 1, 56)
    PROVE  PaddedWith(m, h, c, h, SubSeq(closed, 1, 56) \o l, 64)
  <1> DEFINE w     == SubSeq(block, 1, c)
             front == SubSeq(closed, 1, 56)
  <1>1. w \in Seq(Octet) /\ Len(w) = c
    <2>1. block \in Seq(Octet) /\ Len(block) = 64
      BY BufferRun
    <2>2. c \in 0 .. Len(block)
      BY ONLY <2>1, c \in 0 .. 55
    <2> QED
      BY ONLY <2>1, <2>2, FrontTaken
  <1>2. front \in Seq(Octet) /\ Len(front) = 56 /\ front = (w \o <<128>>) \o Zeroes(55 - c)
    <2>1. PICK end \in {56, 64} : end = 56
      OBVIOUS
    <2>2. c \in 0 .. 63 /\ c + 1 <= end /\ end - 1 - c = 55 - c
      BY ONLY <2>1, c \in 0 .. 55
    <2>3. closed = ZeroedTo([block EXCEPT ![c + 1] = 128], c + 1, end)
      BY <2>1
    <2>4. /\ closed \in Seq(Octet) /\ Len(closed) = 64
          /\ SubSeq(closed, 1, end) = (SubSeq(block, 1, c) \o <<128>>) \o Zeroes(end - 1 - c)
      <3>1. ClosedUpTo(end, closed, block, c)
        BY ONLY Zenon, <2>2, <2>3, block \in [1 .. BLOCK_SIZE -> Octet], end \in {56, 64}, Closed
      <3> QED
        BY ONLY <3>1, Zenon DEF ClosedUpTo
    <2>5. end \in 0 .. Len(closed)
      BY ONLY <2>1, <2>4
    <2>6. SubSeq(closed, 1, end) \in Seq(Octet) /\ Len(SubSeq(closed, 1, end)) = end
      BY ONLY <2>4, <2>5, FrontTaken
    <2> QED
      BY ONLY <2>1, <2>2, <2>4, <2>6, Zenon
  <1> HIDE DEF w, front
  <1>3. front \o l \in Seq(Octet) /\ front \o l \in [1 .. BLOCK_SIZE -> Octet]
    BY ONLY <1>2, l \in Seq(Octet), Len(l) = 8, LastBlock
  <1>4. h \o (front \o l) \in Seq(Octet)
    <2>1. h \in Seq(Octet)
      OBVIOUS
    <2> QED
      BY ONLY <1>3, <2>1, RunsJoin, Zenon
  <1>5. /\ Padded(m) = h \o (((w \o <<128>>) \o Zeroes(55 - Len(w))) \o l)
        /\ Len(Padded(m)) = Len(h) + 64 /\ Len(m) = Len(h) + Len(w)
    <2>1. m = h \o w
      BY DEF w
    <2>2. Len(w) \in 0 .. 63 /\ Len(w) < 56
      BY ONLY <1>1, c \in 0 .. 55
    <2>3. /\ h \in Seq(Octet) /\ m \in Seq(Octet) /\ l \in Seq(Octet) /\ Len(h) % 64 = 0
          /\ l = LengthBytes(8 * Len(m)) /\ Len(l) = 8
      OBVIOUS
    <2>4. InParts(Padded(m), h, w, m, l)
      BY ONLY Zenon, <1>1, <2>1, <2>2, <2>3, PaddedInParts
    <2> QED
      BY ONLY Zenon, <2>2, <2>4 DEF InParts
  <1>6. h \o (front \o l) = Padded(m)
    BY ONLY <1>1, <1>2, <1>5, Zenon
  <1>7. Len(m) = Len(h) + c
    BY ONLY <1>1, <1>5, Zenon
  <1> QED
    BY ONLY Zenon, <1>3, <1>4, <1>5, <1>6, <1>7 DEF front, PaddedWith

(***************************************************************************)
(* Without, that block and a cleared one with the length complete it.      *)
(***************************************************************************)
LEMMA TwoBlocksPad ==
    ASSUME NEW block \in [1 .. BLOCK_SIZE -> Octet], NEW c \in 56 .. 63,
           NEW h \in Seq(Octet), Len(h) % 64 = 0,
           NEW m \in Seq(Octet), m = h \o SubSeq(block, 1, c),
           NEW l \in Seq(Octet), l = LengthBytes(8 * Len(m)), Len(l) = 8,
           NEW closed, closed = ZeroedTo([block EXCEPT ![c + 1] = 128], c + 1, 64),
           NEW cleared, cleared = ZeroedTo(closed, 0, 56)
    PROVE  PaddedWith(m, h, c, h \o closed, SubSeq(cleared, 1, 56) \o l, 128)
  <1> DEFINE w     == SubSeq(block, 1, c)
             front == SubSeq(cleared, 1, 56)
  <1>1. w \in Seq(Octet) /\ Len(w) = c
    <2>1. block \in Seq(Octet) /\ Len(block) = 64
      BY BufferRun
    <2>2. c \in 0 .. Len(block)
      BY ONLY <2>1, c \in 56 .. 63
    <2> QED
      BY ONLY <2>1, <2>2, FrontTaken
  <1>2. /\ closed \in Seq(Octet) /\ Len(closed) = 64
        /\ closed = (w \o <<128>>) \o Zeroes(63 - c)
    <2>1. PICK end \in {56, 64} : end = 64
      OBVIOUS
    <2>2. c \in 0 .. 63 /\ c + 1 <= end /\ end - 1 - c = 63 - c
      BY ONLY <2>1, c \in 56 .. 63
    <2>3. closed = ZeroedTo([block EXCEPT ![c + 1] = 128], c + 1, end)
      BY <2>1
    <2>4. /\ closed \in Seq(Octet) /\ Len(closed) = 64
          /\ SubSeq(closed, 1, end) = (SubSeq(block, 1, c) \o <<128>>) \o Zeroes(end - 1 - c)
      <3>1. ClosedUpTo(end, closed, block, c)
        BY ONLY Zenon, <2>2, <2>3, block \in [1 .. BLOCK_SIZE -> Octet], end \in {56, 64}, Closed
      <3> QED
        BY ONLY <3>1, Zenon DEF ClosedUpTo
    <2>5. SubSeq(closed, 1, end) = closed
      <3>1. SubSeq(closed, 1, Len(closed)) = closed
        BY ONLY <2>4, SubSeqFull
      <3> QED
        BY ONLY <2>1, <2>4, <3>1, Zenon
    <2> QED
      BY ONLY <2>2, <2>4, <2>5, Zenon
  <1>3. front \in Seq(Octet) /\ Len(front) = 56 /\ front = Zeroes(56)
    <2>1. PICK end \in 0 .. 64 : end = 56
      OBVIOUS
    <2>2. cleared = ZeroedTo(closed, 0, end)
      BY <2>1
    <2>3. /\ cleared \in Seq(Octet) /\ Len(cleared) = 64
          /\ SubSeq(cleared, 1, end) = Zeroes(end)
      BY ONLY <1>2, <2>2, end \in 0 .. 64, ClearedFront, ZenonT(30)
    <2>4. Zeroes(end) \in Seq(Octet) /\ Len(Zeroes(end)) = end
      BY ONLY end \in 0 .. 64, ZeroesTyped
    <2> QED
      BY ONLY <2>1, <2>3, <2>4, ZenonT(30)
  <1> HIDE DEF w, front
  <1>4. front \o l \in Seq(Octet) /\ front \o l \in [1 .. BLOCK_SIZE -> Octet]
    BY ONLY <1>3, l \in Seq(Octet), Len(l) = 8, LastBlock
  <1>5. (h \o closed) \o (front \o l) \in Seq(Octet)
    <2>1. h \in Seq(Octet)
      OBVIOUS
    <2>2. h \o closed \in Seq(Octet)
      BY ONLY <1>2, <2>1, RunsJoin, Zenon
    <2> QED
      BY ONLY <1>4, <2>2, RunsJoin, Zenon
  <1>6. /\ Padded(m) = (h \o ((w \o <<128>>) \o Zeroes(63 - Len(w)))) \o (Zeroes(56) \o l)
        /\ Len(Padded(m)) = Len(h) + 128 /\ Len(m) = Len(h) + Len(w)
    <2>1. m = h \o w
      BY DEF w
    <2>2. Len(w) \in 0 .. 63 /\ Len(w) >= 56
      BY ONLY <1>1, c \in 56 .. 63
    <2>3. /\ h \in Seq(Octet) /\ m \in Seq(Octet) /\ l \in Seq(Octet) /\ Len(h) % 64 = 0
          /\ l = LengthBytes(8 * Len(m)) /\ Len(l) = 8
      OBVIOUS
    <2>4. InParts(Padded(m), h, w, m, l)
      BY ONLY Zenon, <1>1, <2>1, <2>2, <2>3, PaddedInParts
    <2> QED
      BY ONLY Zenon, <2>2, <2>4 DEF InParts
  <1>7. (h \o closed) \o (front \o l) = Padded(m)
    BY ONLY <1>1, <1>2, <1>3, <1>6, Zenon
  <1>8. Len(m) = Len(h) + c
    BY ONLY <1>1, <1>6, Zenon
  <1> QED
    BY ONLY Zenon, <1>4, <1>5, <1>6, <1>7, <1>8 DEF front, PaddedWith

(***************************************************************************)
(* Sha256Finalise compresses the padded message, in one more block or      *)
(* two.                                                                    *)
(***************************************************************************)
LEMMA FinaliseStreamInv == StreamInv /\ Sha256Finalise => StreamInv'
  <1> SUFFICES ASSUME StreamInv, Sha256Finalise PROVE StreamInv'
    OBVIOUS
  <1>1. /\ calling = "between" /\ calling' = "finalised"
        /\ UNCHANGED <<input, message, messages>>
        /\ length' = length + 8 * curlen /\ curlen' = 56
    BY DEF Sha256Finalise, LengthAt, BLOCK_SIZE
  <1>2. PICK h, block, m, c :
           h = hashed /\ block = buf /\ m = message /\ c = curlen
    OBVIOUS
  <1>3. /\ h \in Seq(Octet) /\ m \in Seq(Octet) /\ input = <<>>
        /\ block \in [1 .. BLOCK_SIZE -> Octet] /\ c \in 0 .. 63 /\ length \in Nat
    BY <1>1, <1>2 DEF StreamInv, StreamTypeOK, BLOCK_SIZE
  <1> DEFINE w == SubSeq(block, 1, c)
  <1>4. w \in Seq(Octet) /\ Len(w) = c
    <2>1. block \in Seq(Octet) /\ Len(block) = 64
      BY <1>3, BufferRun
    <2>2. c \in 0 .. Len(block)
      BY ONLY <1>3, <2>1
    <2> QED
      BY ONLY <2>1, <2>2, FrontTaken
  <1>5. m = h \o w /\ length = 8 * Len(h) /\ Len(h) % 64 = 0
    <2>1. /\ (h \o w) \o <<>> = m
          /\ length = 8 * Len(h) /\ Len(h) % 64 = 0
      BY <1>1, <1>2, <1>3 DEF StreamInv, MessageInThreeParts, BLOCK_SIZE
    <2> HIDE DEF w
    <2>2. h \o w \in Seq(Octet)
      BY ONLY <1>3, <1>4, RunsJoin, Zenon
    <2>3. (h \o w) \o <<>> = h \o w
      BY ONLY <2>2, ConcatEmptySeq
    <2> QED
      BY ONLY <2>1, <2>3, Zenon
  <1>6. PICK a \in Nat : a = Len(h)
    BY <1>3, LenProperties
  <1>7. Len(m) = a + c
    <2> HIDE DEF w
    <2>1. Len(h \o w) = Len(h) + Len(w)
      BY ONLY <1>3, <1>4, RunsJoin, Zenon
    <2> QED
      BY ONLY Zenon, <1>4, <1>5, <1>6, <2>1
  <1> DEFINE bits == length + 8 * curlen
             l    == LengthBytes(bits)
  <1>8. bits \in Nat /\ bits = 8 * Len(m)
    <2>1. bits = 8 * a + 8 * c
      BY ONLY <1>2, <1>5, <1>6, Zenon DEF bits
    <2>2. 8 * a + 8 * c \in Nat /\ 8 * a + 8 * c = 8 * (a + c)
      BY ONLY <1>3, a \in Nat
    <2> QED
      BY ONLY <1>7, <2>1, <2>2, Zenon
  <1>9. l \in Seq(Octet) /\ Len(l) = 8 /\ l = LengthBytes(8 * Len(m))
    BY ONLY <1>8, LengthBytesTyped, Zenon DEF l
  <1> DEFINE marked  == [buf EXCEPT ![curlen + 1] = 128]
             first   == ZeroedTo(marked, curlen + 1, BLOCK_SIZE)
             cleared == ZeroedTo(first, 0, LengthAt)
             only    == ZeroedTo(marked, curlen + 1, LengthAt)
             chosen  == IF NoRoomForLength THEN cleared ELSE only
             more    == IF NoRoomForLength THEN first ELSE <<>>
  <1>10. /\ buf' = SubSeq(chosen, 1, LengthAt) \o l
         /\ hashed' = hashed \o more \o buf'
    BY Zenon DEF Sha256Finalise
  <1> HIDE DEF bits, l, w
  <1>11. LengthAt = 56 /\ BLOCK_SIZE = 64
    BY DEF LengthAt, BLOCK_SIZE
  <1>12. ASSUME NoRoomForLength
         PROVE  /\ buf' = SubSeq(cleared, 1, 56) \o l
                /\ hashed' = hashed \o first \o buf'
                /\ first = ZeroedTo([block EXCEPT ![c + 1] = 128], c + 1, 64)
                /\ cleared = ZeroedTo(first, 0, 56)
    BY ONLY Zenon, <1>2, <1>10, <1>11, <1>12
  <1>13. ASSUME ~NoRoomForLength
         PROVE  /\ buf' = SubSeq(only, 1, 56) \o l
                /\ hashed' = hashed \o <<>> \o buf'
                /\ only = ZeroedTo([block EXCEPT ![c + 1] = 128], c + 1, 56)
    BY ONLY Zenon, <1>2, <1>10, <1>11, <1>13
  <1> HIDE DEF marked, first, cleared, only, chosen, more
  <1>14. ASSUME NoRoomForLength
         PROVE  /\ hashed' = Padded(m) /\ Padded(m) \in Seq(Octet)
                /\ buf' \in [1 .. BLOCK_SIZE -> Octet]
                /\ Len(Padded(m)) = a + 128 /\ c >= 56
    <2>1. c \in 56 .. 63 /\ c >= 56
      <3>1. c + 1 > 56
        BY ONLY <1>2, <1>11, <1>14 DEF NoRoomForLength
      <3> QED
        BY ONLY <1>3, <3>1
    <2>2. /\ SubSeq(cleared, 1, 56) \o l \in [1 .. BLOCK_SIZE -> Octet]
          /\ (h \o first) \o (SubSeq(cleared, 1, 56) \o l) = Padded(m)
          /\ Padded(m) \in Seq(Octet)
          /\ Len(Padded(m)) = Len(h) + 128
      <3>1. PaddedWith(m, h, c, h \o first, SubSeq(cleared, 1, 56) \o l, 128)
        BY ONLY ZenonT(30), <1>3, <1>5, <1>9, <1>12, <1>14, <2>1, TwoBlocksPad DEF w
      <3> QED
        BY ONLY Zenon, <3>1 DEF PaddedWith
    <2> QED
      BY ONLY Zenon, <1>2, <1>6, <1>12, <1>14, <2>1, <2>2
  <1>15. ASSUME ~NoRoomForLength
         PROVE  /\ hashed' = Padded(m) /\ Padded(m) \in Seq(Octet)
                /\ buf' \in [1 .. BLOCK_SIZE -> Octet]
                /\ Len(Padded(m)) = a + 64 /\ c < 56
    <2>1. c \in 0 .. 55 /\ c < 56
      BY <1>2, <1>3, <1>15 DEF NoRoomForLength, LengthAt, BLOCK_SIZE
    <2>2. /\ SubSeq(only, 1, 56) \o l \in [1 .. BLOCK_SIZE -> Octet]
          /\ h \o (SubSeq(only, 1, 56) \o l) = Padded(m)
          /\ Padded(m) \in Seq(Octet)
          /\ Len(Padded(m)) = Len(h) + 64
      <3>1. PaddedWith(m, h, c, h, SubSeq(only, 1, 56) \o l, 64)
        BY ONLY ZenonT(30), <1>3, <1>5, <1>9, <1>13, <1>15, <2>1, OneBlockPads DEF w
      <3> QED
        BY ONLY Zenon, <3>1 DEF PaddedWith
    <2>3. h \o <<>> = h
      BY ONLY <1>3, ConcatEmptySeq
    <2> QED
      BY ONLY Zenon, <1>2, <1>6, <1>13, <1>15, <2>1, <2>2, <2>3
  <1>16. /\ hashed' = Padded(m) /\ Padded(m) \in Seq(Octet)
         /\ buf' \in [1 .. BLOCK_SIZE -> Octet]
    BY ONLY Zenon, <1>14, <1>15
  <1>17. /\ Len(message') = a + c
         /\ \/ Len(hashed') = a + 64 /\ c < 56
            \/ Len(hashed') = a + 128 /\ c >= 56
    BY ONLY Zenon, <1>1, <1>2, <1>7, <1>14, <1>15
  <1>18. Len(hashed') % 64 = 0 /\ Len(hashed') - Len(message') \in 9 .. 72
    <2>1. a % 64 = 0
      BY ONLY Zenon, <1>5, <1>6
    <2>2. (a + 64) % 64 = 0 /\ (a + 128) % 64 = 0
      BY ONLY <2>1, a \in Nat
    <2>3. c < 56 => (a + 64) - (a + c) \in 9 .. 72
      BY ONLY <1>3, a \in Nat
    <2>4. c >= 56 => (a + 128) - (a + c) \in 9 .. 72
      BY ONLY <1>3, a \in Nat
    <2> QED
      BY ONLY Zenon, <1>17, <2>2, <2>3, <2>4
  <1>19. StreamTypeOK' /\ messages' \in Nat
    <2>1. hashed' \in Seq(Octet) /\ input' \in Seq(Octet) /\ message' \in Seq(Octet)
      BY <1>1, <1>2, <1>3, <1>16
    <2>2. length' \in Nat /\ curlen' \in 0 .. BLOCK_SIZE - 1 /\ messages' \in Nat
      BY <1>1, <1>8 DEF StreamInv, bits, BLOCK_SIZE
    <2> QED
      BY <1>1, <1>3, <1>16, <2>1, <2>2 DEF StreamTypeOK
  <1>20. HashedPadded'
    <2>1. hashed' = Padded(message')
      BY ONLY Zenon, <1>1, <1>2, <1>16
    <2>2. Len(hashed') % BLOCK_SIZE = 0 /\ Len(hashed') - Len(message') \in 9 .. BLOCK_SIZE + 8
      BY <1>17, <1>18 DEF BLOCK_SIZE
    <2> QED
      BY Zenon, <2>1, <2>2 DEF HashedPadded
  <1>21. MessageInThreeParts'
    BY <1>1 DEF MessageInThreeParts
  <1> QED
    BY <1>19, <1>20, <1>21 DEF StreamInv

(***************************************************************************)
(* A stuttering step disturbs nothing.                                     *)
(***************************************************************************)
LEMMA UnchangedStreamInv == StreamInv /\ UNCHANGED streamVars => StreamInv'
  <1> SUFFICES ASSUME StreamInv, UNCHANGED streamVars PROVE StreamInv'
    OBVIOUS
  <1>1. UNCHANGED <<calling, curlen, length, buf, hashed, input, message, messages>>
    BY DEF streamVars
  <1>2. StreamTypeOK' /\ messages' \in Nat
    BY <1>1 DEF StreamInv, StreamTypeOK
  <1>3. MessageInThreeParts' /\ HashedPadded'
    BY <1>1 DEF StreamInv, MessageInThreeParts, HashedPadded
  <1> QED
    BY <1>2, <1>3 DEF StreamInv

(***************************************************************************)
(* The inductive invariant holds of every behaviour.                       *)
(***************************************************************************)
THEOREM StreamInvHolds == StreamSpec => []StreamInv
  <1>1. StreamInit => StreamInv
    BY InitStreamInv
  <1>2. StreamInv /\ [StreamNext]_streamVars => StreamInv'
    <2> SUFFICES ASSUME StreamInv, [StreamNext]_streamVars PROVE StreamInv'
      OBVIOUS
    <2>1. CASE Sha256Initialise
      BY <2>1, InitialiseStreamInv
    <2>2. CASE \E n \in UpdateSizes : Sha256Update(n)
      BY <2>2, UpdateStreamInv
    <2>3. CASE HashBlock
      BY <2>3, HashBlockStreamInv
    <2>4. CASE Buffer
      BY <2>4, BufferStreamInv
    <2>5. CASE UpdateReturns
      BY <2>5, ReturnsStreamInv
    <2>6. CASE Sha256Finalise
      BY <2>6, FinaliseStreamInv
    <2>7. CASE Done \/ UNCHANGED streamVars
      BY <2>7, UnchangedStreamInv DEF Done
    <2> QED
      BY <2>1, <2>2, <2>3, <2>4, <2>5, <2>6, <2>7 DEF StreamNext, UpdateTurn
  <1> QED
    BY <1>1, <1>2, PTL DEF StreamSpec

(***************************************************************************)
(* There is always room in the buffer between two turns: neither early     *)
(* return of Sha256Update and Sha256Finalise is ever taken.                *)
(***************************************************************************)
THEOREM StreamTypes == StreamSpec => []StreamTypeOK
  <1>1. StreamInv => StreamTypeOK
    BY DEF StreamInv
  <1> QED
    BY <1>1, StreamInvHolds, PTL

(***************************************************************************)
(* No byte of the message is lost, doubled or moved, however the message   *)
(* is split over calls of Sha256Update.                                    *)
(***************************************************************************)
THEOREM NothingLost == StreamSpec => []MessageInThreeParts
  <1>1. StreamInv => MessageInThreeParts
    BY DEF StreamInv
  <1> QED
    BY <1>1, StreamInvHolds, PTL

(***************************************************************************)
(* What Sha256Finalise hashes is the padded message, for every message     *)
(* length: in one block or in two, and whatever was hashed before.         *)
(***************************************************************************)
THEOREM PaddedAsSpecified == StreamSpec => []HashedPadded
  <1>1. StreamInv => HashedPadded
    BY DEF StreamInv
  <1> QED
    BY <1>1, StreamInvHolds, PTL
=============================================================================
