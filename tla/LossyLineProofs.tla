--------------------------- MODULE LossyLineProofs ---------------------------
(***************************************************************************)
(* Theorems about a line that loses and changes bytes, for every size of a *)
(* frame, every set of frames sent and any number of frames and faults.    *)
(***************************************************************************)
EXTENDS LossyLine, CompanionReaderProofs, FiniteSetTheorems

(***************************************************************************)
(* The bytes sent, received or not: how many there are, and which.         *)
(***************************************************************************)
Wire == stream \o line

LineLength == Len(Wire)

LineByte(i) == Wire[i]

(***************************************************************************)
(* Where the n-th frame lies, and what the line made of it.                *)
(***************************************************************************)
Place(n) == sent[n].begin

LiesWhole(n, f) ==
    /\ sent[n].end = Place(n) + Len(f)
    /\ \A i \in 1 .. Len(f) : LineByte(Place(n) + i) = f[i]

LiesWithout(n, f, p) ==
    /\ sent[n].end = Place(n) + Len(f) - 1
    /\ \A i \in 1 .. Len(f) - 1 : LineByte(Place(n) + i) = IF i < p THEN f[i] ELSE f[i + 1]

LiesChanged(n, f, p) ==
    /\ sent[n].end = Place(n) + Len(f)
    /\ \A i \in 1 .. Len(f) : i # p => LineByte(Place(n) + i) = f[i]

OnLine(n) ==
    \E f \in Frames : \E p \in 1 .. Len(f) :
       \/ sent[n].fault = "none" /\ LiesWhole(n, f)
       \/ sent[n].fault = "lost" /\ LiesWithout(n, f, p)
       \/ sent[n].fault = "changed" /\ LiesChanged(n, f, p)

SentRecords == [begin : Nat, end : Nat, fault : {"none", "lost", "changed"}]

(***************************************************************************)
(* The frames sent lie on the line one behind the other, and nothing else  *)
(* does.                                                                   *)
(***************************************************************************)
LineHoldsSent ==
    /\ line \in Seq(Byte) /\ sent \in Seq(SentRecords)
    /\ \A n \in 1 .. Len(sent) :
          /\ OnLine(n)
          /\ sent[n].end <= LineLength
          /\ n > 1 => Place(n) = sent[n - 1].end
    /\ \A m, n \in 1 .. Len(sent) : m < n => sent[m].end <= Place(n)
    /\ \A k \in 0 .. LineLength - 1 :
          \E n \in 1 .. Len(sent) : Place(n) <= k /\ k < sent[n].end

(***************************************************************************)
(* The two excuses for a frame that is not delivered.                      *)
(***************************************************************************)
NextToFault(n) ==
    \/ n > 1 /\ sent[n - 1].fault = "lost"
    \/ \E m \in 1 .. n - 1 : sent[m].fault = "changed"

InWindow(n) ==
    \E m \in Faulty : m < n /\ Place(n) < sent[m].end - HeaderSize + MAX_FRAME_SIZE

Excused(n) == NextToFault(n) /\ InWindow(n)

(***************************************************************************)
(* Where the frame being assembled begins: the bytes in front of it are    *)
(* done with.                                                              *)
(***************************************************************************)
Cut == consumed - rx_position

(***************************************************************************)
(* Every frame that the reader went past was delivered or is excused.      *)
(***************************************************************************)
Accounted ==
    \A n \in 1 .. Len(sent) :
       sent[n].fault = "none" /\ Place(n) < Cut =>
          Delivered(n) \/ Excused(n)

LInv == IInv /\ LineHoldsSent /\ Accounted

-----------------------------------------------------------------------------

(***************************************************************************)
(* The sizes, as numbers.                                                  *)
(***************************************************************************)
LEMMA Sizes ==
    /\ Radix \in Nat /\ MAX_FRAME_SIZE \in Nat /\ StartByte \in Nat /\ HeaderSize = 3
    /\ 3 < MAX_FRAME_SIZE /\ MAX_FRAME_SIZE < Radix /\ StartByte + 5 <= MAX_FRAME_SIZE
    /\ Byte \subseteq Nat
  BY ByteAssumption, FrameAssumption, StartAssumption, SizesAssumption DEF Byte, HeaderSize

(***************************************************************************)
(* A frame that is sent: its second length byte is zero, and the start     *)
(* byte, which it does not hold but in front, is not.                      *)
(***************************************************************************)
IsSent(f) ==
    /\ f \in Seq(Byte) /\ Len(f) \in Nat /\ 3 <= Len(f) /\ Len(f) <= MAX_FRAME_SIZE
    /\ f[1] = StartByte /\ f[2] = Len(f) - 3 /\ f[3] = 0 /\ StartByte > 0
    /\ \A i \in 2 .. Len(f) : f[i] # StartByte

LEMMA FrameFacts == ASSUME NEW f \in Frames PROVE IsSent(f)
<1>1. /\ f \in Seq(Byte) /\ Len(f) \in HeaderSize .. MAX_FRAME_SIZE /\ f[1] = StartByte
      /\ f[2] + Radix * f[3] = Len(f) - HeaderSize
      /\ \A i \in 2 .. Len(f) : f[i] # StartByte
  BY FramesAssumption
<1>2. Len(f) \in Nat /\ 3 <= Len(f) /\ Len(f) <= MAX_FRAME_SIZE
  BY <1>1, Sizes
<1>3. f[2] \in Nat /\ f[3] \in Nat
  <2>1. 2 \in 1 .. Len(f) /\ 3 \in 1 .. Len(f)
    BY ONLY <1>2
  <2> QED
    BY ONLY <1>1, <2>1, Sizes, ElementOfSeq
<1>4. f[3] = 0 /\ f[2] = Len(f) - 3
  <2> PICK a \in Nat, b \in Nat, l \in Nat, r \in Nat :
         a = f[2] /\ b = f[3] /\ l = Len(f) /\ r = Radix
    BY ONLY <1>2, <1>3, Sizes
  <2>1. a + r * b = l - 3 /\ l < r
    BY ONLY <1>1, <1>2, Sizes, a = f[2], b = f[3], l = Len(f), r = Radix
  <2>2. b = 0
    <3> SUFFICES ASSUME b # 0 PROVE FALSE
      OBVIOUS
    <3>1. b = b - 1 + 1 /\ b - 1 \in Nat
      BY ONLY b # 0, b \in Nat
    <3>2. r * b = r * (b - 1) + r /\ r * (b - 1) \in Nat
      BY ONLY <3>1, r \in Nat, b \in Nat
    <3> QED
      BY ONLY <2>1, <3>2, a \in Nat, l \in Nat, r \in Nat
  <2>3. r * b = 0
    BY ONLY <2>2, r \in Nat
  <2> QED
    BY ONLY <2>1, <2>2, <2>3, a = f[2], b = f[3], l = Len(f), a \in Nat, l \in Nat
<1>5. StartByte > 0
  <2>1. 3 \in 2 .. Len(f)
    BY ONLY <1>2
  <2>2. StartByte # 0
    BY ONLY <1>1, <1>4, <2>1
  <2> QED
    BY ONLY <2>2, Sizes
<1> QED
  BY ONLY <1>1, <1>2, <1>4, <1>5 DEF IsSent

(***************************************************************************)
(* A byte on the line is a byte.                                           *)
(***************************************************************************)
LineTyped == stream \in Seq(Byte) /\ line \in Seq(Byte)

LEMMA LineBytes ==
    ASSUME LineTyped
    PROVE  /\ Len(stream) \in Nat /\ Len(line) \in Nat /\ LineLength \in Nat
           /\ Wire \in Seq(Byte) /\ LineLength = Len(stream) + Len(line)
           /\ \A i \in 1 .. Len(stream) : LineByte(i) = stream[i]
           /\ \A i \in 1 .. LineLength : LineByte(i) \in Byte /\ LineByte(i) \in Nat
<1>1. /\ stream \in Seq(Byte) /\ line \in Seq(Byte)
      /\ Len(stream) \in Nat /\ Len(line) \in Nat
  BY LenProperties DEF LineTyped
<1>2. /\ Wire \in Seq(Byte) /\ Len(Wire) = Len(stream) + Len(line)
      /\ \A i \in 1 .. Len(stream) + Len(line) :
            Wire[i] = IF i <= Len(stream) THEN stream[i] ELSE line[i - Len(stream)]
  BY ONLY <1>1, ConcatProperties DEF Wire
<1>3. \A i \in 1 .. Len(stream) : Wire[i] = stream[i]
  BY ONLY <1>1, <1>2
<1>4. ASSUME NEW i \in 1 .. Len(Wire) PROVE Wire[i] \in Byte
  BY ONLY <1>2, <1>4, ElementOfSeq
<1> QED
  <2>1. \A i \in 1 .. LineLength : LineByte(i) \in Byte
    BY ONLY <1>4 DEF LineLength, LineByte
  <2>2. \A i \in 1 .. Len(stream) : LineByte(i) = stream[i]
    BY ONLY <1>3 DEF LineByte
  <2>3. LineLength \in Nat /\ LineLength = Len(stream) + Len(line)
    BY ONLY <1>1, <1>2 DEF LineLength
  <2> QED
    BY ONLY <1>1, <1>2, <2>1, <2>2, <2>3, Sizes

-----------------------------------------------------------------------------

(***************************************************************************)
(* A header on the line, the size it announces, and where the reader goes  *)
(* on behind it: at the end of the frame, or of the header if that does    *)
(* not fit.                                                                *)
(***************************************************************************)
HeaderAt(k) == k \in Nat /\ k + 3 <= LineLength /\ LineByte(k + 1) = StartByte

SizeAt(k) == HeaderSize + LineByte(k + 2) + Radix * LineByte(k + 3)

Jump(k) == IF SizeAt(k) > MAX_FRAME_SIZE THEN k + HeaderSize ELSE k + SizeAt(k)

(***************************************************************************)
(* What can be said of it from the two length bytes: only if the second is *)
(* zero does the frame fit.                                                *)
(***************************************************************************)
Jumps(k, lo, hi) ==
    /\ lo \in Nat /\ hi \in Nat /\ lo = LineByte(k + 2) /\ hi = LineByte(k + 3)
    /\ SizeAt(k) \in Nat /\ SizeAt(k) >= 3 /\ Jump(k) \in Nat
    /\ k + 3 <= Jump(k) /\ Jump(k) <= k + MAX_FRAME_SIZE /\ Jump(k) <= k + 3 + lo
    /\ hi = 0 => SizeAt(k) = 3 + lo
    /\ hi # 0 => Jump(k) = k + 3 /\ SizeAt(k) > MAX_FRAME_SIZE
    /\ SizeAt(k) > MAX_FRAME_SIZE => Jump(k) = k + 3
    /\ SizeAt(k) <= MAX_FRAME_SIZE => Jump(k) = k + SizeAt(k)

LEMMA JumpFacts ==
    ASSUME LineTyped, NEW k, HeaderAt(k)
    PROVE  Jumps(k, LineByte(k + 2), LineByte(k + 3))
<1>1. k \in Nat /\ k + 3 <= LineLength /\ LineLength \in Nat
  BY LineBytes DEF HeaderAt
<1>2. k + 2 \in 1 .. LineLength /\ k + 3 \in 1 .. LineLength
  BY ONLY <1>1
<1> PICK lo : lo = LineByte(k + 2)
  OBVIOUS
<1> PICK hi : hi = LineByte(k + 3)
  OBVIOUS
<1>3. lo \in Nat /\ hi \in Nat
  BY <1>2, LineBytes
<1> PICK r \in Nat, m \in Nat : r = Radix /\ m = MAX_FRAME_SIZE
  BY Sizes
<1>4. SizeAt(k) = 3 + lo + r * hi /\ 3 < m /\ m < r
  BY ONLY Sizes, lo = LineByte(k + 2), hi = LineByte(k + 3), r = Radix, m = MAX_FRAME_SIZE
     DEF SizeAt
<1> PICK size : size = SizeAt(k)
  OBVIOUS
<1>5. size \in Nat /\ size >= 3 + lo /\ (hi = 0 => size = 3 + lo) /\ (hi # 0 => size > m)
  <2>1. CASE hi = 0
    <3>1. r * hi = 0
      BY ONLY <2>1, r \in Nat
    <3> QED
      BY ONLY <1>3, <1>4, <2>1, <3>1, size = SizeAt(k), r \in Nat, m \in Nat
  <2>2. CASE hi # 0
    <3>1. r * hi = r * (hi - 1) + r /\ r * (hi - 1) \in Nat
      BY ONLY <1>3, <2>2, r \in Nat
    <3> QED
      BY ONLY <1>3, <1>4, <2>2, <3>1, size = SizeAt(k), r \in Nat, m \in Nat
  <2> QED
    BY ONLY <2>1, <2>2
<1>6. Jump(k) = IF size > m THEN k + 3 ELSE k + size
  BY ONLY Sizes, size = SizeAt(k), m = MAX_FRAME_SIZE DEF Jump
<1>7. /\ Jump(k) \in Nat /\ k + 3 <= Jump(k) /\ Jump(k) <= k + m /\ Jump(k) <= k + 3 + lo
      /\ size > m => Jump(k) = k + 3
      /\ size <= m => Jump(k) = k + size
  <2>1. CASE size > m
    BY ONLY <1>1, <1>3, <1>4, <1>5, <1>6, <2>1, m \in Nat
  <2>2. CASE ~(size > m)
    <3>1. hi = 0
      BY ONLY <1>5, <2>2
    <3> QED
      BY ONLY <1>1, <1>3, <1>4, <1>5, <1>6, <2>2, <3>1, m \in Nat
  <2> QED
    BY ONLY <2>1, <2>2
<1> QED
  BY ONLY <1>3, <1>5, <1>7, size = SizeAt(k), m = MAX_FRAME_SIZE, lo = LineByte(k + 2),
          hi = LineByte(k + 3) DEF Jumps

-----------------------------------------------------------------------------

(***************************************************************************)
(* A frame without a fault: its header announces it, and no other byte of  *)
(* it is a start byte.                                                     *)
(***************************************************************************)
Sound(n) == n \in 1 .. Len(sent) /\ OnLine(n) /\ sent[n].fault = "none"

SoundFrame(n) ==
    /\ HeaderAt(Place(n)) /\ SizeAt(Place(n)) <= MAX_FRAME_SIZE
    /\ sent[n].end = Place(n) + SizeAt(Place(n))
    /\ \A k \in Place(n) + 1 .. sent[n].end - 1 : LineByte(k + 1) # StartByte
    /\ StartByte > 0

(***************************************************************************)
(* Where a frame lies: numbers.                                            *)
(***************************************************************************)
LEMMA PlaceFacts ==
    ASSUME LineHoldsSent, NEW n \in 1 .. Len(sent)
    PROVE  /\ Place(n) \in Nat /\ sent[n].end \in Nat /\ Place(n) + 2 <= sent[n].end
           /\ sent[n].end <= LineLength /\ OnLine(n)
           /\ sent[n].fault \in {"none", "lost", "changed"}
           /\ sent[n].fault = "none" => Place(n) + 3 <= sent[n].end
<1>1. /\ sent[n] \in SentRecords /\ OnLine(n) /\ sent[n].end <= LineLength
  <2>1. sent \in Seq(SentRecords)
    BY DEF LineHoldsSent
  <2>2. sent[n] \in SentRecords
    BY ONLY <2>1, n \in 1 .. Len(sent), ElementOfSeq
  <2> QED
    BY <2>2 DEF LineHoldsSent
<1>2. /\ Place(n) \in Nat /\ sent[n].end \in Nat
      /\ sent[n].fault \in {"none", "lost", "changed"}
  BY ONLY <1>1 DEF SentRecords, Place
<1>3. PICK f \in Frames : \E p \in 1 .. Len(f) :
         \/ sent[n].fault = "none" /\ LiesWhole(n, f)
         \/ sent[n].fault = "lost" /\ LiesWithout(n, f, p)
         \/ sent[n].fault = "changed" /\ LiesChanged(n, f, p)
  BY ONLY <1>1 DEF OnLine
<1>4. Len(f) \in Nat /\ 3 <= Len(f)
  BY ONLY FrameFacts DEF IsSent
<1>5. \/ sent[n].end = Place(n) + Len(f)
      \/ sent[n].end = Place(n) + Len(f) - 1 /\ sent[n].fault # "none"
  BY ONLY <1>3 DEF LiesWhole, LiesWithout, LiesChanged
<1> QED
  BY ONLY <1>1, <1>2, <1>4, <1>5

LEMMA SoundFacts ==
    ASSUME LineTyped, LineHoldsSent, NEW n, Sound(n)
    PROVE  SoundFrame(n)
<1>1. n \in 1 .. Len(sent) /\ OnLine(n) /\ sent[n].fault = "none"
  BY DEF Sound
<1>2. PICK f \in Frames : LiesWhole(n, f)
  BY ONLY <1>1 DEF OnLine
<1>3. IsSent(f)
  BY ONLY FrameFacts
<1>4. /\ Len(f) \in Nat /\ 3 <= Len(f) /\ Len(f) <= MAX_FRAME_SIZE
      /\ f[1] = StartByte /\ f[2] = Len(f) - 3 /\ f[3] = 0 /\ StartByte > 0
      /\ \A i \in 2 .. Len(f) : f[i] # StartByte
  BY ONLY <1>3 DEF IsSent
<1>5. /\ sent[n].end = Place(n) + Len(f)
      /\ \A i \in 1 .. Len(f) : LineByte(Place(n) + i) = f[i]
  BY ONLY <1>2 DEF LiesWhole
<1>6. Place(n) \in Nat /\ sent[n].end <= LineLength /\ LineLength \in Nat
  BY ONLY <1>1, LineHoldsSent, LineTyped, PlaceFacts, LineBytes
<1> PICK at \in Nat, l \in Nat : at = Place(n) /\ l = Len(f)
  BY ONLY <1>4, <1>6
<1>7. 1 \in 1 .. l /\ 2 \in 1 .. l /\ 3 \in 1 .. l
  BY ONLY <1>4, l = Len(f), l \in Nat
<1>8. /\ LineByte(at + 1) = StartByte /\ LineByte(at + 2) = l - 3 /\ LineByte(at + 3) = 0
  BY ONLY <1>4, <1>5, <1>7, at = Place(n), l = Len(f)
<1>9. HeaderAt(at)
  BY ONLY <1>4, <1>5, <1>6, <1>8, at \in Nat, at = Place(n), l = Len(f) DEF HeaderAt
<1>10. SizeAt(at) = l
  <2>1. Jumps(at, LineByte(at + 2), LineByte(at + 3))
    BY ONLY <1>9, LineTyped, JumpFacts
  <2>2. SizeAt(at) = 3 + LineByte(at + 2)
    BY ONLY <1>8, <2>1 DEF Jumps
  <2> QED
    BY ONLY <1>8, <2>2, l \in Nat
<1>11. ASSUME NEW k \in at + 1 .. sent[n].end - 1 PROVE LineByte(k + 1) # StartByte
  <2>1. k \in at + 1 .. at + l - 1
    BY ONLY <1>5, k \in at + 1 .. sent[n].end - 1, at = Place(n), l = Len(f)
  <2> PICK i \in 2 .. l : k + 1 = at + i
    <3>1. k - at + 1 \in 2 .. l /\ k + 1 = at + (k - at + 1)
      BY ONLY <2>1, at \in Nat, l \in Nat
    <3> QED
      BY ONLY <3>1
  <2>2. i \in 1 .. l
    BY ONLY i \in 2 .. l, l \in Nat
  <2> QED
    BY ONLY <1>4, <1>5, <2>2, k + 1 = at + i, i \in 2 .. l, at = Place(n), l = Len(f)
<1> QED
  BY ONLY <1>4, <1>5, <1>9, <1>10, <1>11, at = Place(n), l = Len(f) DEF SoundFrame

(***************************************************************************)
(* A frame that lost a byte: only its own start byte is one, and the frame *)
(* its header then announces reaches one byte into the next.               *)
(***************************************************************************)
LEMMA LostJump ==
    ASSUME LineTyped, LineHoldsSent, NEW n \in 1 .. Len(sent), sent[n].fault = "lost",
           NEW k, HeaderAt(k), Place(n) <= k, k < sent[n].end
    PROVE  k = Place(n) /\ Jump(k) <= sent[n].end + 1
<1>1. /\ OnLine(n) /\ Place(n) \in Nat /\ sent[n].end \in Nat /\ k \in Nat
  BY PlaceFacts DEF HeaderAt
<1>2. PICK f \in Frames : \E p \in 1 .. Len(f) : LiesWithout(n, f, p)
  BY ONLY <1>1, sent[n].fault = "lost" DEF OnLine
<1>3. PICK p \in 1 .. Len(f) : LiesWithout(n, f, p)
  BY ONLY <1>2
<1>4. /\ Len(f) \in Nat /\ 3 <= Len(f)
      /\ f[1] = StartByte /\ f[2] = Len(f) - 3 /\ f[3] = 0
      /\ \A i \in 2 .. Len(f) : f[i] # StartByte
  BY ONLY FrameFacts DEF IsSent
<1>5. /\ sent[n].end = Place(n) + Len(f) - 1
      /\ \A i \in 1 .. Len(f) - 1 :
            LineByte(Place(n) + i) = IF i < p THEN f[i] ELSE f[i + 1]
  BY ONLY <1>3 DEF LiesWithout
<1> PICK at \in Nat, l \in Nat : at = Place(n) /\ l = Len(f)
  BY ONLY <1>1, <1>4
<1> PICK q \in 1 .. l : q = p
  BY ONLY p \in 1 .. Len(f), l = Len(f)
<1>6. LineByte(k + 1) = StartByte
  BY DEF HeaderAt
<1>7. k = at
  <2> SUFFICES ASSUME k # at PROVE FALSE
    OBVIOUS
  <2>1. k \in Nat /\ at <= k /\ k < at + l - 1
    BY ONLY <1>1, <1>5, Place(n) <= k, k < sent[n].end, at = Place(n), l = Len(f)
  <2> PICK i \in 2 .. l - 1 : k + 1 = at + i
    <3>1. k - at + 1 \in 2 .. l - 1 /\ k + 1 = at + (k - at + 1)
      BY ONLY <2>1, k # at, at \in Nat, l \in Nat
    <3> QED
      BY ONLY <3>1
  <2>2. i \in 1 .. l - 1 /\ i \in 2 .. l /\ i + 1 \in 2 .. l
    BY ONLY i \in 2 .. l - 1, l \in Nat
  <2>3. LineByte(at + i) = f[i] \/ LineByte(at + i) = f[i + 1]
    BY ONLY <1>5, <2>2, at = Place(n), l = Len(f)
  <2> QED
    BY ONLY <1>4, <1>6, <2>2, <2>3, k + 1 = at + i, l = Len(f)
<1>8. LineByte(at + 2) \in {0, l - 3}
  <2>1. 2 \in 1 .. l - 1 /\ 2 + 1 = 3
    BY ONLY <1>4, l = Len(f), l \in Nat
  <2>2. LineByte(at + 2) = f[2] \/ LineByte(at + 2) = f[3]
    BY ONLY <1>5, <2>1, at = Place(n), l = Len(f)
  <2> QED
    BY ONLY <1>4, <2>2, l = Len(f)
<1>9. Jumps(k, LineByte(k + 2), LineByte(k + 3))
  BY ONLY LineTyped, HeaderAt(k), JumpFacts
<1>10. Jump(k) \in Nat /\ Jump(k) <= k + 3 + LineByte(k + 2)
  BY ONLY <1>9 DEF Jumps
<1>11. Jump(k) <= at + l
  BY ONLY <1>4, <1>7, <1>8, <1>10, at \in Nat, l \in Nat, l = Len(f)
<1> QED
  BY ONLY <1>5, <1>7, <1>10, <1>11, at = Place(n), l = Len(f), at \in Nat, l \in Nat

(***************************************************************************)
(* A frame with a changed byte: the frame announced by the first header in *)
(* it takes every start byte behind that.                                  *)
(***************************************************************************)
LEMMA ChangedHeaders ==
    ASSUME LineTyped, LineHoldsSent, NEW n \in 1 .. Len(sent), sent[n].fault = "changed",
           NEW k, HeaderAt(k), Place(n) <= k,
           NEW j \in Nat, k + SizeAt(k) <= j, j < sent[n].end, LineByte(j + 1) = StartByte
    PROVE  FALSE
<1>1. /\ OnLine(n) /\ Place(n) \in Nat /\ sent[n].end \in Nat /\ k \in Nat
  BY PlaceFacts DEF HeaderAt
<1>2. PICK f \in Frames : \E p \in 1 .. Len(f) : LiesChanged(n, f, p)
  BY ONLY <1>1, sent[n].fault = "changed" DEF OnLine
<1>3. PICK p \in 1 .. Len(f) : LiesChanged(n, f, p)
  BY ONLY <1>2
<1>4. /\ Len(f) \in Nat /\ 3 <= Len(f)
      /\ f[1] = StartByte /\ f[2] = Len(f) - 3 /\ f[3] = 0
      /\ \A i \in 2 .. Len(f) : f[i] # StartByte
  BY ONLY FrameFacts DEF IsSent
<1>5. /\ sent[n].end = Place(n) + Len(f)
      /\ \A i \in 1 .. Len(f) : i # p => LineByte(Place(n) + i) = f[i]
  BY ONLY <1>3 DEF LiesChanged
<1> PICK at \in Nat, l \in Nat : at = Place(n) /\ l = Len(f)
  BY ONLY <1>1, <1>4
<1> PICK q \in 1 .. l : q = p
  BY ONLY p \in 1 .. Len(f), l = Len(f)
<1>6. Jumps(k, LineByte(k + 2), LineByte(k + 3))
  BY ONLY LineTyped, HeaderAt(k), JumpFacts
<1> PICK size \in Nat : size = SizeAt(k)
  BY ONLY <1>6 DEF Jumps
<1>7. size >= 3 /\ at <= k /\ k + size <= j /\ j < at + l
  BY ONLY <1>5, <1>6, k + SizeAt(k) <= j, j < sent[n].end, Place(n) <= k, at = Place(n),
          l = Len(f), size = SizeAt(k) DEF Jumps
<1>8. ASSUME NEW i \in 2 .. l, LineByte(at + i) = StartByte PROVE i = q
  <2>1. i \in 1 .. l
    BY ONLY i \in 2 .. l, l \in Nat
  <2> QED
    BY ONLY <1>4, <1>5, <1>8, <2>1, at = Place(n), l = Len(f), q = p
<1>9. j + 1 = at + q /\ q \in 2 .. l
  <2>1. j - at + 1 \in 2 .. l /\ j + 1 = at + (j - at + 1)
    BY ONLY <1>1, <1>7, at \in Nat, l \in Nat, j \in Nat, size \in Nat
  <2>2. j - at + 1 = q
    BY ONLY <1>8, <2>1, LineByte(j + 1) = StartByte
  <2> QED
    BY ONLY <2>1, <2>2
<1>10. k = at
  <2> SUFFICES ASSUME k # at PROVE FALSE
    OBVIOUS
  <2>1. k - at + 1 \in 2 .. l /\ k + 1 = at + (k - at + 1)
    BY ONLY <1>1, <1>7, k # at, at \in Nat, l \in Nat, j \in Nat, size \in Nat
  <2>2. LineByte(k + 1) = StartByte
    BY DEF HeaderAt
  <2>3. k - at + 1 = q
    BY ONLY <1>8, <2>1, <2>2
  <2> QED
    BY ONLY <1>1, <1>7, <1>9, <2>1, <2>3, at \in Nat, l \in Nat, j \in Nat, size \in Nat
<1>11. q > 3
  BY ONLY <1>7, <1>9, <1>10, at \in Nat, l \in Nat, j \in Nat, size \in Nat
<1>12. LineByte(at + 2) = l - 3 /\ LineByte(at + 3) = 0
  <2>1. 2 \in 1 .. l /\ 3 \in 1 .. l /\ 2 # q /\ 3 # q
    BY ONLY <1>4, <1>11, l = Len(f), l \in Nat, q \in 1 .. l
  <2> QED
    BY ONLY <1>4, <1>5, <2>1, at = Place(n), l = Len(f), q = p
<1>13. size = l
  <2>1. size = 3 + LineByte(at + 2)
    BY ONLY <1>6, <1>10, <1>12, size = SizeAt(k) DEF Jumps
  <2> QED
    BY ONLY <1>12, <2>1, l \in Nat
<1> QED
  BY ONLY <1>7, <1>10, <1>13, at \in Nat, l \in Nat, j \in Nat

-----------------------------------------------------------------------------

(***************************************************************************)
(* The frame a position on the line lies in is in front of every frame     *)
(* that begins behind it.                                                  *)
(***************************************************************************)
LEMMA FrameInFront ==
    ASSUME LineTyped, LineHoldsSent, NEW n \in 1 .. Len(sent), NEW k \in Nat, k < Place(n)
    PROVE  \E j \in 1 .. Len(sent) :
              j < n /\ Place(j) <= k /\ k < sent[j].end /\ sent[j].end <= Place(n)
<1>1. Place(n) \in Nat /\ sent[n].end \in Nat /\ Place(n) + 2 <= sent[n].end
      /\ sent[n].end <= LineLength /\ LineLength \in Nat
  BY PlaceFacts, LineBytes
<1>2. k \in 0 .. LineLength - 1
  BY ONLY <1>1, k \in Nat, k < Place(n)
<1>3. PICK j \in 1 .. Len(sent) : Place(j) <= k /\ k < sent[j].end
  BY <1>2 DEF LineHoldsSent
<1>4. /\ Place(j) \in Nat /\ sent[j].end \in Nat /\ n \in Int /\ j \in Int
      /\ j < n => sent[j].end <= Place(n)
      /\ n < j => sent[n].end <= Place(j)
  BY PlaceFacts DEF LineHoldsSent
<1>5. j < n
  BY ONLY <1>1, <1>3, <1>4, k \in Nat, k < Place(n)
<1> QED
  BY ONLY <1>3, <1>4, <1>5

(***************************************************************************)
(* A frame without a fault that begins between a header and the place      *)
(* where the reader goes on is excused.                                    *)
(***************************************************************************)
JumpedOver(k, n) == Sound(n) /\ HeaderAt(k) /\ k < Place(n) /\ Place(n) < Jump(k)

LEMMA JumpExcused ==
    ASSUME LineTyped, LineHoldsSent, NEW k, NEW n, JumpedOver(k, n)
    PROVE  Excused(n)
<1>1. /\ n \in 1 .. Len(sent) /\ sent[n].fault = "none" /\ Sound(n)
      /\ HeaderAt(k) /\ k \in Nat /\ k < Place(n) /\ Place(n) < Jump(k)
      /\ k + 3 <= LineLength
  BY DEF JumpedOver, Sound, HeaderAt
<1>2. PICK j \in 1 .. Len(sent) :
         j < n /\ Place(j) <= k /\ k < sent[j].end /\ sent[j].end <= Place(n)
  BY <1>1, FrameInFront
<1>3. /\ Place(j) \in Nat /\ sent[j].end \in Nat /\ Place(n) \in Nat
      /\ sent[j].fault \in {"none", "lost", "changed"} /\ OnLine(j)
  BY <1>1, PlaceFacts
<1>4. Jumps(k, LineByte(k + 2), LineByte(k + 3))
  BY ONLY LineTyped, <1>1, JumpFacts
<1> PICK to \in Nat, m \in Nat, pn \in Nat, e \in Nat :
       to = Jump(k) /\ m = MAX_FRAME_SIZE /\ pn = Place(n) /\ e = sent[j].end
  BY ONLY <1>3, <1>4, Sizes DEF Jumps
<1>5. to <= k + m /\ 3 < m /\ k < pn /\ pn < to /\ k < e /\ e <= pn
  BY ONLY <1>1, <1>2, <1>4, Sizes, to = Jump(k), m = MAX_FRAME_SIZE, pn = Place(n),
          e = sent[j].end DEF Jumps
<1>6. j \in 1 .. n - 1 /\ n \in Nat /\ j \in Nat /\ n <= Len(sent) /\ j + 1 \in 1 .. Len(sent)
  <2>1. sent \in Seq(SentRecords)
    BY DEF LineHoldsSent
  <2>2. Len(sent) \in Nat
    BY ONLY <2>1, LenProperties
  <2> QED
    BY ONLY <1>1, <1>2, <2>2, j \in 1 .. Len(sent)
<1>7. sent[j].fault # "none"
  <2> SUFFICES ASSUME sent[j].fault = "none" PROVE FALSE
    OBVIOUS
  <2>1. SoundFrame(j)
    BY ONLY LineTyped, LineHoldsSent, <1>3, sent[j].fault = "none", j \in 1 .. Len(sent),
            SoundFacts DEF Sound
  <2>2. k = Place(j)
    <3> SUFFICES ASSUME k # Place(j) PROVE FALSE
      OBVIOUS
    <3>1. k \in Place(j) + 1 .. sent[j].end - 1
      BY ONLY <1>1, <1>2, <1>3, k # Place(j)
    <3> QED
      BY ONLY <1>1, <2>1, <3>1 DEF SoundFrame, HeaderAt
  <2>3. Jump(k) = sent[j].end
    BY ONLY <1>4, <2>1, <2>2 DEF SoundFrame, Jumps
  <2> QED
    BY ONLY <1>5, <2>3, to = Jump(k), e = sent[j].end
<1>8. j \in Faulty
  BY ONLY <1>7, j \in 1 .. Len(sent) DEF Faulty
<1>9. Place(j + 1) = e
  <2>1. j + 1 > 1 /\ j + 1 - 1 = j
    BY ONLY <1>6
  <2> QED
    BY <1>6, <2>1 DEF LineHoldsSent
<1>10. InWindow(n) \/ pn >= e - 3 + m
  <2>1. pn < e - 3 + m => InWindow(n)
    BY ONLY <1>2, <1>8, Sizes, pn = Place(n), e = sent[j].end, m = MAX_FRAME_SIZE DEF InWindow
  <2> QED
    BY ONLY <2>1, pn \in Nat, e \in Nat, m \in Nat
<1>11. CASE n = j + 1
  <2>1. pn = e
    BY ONLY <1>9, <1>11, pn = Place(n)
  <2>2. InWindow(n)
    BY ONLY <1>5, <1>10, <2>1, e \in Nat, m \in Nat
  <2>3. NextToFault(n)
    <3>1. n > 1 /\ n - 1 = j
      BY ONLY <1>6, <1>11
    <3> QED
      BY ONLY <1>3, <1>6, <1>7, <3>1 DEF NextToFault
  <2> QED
    BY ONLY <2>2, <2>3 DEF Excused
<1>12. CASE n # j + 1
  <2>1. j + 1 < n
    BY ONLY <1>2, <1>6, <1>12
  <2>2. /\ Place(j + 1) + 2 <= sent[j + 1].end /\ sent[j + 1].end \in Nat
        /\ sent[j + 1].fault = "none" => Place(j + 1) + 3 <= sent[j + 1].end
    BY ONLY <1>6, LineHoldsSent, PlaceFacts
  <2>3. sent[j + 1].end <= pn
    BY <1>1, <1>6, <2>1 DEF LineHoldsSent
  <2> PICK e2 \in Nat : e2 = sent[j + 1].end
    BY ONLY <2>2
  <2>4. e + 2 <= e2 /\ e2 <= pn /\ (sent[j + 1].fault = "none" => e + 3 <= e2)
    BY ONLY <1>9, <2>2, <2>3, e2 = sent[j + 1].end
  <2>5. sent[j].fault = "changed"
    <3> SUFFICES ASSUME sent[j].fault = "lost" PROVE FALSE
      BY <1>3, <1>7
    <3>1. to <= e + 1
      BY ONLY <1>1, <1>2, LineTyped, LineHoldsSent, sent[j].fault = "lost", LostJump,
              j \in 1 .. Len(sent), to = Jump(k), e = sent[j].end
    <3> QED
      BY ONLY <1>5, <2>4, <3>1, to \in Nat, e \in Nat, e2 \in Nat, pn \in Nat
  <2>6. NextToFault(n)
    BY ONLY <1>6, <2>5 DEF NextToFault
  <2>7. InWindow(n)
    <3>1. CASE k + 3 <= e
      BY ONLY <1>1, <1>5, <1>10, <3>1, pn \in Nat, e \in Nat, m \in Nat, to \in Nat
    <3>2. CASE sent[j + 1].fault # "none"
      <4>1. pn < e2 - 3 + m
        BY ONLY <1>1, <1>5, <2>4, pn \in Nat, e \in Nat, m \in Nat, to \in Nat, e2 \in Nat
      <4>2. j + 1 \in Faulty
        BY ONLY <1>6, <3>2 DEF Faulty
      <4> QED
        BY ONLY <2>1, <4>1, <4>2, Sizes, pn = Place(n), e2 = sent[j + 1].end,
                m = MAX_FRAME_SIZE DEF InWindow
    <3>3. CASE sent[j + 1].fault = "none" /\ ~(k + 3 <= e)
      <4>1. SoundFrame(j + 1)
        <5>1. Sound(j + 1)
          BY ONLY <1>6, <3>3, LineHoldsSent, PlaceFacts DEF Sound
        <5> QED
          BY ONLY <5>1, LineTyped, LineHoldsSent, SoundFacts
      <4>2. LineByte(e + 1) = StartByte /\ StartByte > 0
        BY ONLY <1>9, <4>1 DEF SoundFrame, HeaderAt
      <4> PICK s \in Nat : s = StartByte
        BY ONLY Sizes
      <4>3. s # 0 /\ s + 5 <= m
        BY ONLY <4>2, Sizes, s = StartByte, m = MAX_FRAME_SIZE, s \in Nat
      <4>4. CASE k + 2 = e
        <5>1. LineByte(k + 3) = StartByte
          <6>1. k + 3 = e + 1
            BY ONLY <1>1, <4>4, e \in Nat
          <6> QED
            BY ONLY <4>2, <6>1
        <5>2. to = k + 3
          BY ONLY <1>4, <4>3, <5>1, to = Jump(k), s = StartByte DEF Jumps
        <5> QED
          BY ONLY <1>1, <1>5, <2>4, <3>3, <4>4, <5>2, pn \in Nat, e \in Nat, e2 \in Nat
      <4>5. CASE k + 1 = e
        <5>1. LineByte(k + 2) = StartByte
          <6>1. k + 2 = e + 1
            BY ONLY <1>1, <4>5, e \in Nat
          <6> QED
            BY ONLY <4>2, <6>1
        <5>2. to <= k + 3 + s
          BY ONLY <1>4, <5>1, to = Jump(k), s = StartByte DEF Jumps
        <5> QED
          BY ONLY <1>1, <1>5, <1>10, <4>3, <4>5, <5>2, pn \in Nat, e \in Nat, m \in Nat,
                  s \in Nat, to \in Nat
      <4> QED
        BY ONLY <1>1, <1>5, <3>3, <4>4, <4>5, e \in Nat, SMTT(30)
    <3> QED
      BY ONLY <3>1, <3>2, <3>3
  <2> QED
    BY ONLY <2>6, <2>7 DEF Excused
<1> QED
  BY ONLY <1>11, <1>12

-----------------------------------------------------------------------------

(***************************************************************************)
(* What is put on the line for a frame: the frame, the frame without its   *)
(* p-th byte, or the frame with another p-th byte.                         *)
(***************************************************************************)
Carries(bytes, fault, f, p) ==
    \/ /\ fault = "none" /\ Len(bytes) = Len(f)
       /\ \A i \in 1 .. Len(f) : bytes[i] = f[i]
    \/ /\ fault = "lost" /\ Len(bytes) = Len(f) - 1
       /\ \A i \in 1 .. Len(f) - 1 : bytes[i] = IF i < p THEN f[i] ELSE f[i + 1]
    \/ /\ fault = "changed" /\ Len(bytes) = Len(f)
       /\ \A i \in 1 .. Len(f) : i # p => bytes[i] = f[i]

(***************************************************************************)
(* Behind the bytes sent before come the new ones.                         *)
(***************************************************************************)
PutBehind(bytes, fault) ==
    /\ UNCHANGED vars /\ line' \in Seq(Byte)
    /\ Len(bytes) \in Nat /\ Len(sent) \in Nat
    /\ LineLength' = LineLength + Len(bytes)
    /\ \A k \in 1 .. LineLength : Wire'[k] = Wire[k]
    /\ \A i \in 1 .. Len(bytes) : Wire'[LineLength + i] = bytes[i]
    /\ sent' \in Seq(SentRecords)
    /\ Len(sent') = Len(sent) + 1
    /\ \A n \in 1 .. Len(sent) : sent'[n] = sent[n]
    /\ sent'[Len(sent) + 1] =
          [begin |-> LineLength, end |-> LineLength + Len(bytes), fault |-> fault]

LEMMA PutFacts ==
    ASSUME LineTyped, LineHoldsSent, NEW bytes \in Seq(Byte),
           NEW fault \in {"none", "lost", "changed"}, Put(bytes, fault)
    PROVE  PutBehind(bytes, fault)
<1> DEFINE new == [begin |-> Len(stream) + Len(line),
                   end |-> Len(stream) + Len(line) + Len(bytes), fault |-> fault]
<1>1. /\ line' = line \o bytes /\ sent' = Append(sent, new) /\ UNCHANGED vars
  BY DEF Put
<1>2. /\ Len(stream) \in Nat /\ Len(line) \in Nat /\ LineLength \in Nat /\ Wire \in Seq(Byte)
      /\ LineLength = Len(stream) + Len(line) /\ Len(bytes) \in Nat
      /\ stream \in Seq(Byte) /\ line \in Seq(Byte) /\ sent \in Seq(SentRecords)
  BY LineBytes, LenProperties DEF LineTyped, LineHoldsSent
<1>3. Len(sent) \in Nat
  BY ONLY <1>2, LenProperties
<1>4. Wire' = Wire \o bytes
  <2>1. stream' = stream
    BY <1>1 DEF vars
  <2>2. stream \o (line \o bytes) = (stream \o line) \o bytes
    BY ONLY <1>2, bytes \in Seq(Byte), BytesAssociate
  <2> QED
    BY ONLY <1>1, <2>1, <2>2 DEF Wire
<1>5. line' \in Seq(Byte)
  BY ONLY <1>1, <1>2, bytes \in Seq(Byte), ConcatProperties
<1> PICK whole \in Seq(Byte) : whole = Wire
  BY ONLY <1>2
<1>6. /\ Len(whole \o bytes) = Len(whole) + Len(bytes)
      /\ \A k \in 1 .. Len(whole) + Len(bytes) :
            (whole \o bytes)[k] = IF k <= Len(whole) THEN whole[k] ELSE bytes[k - Len(whole)]
  BY ONLY ConcatProperties, whole \in Seq(Byte), bytes \in Seq(Byte)
<1> PICK l \in Nat, b \in Nat : l = Len(whole) /\ b = Len(bytes)
  BY ONLY <1>2, whole = Wire DEF LineLength
<1>7. \A k \in 1 .. l : Wire'[k] = Wire[k]
  <2> TAKE k \in 1 .. l
  <2>1. k \in 1 .. l + b /\ k <= l
    BY ONLY k \in 1 .. l, l \in Nat, b \in Nat
  <2> QED
    BY ONLY <1>4, <1>6, <2>1, l = Len(whole), b = Len(bytes), whole = Wire
<1>8. \A i \in 1 .. b : Wire'[l + i] = bytes[i]
  <2> TAKE i \in 1 .. b
  <2>1. l + i \in 1 .. l + b /\ ~(l + i <= l) /\ (l + i) - l = i
    BY ONLY i \in 1 .. b, l \in Nat, b \in Nat
  <2>2. Wire'[l + i] = bytes[(l + i) - l]
    BY ONLY <1>4, <1>6, <2>1, l = Len(whole), b = Len(bytes), whole = Wire
  <2> QED
    BY ONLY <2>1, <2>2
<1>9. LineLength' = l + b /\ LineLength = l
  BY ONLY <1>4, <1>6, l = Len(whole), b = Len(bytes), whole = Wire DEF LineLength
<1>10. new \in SentRecords
  BY ONLY <1>2, fault \in {"none", "lost", "changed"} DEF SentRecords
<1>11. /\ sent' \in Seq(SentRecords) /\ Len(sent') = Len(sent) + 1
       /\ \A n \in 1 .. Len(sent) : sent'[n] = sent[n]
       /\ sent'[Len(sent) + 1] = new
  BY ONLY <1>1, <1>2, <1>10, AppendProperties
<1>12. new = [begin |-> LineLength, end |-> LineLength + Len(bytes), fault |-> fault]
  BY ONLY <1>2
<1> QED
  BY ONLY <1>1, <1>2, <1>3, <1>5, <1>7, <1>8, <1>9, <1>11, <1>12, l = Len(whole), b = Len(bytes)
     DEF PutBehind

(***************************************************************************)
(* A frame on the line stays there.                                        *)
(***************************************************************************)
LEMMA FrameKept ==
    ASSUME LineTyped, LineHoldsSent, NEW n \in 1 .. Len(sent), sent'[n] = sent[n],
           \A k \in 1 .. LineLength : Wire'[k] = Wire[k]
    PROVE  OnLine(n)'
<1>1. /\ OnLine(n) /\ Place(n) \in Nat /\ sent[n].end <= LineLength /\ LineLength \in Nat
  BY PlaceFacts, LineBytes
<1>2. PICK f \in Frames : \E p \in 1 .. Len(f) :
         \/ sent[n].fault = "none" /\ LiesWhole(n, f)
         \/ sent[n].fault = "lost" /\ LiesWithout(n, f, p)
         \/ sent[n].fault = "changed" /\ LiesChanged(n, f, p)
  BY ONLY <1>1 DEF OnLine
<1>3. PICK p \in 1 .. Len(f) :
         \/ sent[n].fault = "none" /\ LiesWhole(n, f)
         \/ sent[n].fault = "lost" /\ LiesWithout(n, f, p)
         \/ sent[n].fault = "changed" /\ LiesChanged(n, f, p)
  BY ONLY <1>2
<1>4. Len(f) \in Nat
  BY ONLY FrameFacts DEF IsSent
<1>5. ASSUME NEW l \in Nat, sent[n].end = Place(n) + l, NEW i \in 1 .. l
      PROVE  Wire'[Place(n) + i] = LineByte(Place(n) + i)
  <2>1. Place(n) + i \in 1 .. LineLength
    BY ONLY <1>1, <1>5
  <2> QED
    BY <2>1 DEF LineByte
<1>6. CASE sent[n].fault = "none" /\ LiesWhole(n, f)
  <2>1. \A i \in 1 .. Len(f) : Wire'[Place(n) + i] = LineByte(Place(n) + i)
    BY ONLY <1>4, <1>5, <1>6 DEF LiesWhole
  <2>2. LiesWhole(n, f)'
    BY ONLY <1>6, <2>1, sent'[n] = sent[n] DEF LiesWhole, Place, LineByte
  <2> QED
    BY ONLY <1>6, <2>2, sent'[n] = sent[n], p \in 1 .. Len(f) DEF OnLine
<1>7. CASE sent[n].fault = "lost" /\ LiesWithout(n, f, p)
  <2>1. \A i \in 1 .. Len(f) - 1 : Wire'[Place(n) + i] = LineByte(Place(n) + i)
    <3>1. Len(f) - 1 \in Nat /\ Place(n) + Len(f) - 1 = Place(n) + (Len(f) - 1)
      BY ONLY <1>1, <1>4, p \in 1 .. Len(f)
    <3> QED
      BY ONLY <1>5, <1>7, <3>1 DEF LiesWithout
  <2>2. LiesWithout(n, f, p)'
    BY ONLY <1>7, <2>1, sent'[n] = sent[n] DEF LiesWithout, Place, LineByte
  <2> QED
    BY ONLY <1>7, <2>2, sent'[n] = sent[n], p \in 1 .. Len(f) DEF OnLine
<1>8. CASE sent[n].fault = "changed" /\ LiesChanged(n, f, p)
  <2>1. \A i \in 1 .. Len(f) : Wire'[Place(n) + i] = LineByte(Place(n) + i)
    BY ONLY <1>4, <1>5, <1>8 DEF LiesChanged
  <2>2. LiesChanged(n, f, p)'
    BY ONLY <1>8, <2>1, sent'[n] = sent[n] DEF LiesChanged, Place, LineByte
  <2> QED
    BY ONLY <1>8, <2>2, sent'[n] = sent[n], p \in 1 .. Len(f) DEF OnLine
<1> QED
  BY ONLY <1>3, <1>6, <1>7, <1>8

(***************************************************************************)
(* What is put on the line lies there.                                     *)
(***************************************************************************)
LEMMA FrameLies ==
    ASSUME NEW bytes, NEW fault, PutBehind(bytes, fault), LineLength \in Nat,
           NEW f \in Frames, NEW p \in 1 .. Len(f), Carries(bytes, fault, f, p),
           NEW n, n = Len(sent) + 1
    PROVE  OnLine(n)' /\ Len(bytes) >= 2
<1>1. /\ Place(n)' = LineLength /\ sent'[n].end = LineLength + Len(bytes)
      /\ sent'[n].fault = fault /\ Len(bytes) \in Nat
      /\ \A i \in 1 .. Len(bytes) : Wire'[LineLength + i] = bytes[i]
  BY DEF PutBehind, Place
<1>2. Len(f) \in Nat /\ Len(f) >= 3
  BY ONLY FrameFacts DEF IsSent
<1> PICK at \in Nat : at = LineLength
  OBVIOUS
<1>3. /\ Place(n)' = at /\ sent'[n].end = at + Len(bytes)
      /\ \A i \in 1 .. Len(bytes) : Wire'[at + i] = bytes[i]
  BY ONLY <1>1, at = LineLength
<1>4. CASE fault = "none"
  <2>1. Len(bytes) = Len(f) /\ \A i \in 1 .. Len(f) : bytes[i] = f[i]
    BY <1>4 DEF Carries
  <2>2. LiesWhole(n, f)'
    BY ONLY <1>3, <2>1 DEF LiesWhole, LineByte, Place
  <2> QED
    BY ONLY <1>1, <1>2, <1>4, <2>1, <2>2, p \in 1 .. Len(f) DEF OnLine
<1>5. CASE fault = "lost"
  <2>1. /\ Len(bytes) = Len(f) - 1
        /\ \A i \in 1 .. Len(f) - 1 : bytes[i] = IF i < p THEN f[i] ELSE f[i + 1]
    BY <1>5 DEF Carries
  <2>2. LiesWithout(n, f, p)'
    <3>1. sent'[n].end = at + Len(f) - 1
      BY ONLY <1>2, <1>3, <2>1, at \in Nat
    <3>2. \A i \in 1 .. Len(f) - 1 :
             Wire'[at + i] = IF i < p THEN f[i] ELSE f[i + 1]
      BY ONLY <1>3, <2>1
    <3> QED
      BY ONLY <1>3, <3>1, <3>2 DEF LiesWithout, LineByte, Place
  <2>3. Len(bytes) >= 2
    BY ONLY <1>2, <2>1
  <2> QED
    BY ONLY <1>1, <1>5, <2>2, <2>3, p \in 1 .. Len(f) DEF OnLine
<1>6. CASE fault = "changed"
  <2>1. /\ Len(bytes) = Len(f)
        /\ \A i \in 1 .. Len(f) : i # p => bytes[i] = f[i]
    BY <1>6 DEF Carries
  <2>2. LiesChanged(n, f, p)'
    BY ONLY <1>3, <2>1 DEF LiesChanged, LineByte, Place
  <2> QED
    BY ONLY <1>1, <1>2, <1>6, <2>1, <2>2, p \in 1 .. Len(f) DEF OnLine
<1> QED
  BY <1>4, <1>5, <1>6 DEF Carries

(***************************************************************************)
(* One more frame on the line: behind the others, and not yet passed.      *)
(***************************************************************************)
LEMMA LineExtended ==
    ASSUME LineTyped, LineHoldsSent, NEW bytes, NEW fault, PutBehind(bytes, fault),
           NEW f \in Frames, NEW p \in 1 .. Len(f), Carries(bytes, fault, f, p)
    PROVE  LineHoldsSent'
<1>1. /\ line' \in Seq(Byte) /\ Len(bytes) \in Nat /\ Len(sent) \in Nat
      /\ LineLength' = LineLength + Len(bytes) /\ LineLength \in Nat
      /\ \A k \in 1 .. LineLength : Wire'[k] = Wire[k]
      /\ sent' \in Seq(SentRecords) /\ Len(sent') = Len(sent) + 1
      /\ \A n \in 1 .. Len(sent) : sent'[n] = sent[n]
      /\ sent'[Len(sent) + 1] =
            [begin |-> LineLength, end |-> LineLength + Len(bytes), fault |-> fault]
  BY LineBytes DEF PutBehind
<1> PICK last \in Nat : last = Len(sent) + 1
  <2>1. Len(sent) + 1 \in Nat
    BY ONLY <1>1
  <2> QED
    BY ONLY <2>1
<1> PICK at \in Nat, len \in Nat : at = LineLength /\ len = Len(bytes)
  BY ONLY <1>1
<1>2. OnLine(last)' /\ len >= 2
  BY ONLY <1>1, PutBehind(bytes, fault), Carries(bytes, fault, f, p), p \in 1 .. Len(f),
          f \in Frames, last = Len(sent) + 1, len = Len(bytes), FrameLies
<1>3. /\ sent'[last].begin = at /\ sent'[last].end = at + len
      /\ LineLength' = at + len /\ LineLength = at
  BY ONLY <1>1, last = Len(sent) + 1, at = LineLength, len = Len(bytes)
<1>4. ASSUME NEW n \in 1 .. Len(sent)
      PROVE  /\ OnLine(n)' /\ sent'[n] = sent[n] /\ sent[n].begin \in Nat
             /\ sent[n].end \in Nat /\ sent[n].end <= at
  BY <1>1, <1>3, FrameKept, PlaceFacts DEF Place
<1>5. /\ \A n \in 1 .. Len(sent) : n > 1 => sent[n].begin = sent[n - 1].end
      /\ \A m, n \in 1 .. Len(sent) : m < n => sent[m].end <= sent[n].begin
      /\ \A k \in 0 .. at - 1 :
            \E n \in 1 .. Len(sent) : sent[n].begin <= k /\ k < sent[n].end
  BY <1>3 DEF LineHoldsSent, Place
<1>6. \A n \in 1 .. last : n # last => n \in 1 .. Len(sent)
  BY ONLY <1>1, last = Len(sent) + 1
<1>7. last > 1 => sent'[last].begin = sent'[last - 1].end
  <2> SUFFICES ASSUME last > 1 PROVE sent'[last].begin = sent'[last - 1].end
    OBVIOUS
  <2>1. last - 1 \in 1 .. Len(sent) /\ last - 1 = Len(sent)
    BY ONLY <1>1, last = Len(sent) + 1, last > 1
  <2> PICK e \in Nat : e = sent[last - 1].end
    BY ONLY <1>4, <2>1
  <2>2. e <= at /\ sent'[last - 1].end = e
    BY ONLY <1>4, <2>1, e = sent[last - 1].end
  <2>3. ~(e < at)
    <3> SUFFICES ASSUME e < at PROVE FALSE
      OBVIOUS
    <3>1. e \in 0 .. at - 1
      BY ONLY e < at, e \in Nat, at \in Nat
    <3>2. PICK n \in 1 .. Len(sent) : sent[n].begin <= e /\ e < sent[n].end
      BY ONLY <1>5, <3>1
    <3>3. n < last - 1 \/ n = last - 1
      BY ONLY <1>1, <2>1, n \in 1 .. Len(sent)
    <3>4. CASE n < last - 1
      <4>1. sent[n].end <= sent[last - 1].begin
        BY ONLY <1>5, <2>1, <3>4, n \in 1 .. Len(sent)
      <4>2. sent[last - 1].begin + 2 <= sent[last - 1].end
        BY ONLY <2>1, LineHoldsSent, PlaceFacts DEF Place
      <4>3. sent[last - 1].begin \in Nat /\ sent[n].end \in Nat
        BY ONLY <1>4, <2>1, n \in 1 .. Len(sent)
      <4> QED
        BY ONLY <3>2, <4>1, <4>2, <4>3, e \in Nat, e = sent[last - 1].end, SMTT(30)
    <3>5. CASE n = last - 1
      BY ONLY <3>2, <3>5, e = sent[last - 1].end, e \in Nat
    <3> QED
      BY ONLY <3>3, <3>4, <3>5
  <2>4. e = at
    BY ONLY <2>2, <2>3, e \in Nat, at \in Nat
  <2> QED
    BY ONLY <1>3, <2>2, <2>4
<1>8. ASSUME NEW n \in 1 .. last
      PROVE  /\ OnLine(n)' /\ sent'[n].end <= LineLength'
             /\ n > 1 => sent'[n].begin = sent'[n - 1].end
  <2>1. CASE n = last
    BY ONLY <1>2, <1>3, <1>7, <2>1, at \in Nat, len \in Nat
  <2>2. CASE n # last
    <3>1. n \in 1 .. Len(sent)
      BY ONLY <1>6, <2>2, n \in 1 .. last
    <3>2. sent'[n].end <= at + len
      BY ONLY <1>4, <3>1, at \in Nat, len \in Nat
    <3>3. n > 1 => n - 1 \in 1 .. Len(sent)
      BY ONLY <1>1, <3>1
    <3> QED
      BY ONLY <1>3, <1>4, <1>5, <3>1, <3>2, <3>3
  <2> QED
    BY ONLY <2>1, <2>2
<1>9. ASSUME NEW m \in 1 .. last, NEW n \in 1 .. last, m < n
      PROVE  sent'[m].end <= sent'[n].begin
  <2>1. m \in 1 .. Len(sent)
    BY ONLY <1>1, <1>9, last = Len(sent) + 1
  <2>2. CASE n = last
    BY ONLY <1>3, <1>4, <2>1, <2>2
  <2>3. CASE n # last
    BY ONLY <1>4, <1>5, <1>6, <1>9, <2>1, <2>3
  <2> QED
    BY ONLY <2>2, <2>3
<1>10. ASSUME NEW k \in 0 .. at + len - 1
       PROVE  \E n \in 1 .. last : sent'[n].begin <= k /\ k < sent'[n].end
  <2>1. CASE k < at
    <3>1. k \in 0 .. at - 1
      BY ONLY <2>1, k \in 0 .. at + len - 1, at \in Nat, len \in Nat
    <3>2. PICK n \in 1 .. Len(sent) : sent[n].begin <= k /\ k < sent[n].end
      BY ONLY <1>5, <3>1
    <3>3. n \in 1 .. last
      BY ONLY <1>1, last = Len(sent) + 1, n \in 1 .. Len(sent)
    <3> QED
      BY ONLY <1>4, <3>2, <3>3
  <2>2. CASE ~(k < at)
    <3>1. last \in 1 .. last /\ at <= k /\ k < at + len
      BY ONLY <1>1, <2>2, last = Len(sent) + 1, k \in 0 .. at + len - 1, at \in Nat, len \in Nat
    <3> QED
      BY ONLY <1>3, <3>1
  <2> QED
    BY ONLY <2>1, <2>2
<1>11. 1 .. Len(sent') = 1 .. last /\ 0 .. LineLength' - 1 = 0 .. at + len - 1
  BY ONLY <1>1, <1>3, last = Len(sent) + 1
<1> QED
  BY ONLY <1>1, <1>8, <1>9, <1>10, <1>11 DEF LineHoldsSent, Place

(***************************************************************************)
(* A frame without one of its bytes.                                       *)
(***************************************************************************)
LEMMA WithoutByte ==
    ASSUME NEW f \in Seq(Byte), NEW p \in 1 .. Len(f),
           NEW bytes, bytes = SubSeq(f, 1, p - 1) \o SubSeq(f, p + 1, Len(f))
    PROVE  /\ bytes \in Seq(Byte) /\ Len(bytes) = Len(f) - 1
           /\ \A i \in 1 .. Len(f) - 1 : bytes[i] = IF i < p THEN f[i] ELSE f[i + 1]
<1>1. Len(f) \in Nat /\ \A i \in 1 .. Len(f) : f[i] \in Byte
  BY LenProperties, ElementOfSeq
<1> PICK l \in Nat : l = Len(f)
  BY ONLY <1>1
<1> PICK q \in 1 .. l : q = p
  BY ONLY p \in 1 .. Len(f), l = Len(f)
<1>2. q - 1 \in Int /\ q + 1 \in Int /\ l \in Int /\ 1 \in Int /\ q \in Nat /\ q <= l
  BY ONLY l \in Nat, q \in 1 .. l
<1>3. /\ \A i \in 1 .. q - 1 : f[i] \in Byte
      /\ \A i \in q + 1 .. l : f[i] \in Byte
  <2>1. \A i \in 1 .. q - 1 : i \in 1 .. l
    BY ONLY <1>2
  <2>2. \A i \in q + 1 .. l : i \in 1 .. l
    BY ONLY <1>2
  <2> QED
    BY ONLY <1>1, <2>1, <2>2, l = Len(f)
<1> PICK a : a = SubSeq(f, 1, q - 1)
  OBVIOUS
<1> PICK b : b = SubSeq(f, q + 1, l)
  OBVIOUS
<1>4. /\ a \in Seq(Byte) /\ Len(a) = (IF 1 <= q - 1 THEN q - 1 - 1 + 1 ELSE 0)
      /\ \A i \in 1 .. q - 1 - 1 + 1 : a[i] = f[1 + i - 1]
  BY ONLY <1>2, <1>3, SubSeqProperties, a = SubSeq(f, 1, q - 1)
<1>5. /\ b \in Seq(Byte) /\ Len(b) = (IF q + 1 <= l THEN l - (q + 1) + 1 ELSE 0)
      /\ \A i \in 1 .. l - (q + 1) + 1 : b[i] = f[q + 1 + i - 1]
  BY ONLY <1>2, <1>3, SubSeqProperties, b = SubSeq(f, q + 1, l)
<1>6. Len(a) = q - 1 /\ Len(b) = l - q
  BY ONLY <1>2, <1>4, <1>5
<1>7. /\ a \o b \in Seq(Byte) /\ Len(a \o b) = Len(a) + Len(b)
      /\ \A i \in 1 .. Len(a) + Len(b) :
            (a \o b)[i] = IF i <= Len(a) THEN a[i] ELSE b[i - Len(a)]
  BY ONLY <1>4, <1>5, ConcatProperties
<1>8. bytes = a \o b
  BY ONLY bytes = SubSeq(f, 1, p - 1) \o SubSeq(f, p + 1, Len(f)), q = p, l = Len(f),
          a = SubSeq(f, 1, q - 1), b = SubSeq(f, q + 1, l)
<1>9. Len(bytes) = l - 1
  <2>1. Len(bytes) = Len(a) + Len(b)
    BY ONLY <1>7, <1>8
  <2> QED
    BY ONLY <1>2, <1>6, <2>1
<1>10. ASSUME NEW i \in 1 .. l - 1 PROVE bytes[i] = IF i < q THEN f[i] ELSE f[i + 1]
  <2>1. i \in 1 .. Len(a) + Len(b)
    BY ONLY <1>2, <1>6, <1>10
  <2>2. bytes[i] = IF i <= Len(a) THEN a[i] ELSE b[i - Len(a)]
    BY ONLY <1>7, <1>8, <2>1
  <2>3. CASE i < q
    <3>1. i <= Len(a) /\ i \in 1 .. q - 1 - 1 + 1 /\ 1 + i - 1 = i
      BY ONLY <1>2, <1>6, <1>10, <2>3
    <3> QED
      BY ONLY <1>4, <2>2, <2>3, <3>1
  <2>4. CASE ~(i < q)
    <3>1. /\ ~(i <= Len(a)) /\ i - Len(a) \in 1 .. l - (q + 1) + 1
          /\ q + 1 + (i - Len(a)) - 1 = i + 1
      BY ONLY <1>2, <1>6, <1>10, <2>4
    <3>2. b[i - Len(a)] = f[q + 1 + (i - Len(a)) - 1]
      BY ONLY <1>5, <3>1
    <3> QED
      BY ONLY <2>2, <2>4, <3>1, <3>2
  <2> QED
    BY ONLY <2>3, <2>4
<1> QED
  BY ONLY <1>7, <1>8, <1>9, <1>10, l = Len(f), q = p

(***************************************************************************)
(* The application puts a frame on the line, and the line may touch it.    *)
(***************************************************************************)
LEMMA FramePut ==
    ASSUME LineTyped, LineHoldsSent, Send \/ LoseByte \/ ChangeByte
    PROVE  \E bytes, fault : \E f \in Frames : \E p \in 1 .. Len(f) :
              PutBehind(bytes, fault) /\ Carries(bytes, fault, f, p)
<1>1. CASE Send
  <2>1. PICK f \in Frames : Put(f, "none")
    BY <1>1 DEF Send
  <2>2. f \in Seq(Byte) /\ 1 \in 1 .. Len(f)
    <3>1. f \in Seq(Byte) /\ Len(f) \in Nat /\ Len(f) >= 3
      BY ONLY FrameFacts DEF IsSent
    <3> QED
      BY ONLY <3>1
  <2>3. PutBehind(f, "none")
    BY <2>1, <2>2, PutFacts
  <2>4. Carries(f, "none", f, 1)
    BY DEF Carries
  <2> QED
    BY <2>2, <2>3, <2>4
<1>2. CASE LoseByte
  <2>1. PICK f \in Frames : \E i \in 1 .. Len(f) :
           Put(SubSeq(f, 1, i - 1) \o SubSeq(f, i + 1, Len(f)), "lost")
    BY <1>2 DEF LoseByte
  <2>2. PICK p \in 1 .. Len(f) :
           Put(SubSeq(f, 1, p - 1) \o SubSeq(f, p + 1, Len(f)), "lost")
    BY <2>1
  <2> PICK bytes : bytes = SubSeq(f, 1, p - 1) \o SubSeq(f, p + 1, Len(f))
    OBVIOUS
  <2>3. f \in Seq(Byte)
    BY ONLY FrameFacts DEF IsSent
  <2>4. /\ bytes \in Seq(Byte) /\ Len(bytes) = Len(f) - 1
        /\ \A i \in 1 .. Len(f) - 1 : bytes[i] = IF i < p THEN f[i] ELSE f[i + 1]
    BY ONLY <2>3, p \in 1 .. Len(f), WithoutByte,
            bytes = SubSeq(f, 1, p - 1) \o SubSeq(f, p + 1, Len(f))
  <2>5. PutBehind(bytes, "lost")
    BY <2>2, <2>4, PutFacts
  <2>6. Carries(bytes, "lost", f, p)
    BY <2>4 DEF Carries
  <2> QED
    BY <2>5, <2>6
<1>3. CASE ChangeByte
  <2>1. PICK f \in Frames : \E i \in 1 .. Len(f), byte \in Byte :
           Put([f EXCEPT ![i] = byte], "changed")
    BY <1>3 DEF ChangeByte
  <2>2. PICK p \in 1 .. Len(f), byte \in Byte : Put([f EXCEPT ![p] = byte], "changed")
    BY <2>1
  <2>3. f \in Seq(Byte)
    BY ONLY FrameFacts DEF IsSent
  <2>4. /\ [f EXCEPT ![p] = byte] \in Seq(Byte) /\ Len([f EXCEPT ![p] = byte]) = Len(f)
        /\ \A i \in 1 .. Len(f) :
              [f EXCEPT ![p] = byte][i] = IF i = p THEN byte ELSE f[i]
    BY ONLY <2>3, p \in 1 .. Len(f), byte \in Byte, ExceptSeq
  <2>5. PutBehind([f EXCEPT ![p] = byte], "changed")
    BY <2>2, <2>4, PutFacts
  <2>6. Carries([f EXCEPT ![p] = byte], "changed", f, p)
    BY <2>4 DEF Carries
  <2> QED
    BY <2>5, <2>6
<1> QED
  BY <1>1, <1>2, <1>3

(***************************************************************************)
(* A frame behind the others is not yet passed, and excuses nothing.       *)
(***************************************************************************)
LEMMA PutAccounted ==
    ASSUME IInv, LineTyped, LineHoldsSent, Accounted, NEW bytes, NEW fault,
           PutBehind(bytes, fault)
    PROVE  Accounted'
<1>1. /\ UNCHANGED vars /\ Len(sent) \in Nat /\ Len(sent') = Len(sent) + 1
      /\ \A n \in 1 .. Len(sent) : sent'[n] = sent[n]
      /\ sent'[Len(sent) + 1].begin = LineLength
  BY DEF PutBehind
<1>2. Cut' = Cut /\ calls' = calls
  BY <1>1 DEF vars, Cut
<1>3. Cut \in Int /\ LineLength \in Nat /\ Cut <= LineLength
  BY Numbers, LineBytes DEF IInv, Cut
<1> SUFFICES ASSUME NEW n \in 1 .. Len(sent'), sent'[n].fault = "none", Place(n)' < Cut
             PROVE  Delivered(n)' \/ Excused(n)'
  BY <1>2 DEF Accounted
<1>4. n \in 1 .. Len(sent)
  <2> SUFFICES ASSUME n = Len(sent) + 1 PROVE FALSE
    BY <1>1
  <2>1. Place(n)' = LineLength
    BY <1>1 DEF Place
  <2> QED
    BY ONLY <1>3, <2>1, Place(n)' < Cut
<1>5. Delivered(n) \/ Excused(n)
  BY <1>1, <1>4 DEF Accounted, Place
<1>6. CASE Delivered(n)
  BY <1>1, <1>2, <1>4, <1>6 DEF Delivered, Delivers
<1>7. ASSUME NEW m \in 1 .. n - 1 PROVE m \in 1 .. Len(sent) /\ m \in 1 .. Len(sent')
  BY ONLY <1>1, <1>4
<1>8. CASE Excused(n)
  <2>1. NextToFault(n)'
    <3>1. CASE n > 1 /\ sent[n - 1].fault = "lost"
      <4>1. n - 1 \in 1 .. n - 1
        BY ONLY <1>1, <1>4, <3>1
      <4> QED
        BY ONLY <1>1, <1>7, <3>1, <4>1 DEF NextToFault
    <3>2. CASE \E m \in 1 .. n - 1 : sent[m].fault = "changed"
      BY ONLY <1>1, <1>7, <3>2 DEF NextToFault
    <3> QED
      BY <1>8, <3>1, <3>2 DEF Excused, NextToFault
  <2>2. InWindow(n)'
    <3>1. PICK m \in Faulty : m < n /\ Place(n) < sent[m].end - HeaderSize + MAX_FRAME_SIZE
      BY <1>8 DEF Excused, InWindow
    <3>2. m \in 1 .. Len(sent) /\ sent[m].fault # "none"
      BY DEF Faulty
    <3>3. m \in 1 .. Len(sent') /\ sent'[m] = sent[m] /\ sent'[n] = sent[n]
      BY ONLY <1>1, <1>4, <3>2
    <3> QED
      BY ONLY <3>1, <3>2, <3>3 DEF InWindow, Faulty, Place
  <2> QED
    BY <2>1, <2>2 DEF Excused
<1> QED
  BY <1>5, <1>6, <1>8

-----------------------------------------------------------------------------

(***************************************************************************)
(* A read of the port moves bytes, and changes none.                       *)
(***************************************************************************)
LEMMA ReadMoves ==
    ASSUME LineTyped, ReadLine
    PROVE  /\ \E chunk \in Seq(Byte) \ {<<>>} : Read(chunk)
           /\ line' \in Seq(Byte) /\ Wire' = Wire /\ sent' = sent
<1>1. stream \in Seq(Byte) /\ line \in Seq(Byte) /\ Len(line) \in Nat
  BY LineBytes DEF LineTyped
<1>2. PICK n \in ReadSizes : /\ n <= Len(line) /\ Read(SubSeq(line, 1, n))
                             /\ line' = SubSeq(line, n + 1, Len(line)) /\ sent' = sent
  BY DEF ReadLine
<1>3. n \in Nat \ {0}
  BY SizesAssumption
<1> PICK l \in Nat : l = Len(line)
  BY ONLY <1>1
<1> PICK k \in Nat : k = n
  BY ONLY <1>3
<1>4. 1 <= k /\ k <= l /\ k + 1 \in Int /\ 1 \in Int
  BY ONLY <1>2, <1>3, k = n, k \in Nat, l = Len(line)
<1>5. \A i \in 1 .. l : line[i] \in Byte
  BY ONLY <1>1, ElementOfSeq, l = Len(line)
<1>6. /\ \A i \in 1 .. k : line[i] \in Byte
      /\ \A i \in k + 1 .. l : line[i] \in Byte
  <2>1. \A i \in 1 .. k : i \in 1 .. l
    BY ONLY <1>4, k \in Nat, l \in Nat
  <2>2. \A i \in k + 1 .. l : i \in 1 .. l
    BY ONLY <1>4, k \in Nat, l \in Nat
  <2> QED
    BY ONLY <1>5, <2>1, <2>2
<1> PICK a : a = SubSeq(line, 1, k)
  OBVIOUS
<1> PICK b : b = SubSeq(line, k + 1, l)
  OBVIOUS
<1>7. /\ a \in Seq(Byte) /\ Len(a) = (IF 1 <= k THEN k - 1 + 1 ELSE 0)
      /\ \A i \in 1 .. k - 1 + 1 : a[i] = line[1 + i - 1]
  BY ONLY <1>4, <1>6, SubSeqProperties, a = SubSeq(line, 1, k), k \in Nat
<1>8. /\ b \in Seq(Byte) /\ Len(b) = (IF k + 1 <= l THEN l - (k + 1) + 1 ELSE 0)
      /\ \A i \in 1 .. l - (k + 1) + 1 : b[i] = line[k + 1 + i - 1]
  BY ONLY <1>4, <1>6, SubSeqProperties, b = SubSeq(line, k + 1, l), l \in Nat
<1>9. Len(a) = k /\ Len(b) = l - k
  BY ONLY <1>4, <1>7, <1>8, k \in Nat, l \in Nat
<1>10. /\ a \o b \in Seq(Byte) /\ Len(a \o b) = Len(a) + Len(b)
       /\ \A i \in 1 .. Len(a) + Len(b) :
             (a \o b)[i] = IF i <= Len(a) THEN a[i] ELSE b[i - Len(a)]
  BY ONLY <1>7, <1>8, ConcatProperties
<1>11. a \o b = line
  <2>1. Len(a) + Len(b) = l
    BY ONLY <1>9, k \in Nat, l \in Nat
  <2>2. Len(a \o b) = Len(line)
    BY ONLY <1>10, <2>1, l = Len(line)
  <2>3. ASSUME NEW i \in 1 .. l PROVE (a \o b)[i] = line[i]
    <3>1. (a \o b)[i] = IF i <= k THEN a[i] ELSE b[i - k]
      BY ONLY <1>9, <1>10, <2>1, <2>3
    <3>2. CASE i <= k
      <4>1. i \in 1 .. k - 1 + 1 /\ 1 + i - 1 = i
        BY ONLY <2>3, <3>2, k \in Nat, l \in Nat
      <4> QED
        BY ONLY <1>7, <3>1, <3>2, <4>1
    <3>3. CASE ~(i <= k)
      <4>1. i - k \in 1 .. l - (k + 1) + 1 /\ k + 1 + (i - k) - 1 = i
        BY ONLY <2>3, <3>3, k \in Nat, l \in Nat
      <4> QED
        BY ONLY <1>8, <3>1, <3>3, <4>1
    <3> QED
      BY ONLY <3>2, <3>3
  <2>4. \A i \in 1 .. Len(a \o b) : (a \o b)[i] = line[i]
    BY ONLY <2>2, <2>3, l = Len(line)
  <2> QED
    BY ONLY <1>1, <1>10, <2>2, <2>4, SeqEqual
<1>12. a # <<>>
  BY ONLY <1>4, <1>9, EmptySeq
<1>13. Read(a) /\ stream' = stream \o a /\ line' = b
  BY ONLY <1>2, a = SubSeq(line, 1, k), b = SubSeq(line, k + 1, l), k = n, l = Len(line) DEF Read
<1>14. Wire' = Wire
  <2>1. Wire' = (stream \o a) \o b
    BY ONLY <1>13 DEF Wire
  <2>2. (stream \o a) \o b = stream \o (a \o b)
    BY ONLY <1>1, <1>7, <1>8, BytesAssociate
  <2> QED
    BY ONLY <1>11, <2>1, <2>2 DEF Wire
<1> QED
  BY ONLY <1>2, <1>7, <1>8, <1>12, <1>13, <1>14

(***************************************************************************)
(* The same bytes and the same frames: nothing changes where they lie, nor *)
(* what is excused.                                                        *)
(***************************************************************************)
LEMMA SentKept ==
    ASSUME LineHoldsSent, line' \in Seq(Byte), Wire' = Wire, sent' = sent
    PROVE  LineHoldsSent'
<1>1. \A n : OnLine(n)' <=> OnLine(n)
  BY ONLY Wire' = Wire, sent' = sent
     DEF OnLine, LiesWhole, LiesWithout, LiesChanged, Place, LineByte
<1>2. LineLength' = LineLength /\ \A n : Place(n)' = Place(n)
  BY ONLY Wire' = Wire, sent' = sent DEF LineLength, Place
<1> QED
  BY <1>1, <1>2 DEF LineHoldsSent

LEMMA ExcusesKept == ASSUME sent' = sent, NEW n PROVE Excused(n)' <=> Excused(n)
<1>1. Faulty' = Faulty
  BY DEF Faulty
<1> QED
  BY <1>1 DEF Excused, NextToFault, InWindow, Place

LEMMA AccountedKept ==
    ASSUME Accounted, sent' = sent, Cut' = Cut, calls' = calls
    PROVE  Accounted'
<1>1. \A n : Delivered(n)' <=> Delivered(n)
  BY DEF Delivered, Delivers
<1> QED
  BY <1>1, ExcusesKept DEF Accounted, Place

(***************************************************************************)
(* The header the reader is at, read off the line.                         *)
(***************************************************************************)
LEMMA HeaderOnLine ==
    ASSUME IInv, LineTyped, Framing!Received(HeaderSize), Framing!ByteAt(0) = StartByte
    PROVE  HeaderAt(Cut) /\ SizeAt(Cut) = Framing!FrameSize
<1>1. /\ Cut \in Nat /\ Cut + 3 <= Len(stream) /\ Len(stream) \in Nat /\ HeaderSize = 3
      /\ Len(stream) <= LineLength /\ LineLength \in Nat
      /\ \A i \in 1 .. Len(stream) : LineByte(i) = stream[i]
  <2>1. /\ Len(stream) \in Nat /\ consumed \in Nat /\ rx_position \in Nat /\ HeaderSize = 3
        /\ rx_position <= consumed
    BY Numbers DEF IInv, BufferHoldsTail
  <2>2. /\ LineLength = Len(stream) + Len(line) /\ Len(line) \in Nat
        /\ \A i \in 1 .. Len(stream) : LineByte(i) = stream[i]
    BY LineBytes
  <2>3. Cut \in Nat
    BY ONLY <2>1 DEF Cut
  <2>4. Cut + HeaderSize <= Len(stream)
    BY DEF Framing!Received, Cut
  <2>5. Len(stream) <= LineLength /\ LineLength \in Nat
    BY ONLY <2>1, <2>2
  <2> QED
    BY ONLY <2>1, <2>2, <2>3, <2>4, <2>5
<1>2. ASSUME NEW i \in {0, 1, 2} PROVE Framing!ByteAt(i) = LineByte(Cut + (1 + i))
  <2>1. Cut + (1 + i) \in 1 .. Len(stream)
    BY ONLY <1>1, i \in {0, 1, 2}
  <2>2. Framing!ByteAt(i) = stream[Cut + 1 + i]
    BY DEF Framing!ByteAt, Cut
  <2>3. Cut + 1 + i = Cut + (1 + i)
    BY ONLY <1>1, i \in {0, 1, 2}
  <2> QED
    BY ONLY <1>1, <2>1, <2>2, <2>3
<1>3. /\ Framing!ByteAt(0) = LineByte(Cut + 1) /\ Framing!ByteAt(1) = LineByte(Cut + 2)
      /\ Framing!ByteAt(2) = LineByte(Cut + 3)
  BY ONLY <1>2
<1>4. HeaderAt(Cut)
  <2>1. Cut + 3 <= LineLength
    BY ONLY <1>1
  <2> QED
    BY <1>1, <1>3, <2>1 DEF HeaderAt
<1> QED
  BY <1>3, <1>4, SameCommands DEF SizeAt, Framing!FrameSize

(***************************************************************************)
(* A turn of the loop: where the reader is then.                           *)
(***************************************************************************)
Moves ==
    \/ Cut' = Cut /\ calls' = calls
    \/ Cut' = Cut + 1 /\ calls' = calls /\ LineByte(Cut + 1) # StartByte
    \/ /\ Cut' = Jump(Cut) /\ calls' = calls
       /\ HeaderAt(Cut) /\ SizeAt(Cut) > MAX_FRAME_SIZE
    \/ /\ Cut' = Jump(Cut) /\ HeaderAt(Cut) /\ SizeAt(Cut) <= MAX_FRAME_SIZE
       /\ \E d : /\ calls' = Append(calls, d)
                 /\ d.end = Cut + SizeAt(Cut) /\ d.length = SizeAt(Cut)

LEMMA StepMoves == ASSUME IInv, LineTyped, Step PROVE Moves
<1>1. /\ Cut \in Nat /\ Len(stream) \in Nat
      /\ \A i \in 1 .. Len(stream) : LineByte(i) = stream[i]
  <2>1. /\ Len(stream) \in Nat /\ consumed \in Nat /\ rx_position \in Nat
        /\ rx_position <= consumed
    BY Numbers DEF IInv, BufferHoldsTail
  <2>2. Cut \in Nat
    BY ONLY <2>1 DEF Cut
  <2> QED
    BY ONLY <2>1, <2>2, LineTyped, LineBytes
<1>2. CASE UNCHANGED Framing!vars
  BY <1>2 DEF Framing!vars, Moves, Cut
<1>3. CASE Framing!PassNoise
  <2>1. Cut' = Cut + 1 /\ calls' = calls
    BY <1>3 DEF Framing!PassNoise, Cut
  <2>2. Cut + 1 <= Len(stream) /\ stream[Cut + 1 + 0] # StartByte
    BY <1>3 DEF Framing!PassNoise, Framing!Received, Framing!ByteAt, Cut
  <2>3. Cut + 1 + 0 = Cut + 1 /\ Cut + 1 \in 1 .. Len(stream)
    BY ONLY <1>1, <2>2
  <2>4. LineByte(Cut + 1) # StartByte
    BY ONLY <1>1, <2>2, <2>3
  <2> QED
    BY ONLY <2>1, <2>4 DEF Moves
<1>4. ASSUME Framing!Received(Framing!HeaderSize), Framing!ByteAt(0) = StartByte
      PROVE  /\ HeaderAt(Cut) /\ SizeAt(Cut) = Framing!FrameSize
             /\ Jumps(Cut, LineByte(Cut + 2), LineByte(Cut + 3))
  <2>1. Framing!Received(HeaderSize)
    BY <1>4, SameCommands
  <2>2. HeaderAt(Cut) /\ SizeAt(Cut) = Framing!FrameSize
    BY <1>4, <2>1, HeaderOnLine
  <2> QED
    BY ONLY <2>2, LineTyped, JumpFacts
<1>5. CASE Framing!PassHeader
  <2>1. /\ Framing!Received(Framing!HeaderSize) /\ Framing!ByteAt(0) = StartByte
        /\ Framing!FrameSize > MAX_FRAME_SIZE
        /\ Cut' = Cut + Framing!HeaderSize /\ calls' = calls
    BY <1>5 DEF Framing!PassHeader, Cut
  <2>2. /\ HeaderAt(Cut) /\ SizeAt(Cut) > MAX_FRAME_SIZE /\ Jump(Cut) = Cut + 3
    BY <1>4, <2>1 DEF Jumps
  <2>3. Cut' = Cut + 3
    BY <2>1, SameCommands, Sizes
  <2> QED
    BY ONLY <2>1, <2>2, <2>3 DEF Moves
<1>6. CASE Framing!Deliver
  <2>1. /\ Framing!Received(Framing!HeaderSize) /\ Framing!ByteAt(0) = StartByte
        /\ Framing!FrameSize <= MAX_FRAME_SIZE
        /\ Cut' = Cut + Framing!FrameSize
    BY <1>6 DEF Framing!Deliver, Cut
  <2>2. PICK d \in Framing!Deliveries(Framing!Body) : calls' = Append(calls, d)
    BY <1>6 DEF Framing!Deliver
  <2>3. /\ HeaderAt(Cut) /\ SizeAt(Cut) <= MAX_FRAME_SIZE
        /\ Jump(Cut) = Cut + SizeAt(Cut) /\ SizeAt(Cut) = Framing!FrameSize
        /\ SizeAt(Cut) \in Nat /\ SizeAt(Cut) >= 3
    BY <1>4, <2>1 DEF Jumps
  <2> PICK size \in Nat : size = SizeAt(Cut)
    BY ONLY <2>3
  <2>4. Len(Framing!Body) = size - 3
    <3>1. Framing!Body = [i \in 1 .. size - 3 |-> Framing!ByteAt(3 + i - 1)]
      BY <2>3, SameCommands, Sizes, size = SizeAt(Cut) DEF Framing!Body
    <3>2. size - 3 \in Nat
      BY ONLY <2>3, size = SizeAt(Cut)
    <3>3. Framing!Body \in [1 .. size - 3 -> {Framing!ByteAt(3 + i - 1) : i \in 1 .. size - 3}]
      BY ONLY <3>1
    <3> QED
      BY ONLY <3>2, <3>3, FunctionIsSeq
  <2>5. /\ d.end = Cut + 3 + Len(Framing!Body) /\ d.length = 3 + Len(Framing!Body)
    BY SameCommands, Sizes DEF Framing!Deliveries, Cut
  <2>6. d.end = Cut + size /\ d.length = size
    BY ONLY <1>1, <2>4, <2>5, size \in Nat
  <2> QED
    BY ONLY <2>1, <2>2, <2>3, <2>6, size = SizeAt(Cut) DEF Moves
<1> QED
  BY <1>2, <1>3, <1>5, <1>6, StepFramed

(***************************************************************************)
(* The reader goes past a frame: it delivers it, or it came from a fault.  *)
(***************************************************************************)
LEMMA StepAccounted ==
    ASSUME IInv, LineTyped, LineHoldsSent, Accounted, Step, sent' = sent,
           calls' \in Seq(CallRecords)
    PROVE  Accounted'
<1>1. Moves
  BY StepMoves
<1>2. /\ Cut \in Nat /\ calls \in Seq(CallRecords) /\ Len(calls) \in Nat
  <2>1. /\ consumed \in Nat /\ rx_position \in Nat /\ rx_position <= consumed
        /\ calls \in Seq(CallRecords)
    BY Numbers DEF IInv, BufferHoldsTail, TypeOK
  <2>2. Cut \in Nat
    BY ONLY <2>1 DEF Cut
  <2> QED
    BY ONLY <2>1, <2>2, LenProperties
<1>3. ASSUME NEW d, calls' = Append(calls, d)
      PROVE  /\ Len(calls') = Len(calls) + 1 /\ calls'[Len(calls) + 1] = d
             /\ \A c \in 1 .. Len(calls) : calls'[c] = calls[c]
  <2> DEFINE S == CallRecords \cup {d}
  <2>1. calls \in [1 .. Len(calls) -> S]
    BY ONLY <1>2, LenProperties
  <2>2. calls \in Seq(S) /\ d \in S
    BY ONLY <1>2, <2>1, FunctionIsSeq
  <2> QED
    BY ONLY <1>3, <2>2, AppendProperties
<1> SUFFICES ASSUME NEW n \in 1 .. Len(sent), sent[n].fault = "none", Place(n) < Cut'
             PROVE  Delivered(n)' \/ Excused(n)
  BY ExcusesKept DEF Accounted, Place
<1>4. /\ Place(n) \in Nat /\ Sound(n) /\ SoundFrame(n)
  BY PlaceFacts, SoundFacts DEF Sound
<1>5. ASSUME Delivered(n) PROVE Delivered(n)'
  <2>1. PICK c \in 1 .. Len(calls) : Delivers(calls[c], n)
    BY <1>5 DEF Delivered
  <2>2. c \in 1 .. Len(calls') /\ calls'[c] = calls[c]
    <3>1. CASE calls' = calls
      BY ONLY <3>1, c \in 1 .. Len(calls)
    <3>2. CASE \E d : calls' = Append(calls, d)
      BY ONLY <1>2, <1>3, <3>2, c \in 1 .. Len(calls)
    <3> QED
      BY ONLY <1>1, <3>1, <3>2 DEF Moves
  <2> QED
    BY <2>1, <2>2 DEF Delivered, Delivers
<1>6. CASE Place(n) < Cut
  BY <1>5, <1>6 DEF Accounted
<1>7. CASE ~(Place(n) < Cut)
  <2> PICK at \in Nat, k \in Nat : at = Place(n) /\ k = Cut
    BY ONLY <1>2, <1>4
  <2>1. k <= at /\ at < Cut'
    BY ONLY <1>7, Place(n) < Cut', at \in Nat, k \in Nat, at = Place(n), k = Cut
  <2>2. HeaderAt(at) /\ SizeAt(at) <= MAX_FRAME_SIZE /\ sent[n].end = at + SizeAt(at)
        /\ LineByte(at + 1) = StartByte
    BY ONLY <1>4, at = Place(n) DEF SoundFrame, HeaderAt
  <2>3. ASSUME HeaderAt(k), Cut' = Jump(k), k # at PROVE Excused(n)
    <3>1. k < at
      BY ONLY <2>1, <2>3, at \in Nat, k \in Nat
    <3>2. JumpedOver(k, n)
      BY ONLY <1>4, <2>1, <2>3, <3>1, at = Place(n) DEF JumpedOver
    <3> QED
      BY ONLY <3>2, LineTyped, LineHoldsSent, JumpExcused
  <2>4. CASE Cut' = Cut
    BY ONLY <2>1, <2>4, k = Cut, at \in Nat, k \in Nat
  <2>5. CASE Cut' = Cut + 1 /\ LineByte(Cut + 1) # StartByte
    <3>1. at = k
      BY ONLY <2>1, <2>5, k = Cut, at \in Nat, k \in Nat
    <3> QED
      BY ONLY <2>2, <2>5, <3>1, k = Cut
  <2>6. CASE Cut' = Jump(Cut) /\ HeaderAt(Cut) /\ SizeAt(Cut) > MAX_FRAME_SIZE
    <3>1. k # at
      <4>1. Jumps(k, LineByte(k + 2), LineByte(k + 3))
        BY ONLY <2>6, k = Cut, LineTyped, JumpFacts
      <4> PICK s \in Nat : s = SizeAt(k)
        BY ONLY <4>1 DEF Jumps
      <4>2. s > MAX_FRAME_SIZE /\ MAX_FRAME_SIZE \in Nat
        BY ONLY <2>6, k = Cut, s = SizeAt(k), Sizes
      <4>3. k = at => s <= MAX_FRAME_SIZE
        BY ONLY <2>2, s = SizeAt(k)
      <4> QED
        BY ONLY <4>2, <4>3
    <3> QED
      BY ONLY <2>3, <2>6, <3>1, k = Cut
  <2>7. CASE /\ Cut' = Jump(Cut) /\ HeaderAt(Cut) /\ SizeAt(Cut) <= MAX_FRAME_SIZE
             /\ \E d : /\ calls' = Append(calls, d)
                       /\ d.end = Cut + SizeAt(Cut) /\ d.length = SizeAt(Cut)
    <3>1. CASE k # at
      BY ONLY <2>3, <2>7, <3>1, k = Cut
    <3>2. CASE k = at
      <4>1. PICK d : /\ calls' = Append(calls, d)
                     /\ d.end = Cut + SizeAt(Cut) /\ d.length = SizeAt(Cut)
        BY ONLY <2>7
      <4>2. Len(calls) + 1 \in 1 .. Len(calls') /\ calls'[Len(calls) + 1] = d
        BY ONLY <1>2, <1>3, <4>1
      <4>3. d.end = at + SizeAt(at) /\ d.length = SizeAt(at)
        BY ONLY <3>2, <4>1, k = Cut
      <4>4. sent[n].end - at = SizeAt(at)
        <5>1. Jumps(at, LineByte(at + 2), LineByte(at + 3))
          BY ONLY <2>2, LineTyped, JumpFacts
        <5> PICK s \in Nat : s = SizeAt(at)
          BY ONLY <5>1 DEF Jumps
        <5> QED
          BY ONLY <2>2, s = SizeAt(at), at \in Nat, s \in Nat
      <4>5. Delivers(d, n)'
        BY ONLY <2>2, <4>3, <4>4, at = Place(n), sent' = sent DEF Delivers, Place
      <4>6. \E c \in 1 .. Len(calls') :
               /\ calls'[c].end = sent'[n].end
               /\ calls'[c].length = sent'[n].end - sent'[n].begin
        BY <4>2, <4>5 DEF Delivers
      <4>7. Delivered(n)'
        BY ONLY <4>6 DEF Delivered, Delivers
      <4> QED
        BY ONLY <4>7
    <3> QED
      BY ONLY <3>1, <3>2
  <2> QED
    BY ONLY <1>1, <2>4, <2>5, <2>6, <2>7 DEF Moves
<1> QED
  BY ONLY <1>6, <1>7

(***************************************************************************)
(* The invariant holds at first, and every step keeps it.                  *)
(***************************************************************************)
LEMMA LineInitially == LossyInit => LInv
<1> SUFFICES ASSUME LossyInit PROVE LInv
  OBVIOUS
<1>1. Init /\ line = <<>> /\ sent = <<>> /\ stream = <<>>
  BY DEF LossyInit, Init
<1>2. IInv
  BY <1>1, InvInitially
<1>3. /\ line \in Seq(Byte) /\ sent \in Seq(SentRecords) /\ Len(sent) = 0
      /\ Len(stream) = 0 /\ Len(line) = 0
  BY ONLY <1>1, EmptySeq
<1>4. 1 .. Len(sent) = {}
  BY ONLY <1>3
<1>5. LineLength = 0
  <2>1. LineTyped
    BY ONLY <1>1, EmptySeq DEF LineTyped
  <2> QED
    BY ONLY <1>3, <2>1, LineBytes
<1>6. 0 .. LineLength - 1 = {}
  BY ONLY <1>5
<1> QED
  BY <1>2, <1>3, <1>4, <1>6 DEF LInv, LineHoldsSent, Accounted

LEMMA LinePreserved == LInv /\ [LossyNext]_lossyVars => LInv'
<1> SUFFICES ASSUME LInv, [LossyNext]_lossyVars PROVE LInv'
  OBVIOUS
<1>1. IInv /\ LineHoldsSent /\ Accounted /\ LineTyped
  BY DEF LInv, IInv, TypeOK, LineTyped, LineHoldsSent
<1>2. ASSUME UNCHANGED vars PROVE IInv'
  BY <1>1, <1>2, InvPreserved
<1>3. CASE Send \/ LoseByte \/ ChangeByte
  <2>1. PICK bytes, fault : \E f \in Frames : \E p \in 1 .. Len(f) :
           PutBehind(bytes, fault) /\ Carries(bytes, fault, f, p)
    BY <1>1, <1>3, FramePut
  <2>2. PICK f \in Frames : \E p \in 1 .. Len(f) :
           PutBehind(bytes, fault) /\ Carries(bytes, fault, f, p)
    BY ONLY <2>1
  <2>3. PICK p \in 1 .. Len(f) : PutBehind(bytes, fault) /\ Carries(bytes, fault, f, p)
    BY ONLY <2>2
  <2>4. LineHoldsSent' /\ Accounted'
    BY <1>1, <2>3, LineExtended, PutAccounted
  <2>5. IInv'
    BY <1>2, <2>3 DEF PutBehind
  <2> QED
    BY <2>4, <2>5 DEF LInv
<1>4. CASE ReadLine
  <2>1. /\ line' \in Seq(Byte) /\ Wire' = Wire /\ sent' = sent
    BY <1>1, <1>4, ReadMoves
  <2>2. PICK chunk \in Seq(Byte) \ {<<>>} : Read(chunk)
    BY <1>1, <1>4, ReadMoves
  <2>3. IInv'
    BY <1>1, <2>2, ReadKeepsInv
  <2>4. Cut' = Cut /\ calls' = calls
    BY <2>2 DEF Read, Cut
  <2>5. LineHoldsSent' /\ Accounted'
    BY <1>1, <2>1, <2>4, SentKept, AccountedKept
  <2> QED
    BY <2>3, <2>5 DEF LInv
<1>5. CASE Handle
  <2>1. Step /\ line' = line /\ sent' = sent
    BY <1>5 DEF Handle
  <2>2. IInv'
    BY <1>1, <2>1, InvPreserved DEF Next
  <2>3. stream' = stream
    BY <2>1 DEF Step, DiscardByte, FindStart, StoreLength, RejectLength, ReceivePart,
                ReceiveFrame, port
  <2>4. LineHoldsSent'
    BY <1>1, <2>1, <2>3, SentKept DEF Wire, LineHoldsSent
  <2>5. calls' \in Seq(CallRecords)
    BY <2>2 DEF IInv, TypeOK
  <2>6. Accounted'
    BY <1>1, <2>1, <2>5, StepAccounted
  <2> QED
    BY <2>2, <2>4, <2>6 DEF LInv
<1>6. CASE UNCHANGED lossyVars
  <2>1. UNCHANGED vars /\ line' = line /\ sent' = sent
    BY <1>6 DEF lossyVars, vars
  <2>2. Cut' = Cut /\ calls' = calls /\ Wire' = Wire
    BY <2>1 DEF vars, Cut, Wire
  <2>3. LineHoldsSent' /\ Accounted'
    BY <1>1, <2>1, <2>2, SentKept, AccountedKept DEF LineHoldsSent
  <2> QED
    BY <1>2, <2>1, <2>3 DEF LInv
<1> QED
  BY <1>3, <1>4, <1>5, <1>6 DEF LossyNext, Quiet

LEMMA LineHolds == LossySpec => []LInv
<1> QED
  BY LineInitially, LinePreserved, PTL DEF LossySpec

-----------------------------------------------------------------------------

(***************************************************************************)
(* A frame without a fault that the reader took a byte from behind is      *)
(* delivered or excused.  What is not done with is a header and a frame    *)
(* that fits and is not complete: the frame cannot lie inside it but by    *)
(* being jumped over.                                                      *)
(***************************************************************************)
LEMMA PassedAccounted ==
    ASSUME LInv, NEW n \in 1 .. Len(sent), Passed(n)
    PROVE  Delivered(n) \/ Excused(n)
<1>1. IInv /\ LineHoldsSent /\ Accounted /\ LineTyped
  BY DEF LInv, IInv, TypeOK, LineTyped, LineHoldsSent
<1>2. sent[n].fault = "none" /\ sent[n].end < consumed
  BY DEF Passed
<1>3. Sound(n) /\ Place(n) \in Nat /\ Place(n) + 3 <= sent[n].end /\ sent[n].end \in Nat
  BY <1>1, <1>2, PlaceFacts DEF Sound
<1>4. CASE Place(n) < Cut
  BY <1>1, <1>2, <1>4 DEF Accounted
<1>5. CASE ~(Place(n) < Cut)
  <2>1. /\ consumed \in Nat /\ rx_position \in Nat /\ rx_position <= consumed
        /\ consumed <= Len(stream) /\ Len(stream) \in Nat /\ HeaderSize = 3
        /\ expected_length \in Nat /\ MAX_FRAME_SIZE \in Nat
    BY <1>1, Numbers DEF IInv, BufferHoldsTail
  <2> PICK k \in Nat : k = Cut
    BY ONLY <2>1 DEF Cut
  <2> PICK at \in Nat, e \in Nat : at = Place(n) /\ e = sent[n].end
    BY ONLY <1>3
  <2>2. k = consumed - rx_position
    BY ONLY k = Cut DEF Cut
  <2>3. k <= at /\ at + 3 <= e /\ e < consumed
    BY ONLY <1>2, <1>3, <1>5, k = Cut, at = Place(n), e = sent[n].end, at \in Nat, k \in Nat
  <2>4. rx_position > 3
    BY ONLY <2>1, <2>2, <2>3, at \in Nat, k \in Nat, e \in Nat
  <2>5. rx_position < expected_length /\ expected_length <= MAX_FRAME_SIZE
    BY <1>1, <2>1, <2>4 DEF IInv, BufferHoldsTail
  <2>6. expected_length = HeaderSize + AnnouncedLength
    <3>1. \/ expected_length = HeaderSize + AnnouncedLength
          \/ expected_length < HeaderSize
      BY <1>1, HeaderRange DEF IInv
    <3> QED
      BY ONLY <2>1, <2>4, <2>5, <3>1
  <2>7. HeaderAt(k) /\ SizeAt(k) = expected_length
    <3>1. rx_position >= HeaderSize
      BY ONLY <2>1, <2>4
    <3>2. /\ Framing!ByteAt(0) = StartByte /\ Framing!Received(HeaderSize)
          /\ Framing!FrameSize = expected_length
      BY <1>1, <2>6, <3>1, HeaderAtCut
    <3> QED
      BY <1>1, <3>2, HeaderOnLine, k = Cut
  <2>8. Jump(k) = k + expected_length
    BY ONLY <1>1, <2>5, <2>7, JumpFacts DEF Jumps
  <2>9. e < k + expected_length
    BY ONLY <2>1, <2>2, <2>3, <2>5, e \in Nat, k \in Nat
  <2>10. k # at
    <3> SUFFICES ASSUME k = at PROVE FALSE
      OBVIOUS
    <3>1. e = at + SizeAt(at)
      BY ONLY <1>1, <1>3, SoundFacts, at = Place(n), e = sent[n].end DEF SoundFrame
    <3>2. e = k + expected_length
      BY ONLY <2>7, <3>1, k = at
    <3> QED
      BY ONLY <2>1, <2>9, <3>2, e \in Nat, k \in Nat
  <2>11. k < at /\ at < k + expected_length
    BY ONLY <2>1, <2>3, <2>9, <2>10, e \in Nat, k \in Nat, at \in Nat
  <2>12. JumpedOver(k, n)
    BY ONLY <1>3, <2>7, <2>8, <2>11, at = Place(n) DEF JumpedOver
  <2> QED
    BY ONLY <1>1, <2>12, JumpExcused
<1> QED
  BY ONLY <1>4, <1>5

(***************************************************************************)
(* A byte lost on the line costs the frame it was lost from and at most    *)
(* the next one, however many frames are sent.                             *)
(***************************************************************************)
THEOREM LossIsCheap == LossySpec => []LossCostsTwoFrames
<1>1. LInv => LossCostsTwoFrames
  BY PassedAccounted DEF LossCostsTwoFrames, Excused, NextToFault
<1> QED
  BY <1>1, LineHolds, PTL

(***************************************************************************)
(* A frame is delivered if it starts one frame of the largest size behind  *)
(* the last three bytes of every faulty one.                               *)
(***************************************************************************)
THEOREM FaultIsLocal == LossySpec => []FaultCostsOneWindow
<1>1. LInv => FaultCostsOneWindow
  BY PassedAccounted DEF FaultCostsOneWindow, Excused, InWindow, Place
<1> QED
  BY <1>1, LineHolds, PTL

-----------------------------------------------------------------------------

(***************************************************************************)
(* The calls with frames nobody sent.                                      *)
(***************************************************************************)
FalseCalls ==
    {c \in 1 .. Len(calls) :
        \A n \in 1 .. Len(sent) : ~(sent[n].fault = "none" /\ Delivers(calls[c], n))}

(***************************************************************************)
(* Where the frame of a call begins, and that it is a header on the line.  *)
(***************************************************************************)
Start(c) == calls[c].end - calls[c].length

StartsAtHeader(c) ==
    /\ Start(c) \in Nat /\ HeaderAt(Start(c))
    /\ SizeAt(Start(c)) <= MAX_FRAME_SIZE
    /\ SizeAt(Start(c)) = calls[c].length
    /\ calls[c].length \in Nat /\ calls[c].length >= 3
    /\ calls[c].end = Start(c) + calls[c].length
    /\ Start(c) \in 0 .. LineLength - 1

LEMMA CallOnLine ==
    ASSUME IInv, LineTyped, NEW c \in 1 .. Len(calls)
    PROVE  StartsAtHeader(c)
<1>1. calls[c].end \in Nat /\ calls[c].length \in Nat
  <2>1. calls[c] \in CallRecords
    BY ElementOfSeq DEF IInv, TypeOK
  <2> QED
    BY ONLY <2>1 DEF CallRecords
<1>2. /\ IsFrame(calls[c]) /\ calls[c].end <= Cut
  BY DEF IInv, CallsCutFromStream, Cut
<1>3. /\ Cut \in Int /\ Cut <= Len(stream) /\ Len(stream) \in Nat
      /\ Len(stream) <= LineLength /\ LineLength \in Nat
      /\ \A i \in 1 .. Len(stream) : LineByte(i) = stream[i]
  <2>1. /\ Len(stream) \in Nat /\ consumed \in Nat /\ rx_position \in Nat
        /\ consumed <= Len(stream)
    BY Numbers DEF IInv
  <2>2. Cut \in Int /\ Cut <= Len(stream)
    BY ONLY <2>1 DEF Cut
  <2>3. /\ LineLength = Len(stream) + Len(line) /\ Len(line) \in Nat
        /\ \A i \in 1 .. Len(stream) : LineByte(i) = stream[i]
    BY LineBytes
  <2>4. Len(stream) <= LineLength /\ LineLength \in Nat
    BY ONLY <2>1, <2>3
  <2> QED
    BY ONLY <2>1, <2>2, <2>3, <2>4
<1> PICK e \in Nat, l \in Nat : e = calls[c].end /\ l = calls[c].length
  BY ONLY <1>1
<1>4. /\ 3 <= l /\ l <= MAX_FRAME_SIZE /\ l <= e
      /\ stream[e - l + 1] = StartByte
      /\ l = HeaderSize + stream[e - l + 2] + Radix * stream[e - l + 3]
  BY ONLY <1>2, Sizes, e = calls[c].end, l = calls[c].length DEF IsFrame
<1>5. 3 <= l /\ l <= e /\ e <= Len(stream) /\ e <= LineLength
  BY ONLY <1>2, <1>3, <1>4, e = calls[c].end, e \in Nat, SMTT(30)
<1> PICK h \in Nat : h = e - l
  <2>1. e - l \in Nat
    BY ONLY <1>5, e \in Nat, l \in Nat
  <2> QED
    BY ONLY <2>1
<1>6. /\ h + 1 \in 1 .. Len(stream) /\ h + 2 \in 1 .. Len(stream) /\ h + 3 \in 1 .. Len(stream)
      /\ h + 3 <= LineLength /\ e = h + l /\ h \in 0 .. LineLength - 1
  <2>1. Len(stream) \in Nat /\ LineLength \in Nat
    BY ONLY <1>3
  <2> QED
    BY ONLY <1>5, <2>1, h = e - l, h \in Nat, e \in Nat, l \in Nat
<1>7. HeaderAt(h)
  BY ONLY <1>3, <1>4, <1>6, h = e - l, h \in Nat DEF HeaderAt
<1>8. SizeAt(h) = l
  BY ONLY <1>3, <1>4, <1>6, h = e - l DEF SizeAt
<1>9. Start(c) = h
  BY ONLY h = e - l, e = calls[c].end, l = calls[c].length DEF Start
<1> QED
  BY ONLY <1>4, <1>6, <1>7, <1>8, <1>9, e = calls[c].end, l = calls[c].length
     DEF StartsAtHeader

(***************************************************************************)
(* A frame nobody sent begins in a faulty one.                             *)
(***************************************************************************)
LEMMA FalseCallInFaulty ==
    ASSUME LInv, NEW c \in FalseCalls
    PROVE  \E n \in Faulty : Place(n) <= Start(c) /\ Start(c) < sent[n].end
<1>1. IInv /\ LineHoldsSent /\ LineTyped /\ c \in 1 .. Len(calls)
  BY DEF LInv, IInv, TypeOK, LineTyped, LineHoldsSent, FalseCalls
<1>2. StartsAtHeader(c)
  BY <1>1, CallOnLine
<1>3. PICK n \in 1 .. Len(sent) : Place(n) <= Start(c) /\ Start(c) < sent[n].end
  BY <1>1, <1>2 DEF LineHoldsSent, StartsAtHeader
<1>4. ASSUME sent[n].fault = "none" PROVE FALSE
  <2>1. SoundFrame(n) /\ Place(n) \in Nat /\ sent[n].end \in Nat
    BY <1>1, <1>4, PlaceFacts, SoundFacts DEF Sound
  <2>2. Start(c) = Place(n)
    <3> SUFFICES ASSUME Start(c) # Place(n) PROVE FALSE
      OBVIOUS
    <3>1. Start(c) \in Nat /\ LineByte(Start(c) + 1) = StartByte
      BY ONLY <1>2 DEF StartsAtHeader, HeaderAt
    <3>2. Start(c) \in Place(n) + 1 .. sent[n].end - 1
      BY ONLY <1>3, <2>1, <3>1, Start(c) # Place(n)
    <3> QED
      BY ONLY <2>1, <3>1, <3>2 DEF SoundFrame
  <2>3. /\ calls[c].end = Place(n) + SizeAt(Place(n)) /\ calls[c].length = SizeAt(Place(n))
        /\ calls[c].length \in Nat
    BY ONLY <1>2, <2>2 DEF StartsAtHeader
  <2>4. sent[n].end = Place(n) + calls[c].length /\ calls[c].end = sent[n].end
    BY ONLY <2>1, <2>3 DEF SoundFrame
  <2>5. calls[c].length = sent[n].end - Place(n)
    BY ONLY <2>1, <2>3, <2>4
  <2>6. Delivers(calls[c], n)
    BY ONLY <2>4, <2>5 DEF Delivers, Place
  <2> QED
    BY <1>4, <2>6 DEF FalseCalls
<1> QED
  BY <1>3, <1>4 DEF Faulty

(***************************************************************************)
(* No two frames begin in the same faulty one.                             *)
(***************************************************************************)
LEMMA FaultyHoldsOne ==
    ASSUME LInv, NEW n \in Faulty,
           NEW b \in 1 .. Len(calls), NEW c \in 1 .. Len(calls), b < c,
           Place(n) <= Start(b), Start(b) < sent[n].end,
           Place(n) <= Start(c), Start(c) < sent[n].end
    PROVE  FALSE
<1>1. IInv /\ LineHoldsSent /\ LineTyped /\ n \in 1 .. Len(sent)
  BY DEF LInv, IInv, TypeOK, LineTyped, LineHoldsSent, Faulty
<1>2. StartsAtHeader(b) /\ StartsAtHeader(c)
  BY <1>1, CallOnLine
<1>3. /\ HeaderAt(Start(b)) /\ HeaderAt(Start(c)) /\ Start(b) \in Nat /\ Start(c) \in Nat
      /\ calls[b].length \in Nat /\ calls[b].length >= 3
      /\ calls[b].end = Start(b) + calls[b].length /\ SizeAt(Start(b)) = calls[b].length
  BY ONLY <1>2 DEF StartsAtHeader
<1>4. calls[b].end <= Start(c)
  BY <1>1 DEF IInv, CallsCutFromStream, Start
<1>5. CASE sent[n].fault = "lost"
  <2>1. Start(b) = Place(n) /\ Start(c) = Place(n)
    BY <1>1, <1>3, <1>5, LostJump
  <2> QED
    BY ONLY <1>3, <1>4, <2>1
<1>6. CASE sent[n].fault = "changed"
  <2>1. Start(b) + SizeAt(Start(b)) <= Start(c)
    BY ONLY <1>3, <1>4
  <2>2. LineByte(Start(c) + 1) = StartByte
    BY ONLY <1>3 DEF HeaderAt
  <2> QED
    BY <1>1, <1>3, <1>6, <2>1, <2>2, ChangedHeaders
<1> QED
  BY <1>1, <1>5, <1>6, PlaceFacts DEF Faulty

(***************************************************************************)
(* There are no more frames nobody sent than faults: each begins in a      *)
(* faulty frame of its own.                                                *)
(***************************************************************************)
THEOREM FalseFramesAreFew == LossySpec => []OneFalseFramePerFault
<1>1. ASSUME LInv PROVE OneFalseFramePerFault
  <2> DEFINE In(c) == CHOOSE n \in Faulty : Place(n) <= Start(c) /\ Start(c) < sent[n].end
             f == [c \in FalseCalls |-> In(c)]
  <2>1. ASSUME NEW c \in FalseCalls
        PROVE  f[c] \in Faulty /\ Place(f[c]) <= Start(c) /\ Start(c) < sent[f[c]].end
    BY <1>1, FalseCallInFaulty
  <2>2. ASSUME NEW b \in FalseCalls, NEW c \in FalseCalls, f[b] = f[c] PROVE b = c
    <3>1. b \in 1 .. Len(calls) /\ c \in 1 .. Len(calls)
      BY DEF FalseCalls
    <3>2. ~(b < c) /\ ~(c < b)
      <4> HIDE DEF f
      <4> QED
        BY <1>1, <2>1, <2>2, <3>1, FaultyHoldsOne
    <3>3. b \in Int /\ c \in Int
      BY ONLY <3>1
    <3> QED
      BY ONLY <3>2, <3>3
  <2>3. f \in Injection(FalseCalls, Faulty)
    <3>1. f \in [FalseCalls -> Faulty]
      BY <2>1
    <3> HIDE DEF f
    <3> QED
      BY <2>2, <3>1 DEF Injection, IsInjective
  <2>4. IsFiniteSet(Faulty)
    <3>1. Len(sent) \in Nat
      BY <1>1, LenProperties DEF LInv, LineHoldsSent
    <3>2. IsFiniteSet(1 .. Len(sent))
      BY <3>1, FS_Interval
    <3>3. Faulty \in SUBSET (1 .. Len(sent))
      BY DEF Faulty
    <3> QED
      BY ONLY <3>2, <3>3, FS_Subset
  <2>5. Cardinality(FalseCalls) <= Cardinality(Faulty)
    <3> HIDE DEF f
    <3> QED
      BY ONLY <2>3, <2>4, FS_Injection
  <2> QED
    BY <2>5 DEF OneFalseFramePerFault, FalseCalls
<1> QED
  BY <1>1, LineHolds, PTL

(***************************************************************************)
(* What the reader promises of its callbacks does not depend on how the    *)
(* bytes came about: behind such a line too, the arguments are those of    *)
(* the call's own frame, and the text at their end is terminated.          *)
(***************************************************************************)
THEOREM CallsSoundOnLine == LossySpec => [](NoStaleArguments /\ TextsTerminated)
<1>1. LInv => NoStaleArguments /\ TextsTerminated
  BY TextIsTerminated DEF LInv, IInv
<1> QED
  BY <1>1, LineHolds, PTL
=============================================================================
