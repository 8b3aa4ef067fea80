--------------------------- MODULE DecoderProofs ---------------------------
(***************************************************************************)
(* Theorems about the packet codec and the decoding program, for every     *)
(* size that meets SizeAssumption, every set of inputs, MAC and cipher.    *)
(***************************************************************************)
EXTENDS Decoder, PayloadProofs

(***************************************************************************)
(* meshcore_deserialize accepts exactly the well-formed packets, though it *)
(* never compares the end of the path with the size.                       *)
(***************************************************************************)
THEOREM AcceptsExactly ==
    ASSUME NEW packet \in [data : Buffers, size : 0 .. MAX_TRANS_UNIT]
    PROVE  Accepts(packet.data, packet.size) <=> WellFormed(packet)
  <1> DEFINE data == packet.data
             size == packet.size
             P    == PathAt(Route(data[0]))
             p    == PathLengthIn(data)
  <1>1. data \in Buffers /\ size \in 0 .. MAX_TRANS_UNIT
    OBVIOUS
  <1>2. /\ P \in {2, 4} /\ p \in Byte
        /\ PathLengthAt(Route(data[0])) \in {1, 3}
        /\ P = PathLengthAt(Route(data[0])) + 1
        /\ HasTransportCodes(Route(data[0])) <=> P = 4
        /\ p = data[PathLengthAt(Route(data[0]))]
    BY <1>1, PathLengthType
  <1>3. Accepts(data, size) <=>
           /\ size >= P /\ p <= MAX_PATH_SIZE
           /\ (size - ((P + p) % ByteSize)) % ByteSize <= MAX_PAYLOAD_SIZE
    <2>1. PayloadLengthIn(data, size) = (size - ((P + p) % ByteSize)) % ByteSize
      BY DEF PayloadLengthIn, PayloadStart
    <2> HIDE DEF data, size, P, p
    <2>2. Accepts(data, size) <=>
             size >= P /\ p <= MAX_PATH_SIZE /\ PayloadLengthIn(data, size) <= MAX_PAYLOAD_SIZE
      BY <1>1, <1>2, SizeAssumption DEF Accepts, p
    <2> QED
      BY <2>1, <2>2
  <1>4. WellFormed(packet) <=>
           /\ size >= P /\ p <= MAX_PATH_SIZE
           /\ size - P - p \in 0 .. MAX_PAYLOAD_SIZE
    BY <1>2 DEF WellFormed
  <1> HIDE DEF data, size, P, p
  <1>5. CASE size >= P /\ p <= MAX_PATH_SIZE
    <2>1. p \in 0 .. MAX_PATH_SIZE
      BY <1>2, <1>5, SizeAssumption DEF Byte, ByteSize
    <2> QED
      BY <1>1, <1>2, <1>3, <1>4, <1>5, <2>1, WrapRejects DEF data, size
  <1> QED
    BY <1>3, <1>4, <1>5 DEF data, size

-----------------------------------------------------------------------------

(***************************************************************************)
(* What the decoder puts in a message for a well-formed packet: the end of *)
(* the packet, whatever lies behind it in the buffer.                      *)
(***************************************************************************)
LEMMA PayloadDecoded ==
    ASSUME NEW packet \in [data : Buffers, size : 0 .. MAX_TRANS_UNIT],
           WellFormed(packet)
    PROVE  /\ Len(PayloadOf(packet)) \in 0 .. MAX_PAYLOAD_SIZE
           /\ PayloadLengthIn(packet.data, packet.size) = Len(PayloadOf(packet))
           /\ Copied(packet.data, PayloadStart(packet.data),
                     PayloadLengthIn(packet.data, packet.size), MAX_PAYLOAD_SIZE)
                 = PayloadWith(PayloadOf(packet))
  <1> DEFINE data  == packet.data
             size  == packet.size
             P     == PathAt(Route(data[0]))
             p     == PathLengthIn(data)
             start == P + p
             n     == size - start
  <1>1. data \in Buffers /\ size \in 0 .. MAX_TRANS_UNIT
    OBVIOUS
  <1>2. P \in {2, 4} /\ p \in Byte /\ p = data[PathLengthAt(Route(data[0]))]
    BY <1>1, PathLengthType
  <1>3. size >= P /\ p <= MAX_PATH_SIZE /\ size - P - p \in 0 .. MAX_PAYLOAD_SIZE
    BY <1>2 DEF WellFormed
  <1>4. p \in 0 .. MAX_PATH_SIZE
    BY <1>2, <1>3, SizeAssumption DEF Byte, ByteSize
  <1>5. PayloadOf(packet) = Slice(data, start, n)
    BY <1>2 DEF PayloadOf
  <1>6. PayloadStart(data) = (P + p) % ByteSize
        /\ PayloadLengthIn(data, size) = (size - PayloadStart(data)) % ByteSize
    BY DEF PayloadStart, PayloadLengthIn
  <1> HIDE DEF data, size, P, p
  <1>7. n \in 0 .. MAX_PAYLOAD_SIZE /\ start \in Nat
    BY <1>1, <1>2, <1>3, <1>4, SizeAssumption
  <1>8. PayloadStart(data) = start /\ PayloadLengthIn(data, size) = n
    <2>1. /\ (P + p) % ByteSize = P + p
          /\ (size - (P + p)) % ByteSize = size - P - p
      BY <1>1, <1>2, <1>3, <1>4, WrapRejects
    <2>2. size - P - p = n
      BY <1>1, <1>2, <1>4, SizeAssumption
    <2> QED
      BY <1>6, <2>1, <2>2
  <1> HIDE DEF start, n
  <1>9. /\ Len(Slice(data, start, n)) = n
        /\ \A i \in 0 .. n - 1 : Slice(data, start, n)[i + 1] = data[start + i]
    BY <1>7, SizeAssumption DEF Slice
  <1>10. Copied(data, start, n, MAX_PAYLOAD_SIZE) = PayloadWith(Slice(data, start, n))
    BY <1>7, <1>9, SizeAssumption DEF Copied, PayloadWith
  <1> QED
    BY <1>5, <1>7, <1>8, <1>9, <1>10 DEF data, size

(***************************************************************************)
(* The payload of a well-formed packet is its end, behind the path.        *)
(***************************************************************************)
LEMMA PayloadOfFacts ==
    ASSUME NEW packet \in [data : Buffers, size : 0 .. MAX_TRANS_UNIT],
           WellFormed(packet),
           NEW route, route = Route(packet.data[0]),
           NEW start, start = PathAt(route) + packet.data[PathLengthAt(route)]
    PROVE  /\ PayloadOf(packet) \in Seq(Byte)
           /\ start \in Nat /\ start >= 2
           /\ packet.size = start + Len(PayloadOf(packet))
           /\ \A i \in start .. packet.size - 1 :
                 PayloadOf(packet)[i - start + 1] = packet.data[i]
  <1> DEFINE n == packet.size - start
  <1>1. /\ PathAt(route) \in {2, 4}
        /\ packet.data[PathLengthAt(route)] \in Byte
        /\ packet.size \in 0 .. MAX_TRANS_UNIT
        /\ packet.data \in Buffers
    BY PathLengthType
  <1>2. n \in Nat /\ start \in Nat /\ start >= 2
    BY <1>1, SMTT(30) DEF WellFormed, Byte, ByteSize
  <1>3. start + n <= MAX_TRANS_UNIT /\ packet.size = start + n
    BY <1>1, <1>2, SizeAssumption DEF Byte, ByteSize
  <1>4. PayloadOf(packet) = Slice(packet.data, start, n)
    BY DEF PayloadOf
  <1> HIDE DEF n
  <1>5. \A i \in 1 .. n : packet.data[start + i - 1] \in Byte
    BY <1>1, <1>2, <1>3, SizeAssumption DEF Buffers
  <1>6. /\ PayloadOf(packet) \in Seq(Byte) /\ Len(PayloadOf(packet)) = n
        /\ \A i \in 1 .. n : PayloadOf(packet)[i] = packet.data[start + i - 1]
    BY <1>2, <1>4, <1>5 DEF Slice
  <1>7. ASSUME NEW i \in start .. packet.size - 1
        PROVE  PayloadOf(packet)[i - start + 1] = packet.data[i]
    <2>1. i - start + 1 \in 1 .. n /\ start + (i - start + 1) - 1 = i
      BY <1>2, <1>3
    <2> QED
      BY <1>6, <2>1
  <1> QED
    BY <1>2, <1>3, <1>6, <1>7

-----------------------------------------------------------------------------

(***************************************************************************)
(* The inductive invariant: the types; where main is and which of its      *)
(* variables it has assigned; how they come from the packet.  The parts of *)
(* the invariant that no run names follow.                                 *)
(*                                                                         *)
(* The head of a message says what the head of the packet says.            *)
(***************************************************************************)
HeadReceived ==
    message # Nothing =>
        LET header == input.data[0]
        IN  /\ message.type = Type(header) /\ message.route = Route(header)
            /\ message.version = Version(header)
            /\ message.path_length = PathLengthIn(input.data)
            /\ \A i \in 0 .. message.path_length - 1 :
                  message.path[i] = input.data[PathAt(Route(header)) + i]

(***************************************************************************)
(* The struct of a group text holds what the payload says.                 *)
(***************************************************************************)
GrpTxtReceived ==
    pc \in {"authenticate", "grp_txt_encode"} =>
        /\ GrpTxtCopyFits(Len(PayloadOf(input)))
        /\ grp_txt = GrpTxtDeserialize(PayloadWith(PayloadOf(input)), Len(PayloadOf(input)))

(***************************************************************************)
(* A payload encoded again has the length received iff the one received is *)
(* canonical, and then the bytes are the same.                             *)
(***************************************************************************)
PayloadCanonical ==
    /\ Type(input.data[0]) = ADVERT  => CanonicalAdvert(PayloadOf(input))
    /\ Type(input.data[0]) = GRP_TXT => Len(PayloadOf(input)) >= GrpTxtDataAt

PayloadReencoded ==
    pc = "encode" =>
        /\ message.payload_length \in 0 .. MAX_PAYLOAD_SIZE
        /\ message.payload_length = Len(PayloadOf(input)) <=> PayloadCanonical
        /\ message.payload_length = Len(PayloadOf(input))
              => message.payload = PayloadWith(PayloadOf(input))

MessageAssigned ==
    /\ pc = "decode" => message = Nothing /\ decrypted = Nothing
    /\ pc \notin {"decode", "exit"} => message # Nothing
    /\ pc = "advert" => Type(input.data[0]) = ADVERT
    /\ pc \in {"grp_txt", "authenticate", "grp_txt_encode"}
          => Type(input.data[0]) = GRP_TXT

DInv ==
    /\ DecoderTypeOK /\ MessageAssigned
    /\ AcceptsWellFormed /\ HeadReceived /\ PayloadReceived
    /\ GrpTxtReceived /\ DecryptedIsAuthentic /\ TextIsPlaintext
    /\ OverrunsOnlyTooShort /\ PayloadReencoded /\ MatchesIffCanonical

(***************************************************************************)
(* The value of a variable not assigned yet is no message and no group     *)
(* text.                                                                   *)
(***************************************************************************)
LEMMA NothingUnassigned == Nothing \notin Messages /\ Nothing \notin GrpTxts
  BY DEF Nothing, Messages, GrpTxts

(***************************************************************************)
(* At the beginning nothing is decoded.                                    *)
(***************************************************************************)
LEMMA InitDInv == Init => DInv
  BY InputAssumption DEF Init, DInv, DecoderTypeOK, MessageAssigned, AcceptsWellFormed,
     HeadReceived, PayloadReceived, GrpTxtReceived, DecryptedIsAuthentic, TextIsPlaintext,
     OverrunsOnlyTooShort, PayloadReencoded, MatchesIffCanonical

-----------------------------------------------------------------------------

(***************************************************************************)
(* Decoding a packet that is accepted.                                     *)
(***************************************************************************)
LEMMA HeadDecoded ==
    ASSUME NEW data \in Buffers, NEW size \in 0 .. MAX_TRANS_UNIT, Accepts(data, size),
           NEW m, m = MessageIn(data, size)
    PROVE  /\ m.type = Type(data[0]) /\ m.route = Route(data[0])
           /\ m.version = Version(data[0])
           /\ m.path_length = PathLengthIn(data)
           /\ \A i \in 0 .. m.path_length - 1 : m.path[i] = data[PathAt(Route(data[0])) + i]
  <1>1. /\ m.type = Type(data[0]) /\ m.route = Route(data[0])
        /\ m.version = Version(data[0])
        /\ m.path_length = PathLengthIn(data)
        /\ m.path = Copied(data, PathAt(Route(data[0])), PathLengthIn(data), MAX_PATH_SIZE)
    BY DEF MessageIn
  <1>2. PathLengthIn(data) \in 0 .. MAX_PATH_SIZE /\ MAX_PATH_SIZE \in Nat
    BY PathLengthType, SizeAssumption DEF Accepts, Byte, ByteSize
  <1>3. ASSUME NEW i \in 0 .. PathLengthIn(data) - 1
        PROVE  Copied(data, PathAt(Route(data[0])), PathLengthIn(data), MAX_PATH_SIZE)[i]
                  = data[PathAt(Route(data[0])) + i]
    BY <1>2 DEF Copied
  <1> QED
    BY <1>1, <1>3

(***************************************************************************)
(* The text of a group text: TextIsPlaintext of what Decrypt stores.       *)
(***************************************************************************)
PlainByte(ciphertext, i) ==
    LET at == CipherBlock * (i \div CipherBlock)
    IN  IF i \div CipherBlock < Len(ciphertext) \div CipherBlock
        THEN AES_ECB_decrypt(SubSeq(ciphertext, at + 1, at + CipherBlock))[(i % CipherBlock) + 1]
        ELSE ciphertext[i + 1]

IsTextOf(text, ciphertext) ==
    /\ \A i \in TextAt .. Len(ciphertext) - 1 : text[i] = PlainByte(ciphertext, i)
    /\ text[IF Len(ciphertext) < TextAt THEN TextAt ELSE Len(ciphertext)] = 0

TextReceived ==
    decrypted # Nothing =>
        IsTextOf(decrypted, SubSeq(PayloadOf(input), GrpTxtDataAt + 1, Len(PayloadOf(input))))

(***************************************************************************)
(* TextIsPlaintext, with the text of a ciphertext as an operator.          *)
(***************************************************************************)
LEMMA TextIsReceived == TextIsPlaintext <=> TextReceived
  BY DEF TextIsPlaintext, TextReceived, IsTextOf, PlainByte

(***************************************************************************)
(* A block of the cipher taken out of a run of bytes.                      *)
(***************************************************************************)
LEMMA BlockTaken ==
    ASSUME NEW s \in Seq(Byte), NEW a \in Nat, a + 16 <= Len(s)
    PROVE  SubSeq(s, a + 1, a + 16) = [j \in 1 .. 16 |-> s[a + j]]
  OBVIOUS

(***************************************************************************)
(* Block by block, the text is the decryption of the ciphertext, and       *)
(* behind it the array is zero.                                            *)
(***************************************************************************)
LEMMA TextDecrypted ==
    ASSUME NEW payload \in Seq(Byte), Len(payload) <= MAX_PAYLOAD_SIZE,
           Len(payload) >= GrpTxtDataAt,
           grp_txt = GrpTxtDeserialize(PayloadWith(payload), Len(payload)),
           NEW text,
           text = [i \in 0 .. GrpTxtDataSize |->
                     IF i = TerminatorAt THEN 0 ELSE DecryptedByte(i)],
           NEW ciphertext, ciphertext = SubSeq(payload, GrpTxtDataAt + 1, Len(payload))
    PROVE  IsTextOf(text, ciphertext)
  <1>1. PICK total \in Nat : total = Len(payload)
    BY LenProperties
  <1>2. PICK n \in Nat : n = grp_txt.data_length
    BY GrpTxtDecoded
  <1>3. PICK at \in Nat : at = GrpTxtDataAt
    BY PayloadSizeAssumption DEF GrpTxtDataAt
  <1>4. /\ n = total - at /\ total >= at /\ n \in 0 .. GrpTxtDataSize
        /\ \A i \in 0 .. n - 1 : grp_txt.data[i] = payload[at + i + 1]
    BY <1>1, <1>2, <1>3, GrpTxtDecoded
  <1>10. /\ ciphertext \in Seq(Byte) /\ Len(ciphertext) = n
         /\ \A i \in 1 .. n : ciphertext[i] = payload[at + i]
    <2>1. ciphertext = SubSeq(payload, at + 1, total)
      BY <1>1, <1>3
    <2>2. total = at + n /\ total = Len(payload)
      BY <1>1, <1>4
    <2>3. SubSeq(payload, at + 1, total) = [j \in 1 .. n |-> payload[at + j]]
      <3>1. SubSeq(payload, at + 1, total)
               = [j \in 1 .. total - (at + 1) + 1 |-> payload[(at + 1) + j - 1]]
        BY ONLY <2>2, at \in Nat, n \in Nat, total \in Nat, payload \in Seq(Byte)
      <3>2. total - (at + 1) + 1 = n /\ \A j \in 1 .. n : (at + 1) + j - 1 = at + j
        BY <2>2
      <3> QED
        BY <3>1, <3>2
    <2>4. \A j \in 1 .. n : payload[at + j] \in Byte
      BY ONLY <2>2, at \in Nat, n \in Nat, total \in Nat, payload \in Seq(Byte)
    <2>5. ciphertext = [j \in 1 .. n |-> payload[at + j]]
      BY <2>1, <2>3
    <2> QED
      BY ONLY <2>4, <2>5, n \in Nat
  <1>11. GrpTxtDataSize \in Nat
    BY SizeAssumption, PayloadSizeAssumption DEF GrpTxtDataSize, GrpTxtDataAt
  <1>5. ASSUME NEW i \in 0 .. GrpTxtDataSize
        PROVE  text[i] = IF i = n THEN 0 ELSE DecryptedByte(i)
    BY <1>2 DEF TerminatorAt
  <1>6. ASSUME NEW i \in 0 .. n - 1
        PROVE  grp_txt.data[i] = ciphertext[i + 1] /\ ciphertext[i + 1] \in Byte
    <2>1. i + 1 \in 1 .. n /\ at + (i + 1) = at + i + 1
      OBVIOUS
    <2>2. ciphertext[i + 1] = payload[at + (i + 1)] /\ ciphertext[i + 1] \in Byte
      BY <1>10, <2>1, ElementOfSeq
    <2>3. grp_txt.data[i] = payload[at + i + 1]
      BY <1>4
    <2> QED
      BY <2>1, <2>2, <2>3
  <1>7. ASSUME NEW i \in 0 .. n - 1
        PROVE  text[i] = PlainByte(ciphertext, i)
    <2>1. text[i] = DecryptedByte(i)
      BY <1>4, <1>11, <1>5
    <2>2. PICK k \in Nat, q \in Nat : /\ k = i \div 16 /\ i \in 16 * k .. 16 * k + 15
                                     /\ q = n \div 16 /\ n \in 16 * q .. 16 * q + 15
      <3>1. i \div 16 \in Nat /\ i \in 16 * (i \div 16) .. 16 * (i \div 16) + 15
        OBVIOUS
      <3>2. n \div 16 \in Nat /\ n \in 16 * (n \div 16) .. 16 * (n \div 16) + 15
        OBVIOUS
      <3> QED
        BY <3>1, <3>2
    <2>3. /\ i < 16 * q <=> k < q
          /\ k < q => 16 * k + 16 <= n
      BY <2>2
    <2>4. PlainByte(ciphertext, i)
             = IF k < q
               THEN AES_ECB_decrypt(SubSeq(ciphertext, 16 * k + 1, 16 * k + 16))[(i % 16) + 1]
               ELSE ciphertext[i + 1]
      <3>1. /\ Len(ciphertext) \div CipherBlock = q /\ i \div CipherBlock = k
            /\ CipherBlock = 16
        BY <1>10, <2>2 DEF CipherBlock
      <3> QED
        BY <3>1 DEF PlainByte
    <2> DEFINE block == Slice(grp_txt.data, 16 * k, 16)
    <2>5. DecryptedByte(i) = IF i < 16 * q THEN AES_ECB_decrypt(block)[(i % 16) + 1]
                             ELSE grp_txt.data[i]
      <3>1. /\ i < grp_txt.data_length
            /\ CipherBlock * (grp_txt.data_length \div CipherBlock) = 16 * q
            /\ CipherBlock * (i \div CipherBlock) = 16 * k
        BY <1>2, <2>2 DEF CipherBlock
      <3> QED
        BY <3>1 DEF DecryptedByte, CipherBlock
    <2>6. CASE k < q
      <3>1. ASSUME NEW j \in 1 .. 16
            PROVE  /\ grp_txt.data[16 * k + j - 1] = ciphertext[16 * k + j]
                   /\ ciphertext[16 * k + j] \in Byte
        <4>1. /\ 16 * k + j - 1 \in 0 .. n - 1 /\ (16 * k + j - 1) + 1 = 16 * k + j
          BY <2>3, <2>6
        <4> QED
          BY <1>6, <4>1
      <3>2. block = [j \in 1 .. 16 |-> ciphertext[16 * k + j]]
        BY <3>1 DEF Slice
      <3>3. SubSeq(ciphertext, 16 * k + 1, 16 * k + 16)
               = [j \in 1 .. 16 |-> ciphertext[16 * k + j]]
        <4>1. 16 * k \in Nat /\ 16 * k + 16 <= n
          BY <2>3, <2>6
        <4> QED
          BY ONLY <1>10, <4>1, BlockTaken
      <3> HIDE DEF block
      <3>4. AES_ECB_decrypt(block) = AES_ECB_decrypt(SubSeq(ciphertext, 16 * k + 1, 16 * k + 16))
        BY <3>2, <3>3
      <3>5. text[i] = AES_ECB_decrypt(SubSeq(ciphertext, 16 * k + 1, 16 * k + 16))[(i % 16) + 1]
        BY <2>1, <2>3, <2>5, <2>6, <3>4
      <3> QED
        BY <2>4, <2>6, <3>5
    <2>7. CASE ~ (k < q)
      BY <1>6, <2>1, <2>3, <2>4, <2>5, <2>7
    <2> QED
      BY <2>6, <2>7
  <1>8. text[IF n < TextAt THEN TextAt ELSE n] = 0
    <2>1. CASE n < TextAt
      <3>1. /\ TextAt = 5 /\ 5 \in 0 .. GrpTxtDataSize /\ 5 # n /\ ~(5 < n)
            /\ n \div 16 = 0
        BY <1>4, <1>11, <2>1, TextAssumption DEF TextAt
      <3>2. DecryptedByte(5) = 0
        BY <1>2, <3>1 DEF DecryptedByte, CipherBlock
      <3> QED
        BY <1>5, <2>1, <3>1, <3>2
    <2>2. CASE ~ (n < TextAt)
      BY <1>4, <1>5, <2>2
    <2> QED
      BY <2>1, <2>2
  <1>9. TextAt .. n - 1 \subseteq 0 .. n - 1
    BY DEF TextAt
  <1> QED
    BY <1>7, <1>8, <1>9, <1>10 DEF IsTextOf

(***************************************************************************)
(* A message with the head received, encoded again: the packet is the one  *)
(* received iff the payload has its length back and the transport code is  *)
(* zero, given that with its length the payload has its bytes back.        *)
(***************************************************************************)
LEMMA SameIffCarried ==
    ASSUME input \in [data : Buffers, size : 0 .. MAX_TRANS_UNIT], WellFormed(input),
           message \in Messages, HeadReceived,
           message.payload_length \in 0 .. MAX_PAYLOAD_SIZE,
           message.payload_length = Len(PayloadOf(input))
              => message.payload = PayloadWith(PayloadOf(input))
    PROVE  /\ Serialize(message).result = 0
           /\ SameAsInput(Serialize(message)) <=>
                 /\ message.payload_length = Len(PayloadOf(input))
                 /\ HasTransportCodes(Route(input.data[0]))
                       => input.data[1] = 0 /\ input.data[2] = 0
  <1> DEFINE data == input.data
             P    == PayloadOf(input)
  <1>1. data \in Buffers /\ input.size \in 0 .. MAX_TRANS_UNIT
    OBVIOUS
  <1>2. PICK r : r = Route(data[0])
    OBVIOUS
  <1>3. PICK lengthAt \in Nat, pathAt \in Nat, from \in Nat :
           /\ lengthAt = PathLengthAt(r) /\ pathAt = PathAt(r)
           /\ lengthAt \in {1, 3} /\ pathAt = lengthAt + 1
           /\ HasTransportCodes(r) <=> lengthAt = 3
           /\ from = pathAt + data[lengthAt]
    <2>1. /\ PathLengthAt(r) \in {1, 3} /\ PathAt(r) = PathLengthAt(r) + 1
          /\ HasTransportCodes(r) <=> PathLengthAt(r) = 3
          /\ data[PathLengthAt(r)] \in Byte
      BY <1>1, <1>2, PathLengthType DEF PathLengthIn, PathAt
    <2>2. data[PathLengthAt(r)] \in Nat
      BY <2>1 DEF Byte
    <2>4. PathLengthAt(r) \in Nat /\ PathAt(r) \in Nat
      BY <2>1
    <2>3. PathAt(r) + data[PathLengthAt(r)] \in Nat
      BY <2>2, <2>4
    <2> QED
      BY <2>1, <2>2, <2>3, <2>4
  <1>4. /\ P \in Seq(Byte) /\ from >= 2
        /\ input.size = from + Len(P)
        /\ \A i \in from .. input.size - 1 : P[i - from + 1] = data[i]
    <2>1. from = PathAt(Route(input.data[0])) + input.data[PathLengthAt(Route(input.data[0]))]
      BY <1>2, <1>3
    <2> HIDE DEF P
    <2>2. /\ PayloadOf(input) \in Seq(Byte) /\ from >= 2
          /\ input.size = from + Len(PayloadOf(input))
          /\ \A i \in from .. input.size - 1 :
                PayloadOf(input)[i - from + 1] = input.data[i]
      BY <2>1, PayloadOfFacts
    <2> QED
      BY <2>2 DEF P
  <1>5. /\ message.route = r
        /\ message.path_length = data[lengthAt]
        /\ message.type = Type(data[0]) /\ message.version = Version(data[0])
        /\ \A i \in 0 .. message.path_length - 1 : message.path[i] = data[pathAt + i]
    BY <1>2, <1>3, NothingUnassigned DEF HeadReceived, PathLengthIn
  <1>6. Len(P) \in 0 .. MAX_PAYLOAD_SIZE /\ Len(P) \in Nat
    BY PayloadDecoded
  <1>7. message.path_length <= MAX_PATH_SIZE /\ message.path_length \in Nat
    <2>1. data[lengthAt] <= MAX_PATH_SIZE
      BY <1>2, <1>3 DEF WellFormed
    <2> QED
      BY <1>5, <2>1 DEF Messages, Byte
  <1>8. Carries(Serialize(message), message)
    BY <1>7, SerializeStores
  <1>9. Header(message) = data[0]
    <2>1. data[0] \in Byte
      BY <1>1, SizeAssumption DEF Buffers
    <2> QED
      BY <1>2, <1>5, <2>1, HeaderFields DEF Header
  <1>10. PayloadAt(message) = from
    BY <1>3, <1>5 DEF PayloadAt
  <1> DEFINE packet == Serialize(message)
  <1>11. /\ packet.result = 0
         /\ packet.size = from + message.payload_length
         /\ packet.data[0] = data[0] /\ packet.data[lengthAt] = data[lengthAt]
         /\ \A i \in pathAt .. from - 1 : packet.data[i] = message.path[i - pathAt]
         /\ \A i \in from .. packet.size - 1 : packet.data[i] = message.payload[i - from]
         /\ lengthAt = 3 => packet.data[1] = 0 /\ packet.data[2] = 0
    BY <1>3, <1>5, <1>8, <1>9, <1>10 DEF Carries
  <1>12. ASSUME NEW i \in pathAt .. from - 1
         PROVE  packet.data[i] = data[i]
    <2>1. i - pathAt \in 0 .. message.path_length - 1 /\ pathAt + (i - pathAt) = i
      BY <1>3, <1>5, <1>7, SMTT(30)
    <2>2. message.path[i - pathAt] = data[pathAt + (i - pathAt)]
      BY <1>5, <2>1
    <2> QED
      BY <1>11, <2>1, <2>2
  <1>13. packet.size = input.size <=> message.payload_length = Len(P)
    BY <1>4, <1>6, <1>11
  <1>14. ASSUME message.payload_length = Len(P), NEW i \in from .. input.size - 1
         PROVE  packet.data[i] = data[i]
    <2>1. i - from \in 0 .. Len(P) - 1
      BY <1>4, <1>6, <1>14
    <2>2. PayloadWith(P)[i - from] = P[i - from + 1]
      BY <1>4, <1>6, <2>1, PayloadWithFacts
    <2>3. packet.data[i] = message.payload[i - from]
      BY <1>11, <1>13, <1>14
    <2> QED
      BY <1>4, <1>14, <2>2, <2>3
  <1>15. input.size \in Nat /\ from <= input.size /\ pathAt <= from
    <2>1. from = pathAt + message.path_length
      BY <1>3, <1>5
    <2> QED
      BY <1>3, <1>4, <1>6, <1>7, <2>1, SMTT(30)
  <1> DEFINE codeZero == lengthAt = 3 => data[1] = 0 /\ data[2] = 0
  <1>16. ASSUME SameAsInput(packet)
         PROVE  message.payload_length = Len(P) /\ codeZero
    <2>1. message.payload_length = Len(P)
      BY <1>13, <1>16 DEF SameAsInput
    <2>2. ASSUME lengthAt = 3 PROVE data[1] = 0 /\ data[2] = 0
      <3>1. 1 \in 0 .. input.size - 1 /\ 2 \in 0 .. input.size - 1
        BY <1>3, <1>15, <2>2
      <3>2. packet.data[1] = data[1] /\ packet.data[2] = data[2]
        BY <1>16, <3>1 DEF SameAsInput
      <3> QED
        BY <1>11, <2>2, <3>2
    <2> QED
      BY <2>1, <2>2
  <1>17. ASSUME message.payload_length = Len(P), codeZero
         PROVE  SameAsInput(packet)
    <2>1. packet.size = input.size
      BY <1>13, <1>17
    <2>2. ASSUME NEW i \in 0 .. input.size - 1 PROVE packet.data[i] = data[i]
      <3>1. \/ i = 0 \/ i = lengthAt
            \/ lengthAt = 3 /\ i \in 1 .. 2
            \/ i \in pathAt .. from - 1
            \/ i \in from .. input.size - 1
        BY <1>3, <1>15
      <3>2. CASE i = 0 \/ i = lengthAt
        BY <1>11, <3>2
      <3>3. CASE lengthAt = 3 /\ i \in 1 .. 2
        <4>1. /\ i = 1 \/ i = 2
              /\ packet.data[1] = 0 /\ packet.data[2] = 0 /\ data[1] = 0 /\ data[2] = 0
          BY <1>11, <1>17, <3>3
        <4> QED
          BY <4>1
      <3> QED
        BY <1>12, <1>14, <1>17, <3>1, <3>2, <3>3
    <2> QED
      BY <2>1, <2>2 DEF SameAsInput
  <1> QED
    BY <1>2, <1>3, <1>11, <1>16, <1>17

-----------------------------------------------------------------------------

(***************************************************************************)
(* The steps.  The input never changes, so what is said of it carries over.*)
(***************************************************************************)
LEMMA DecodeFailsDInv == DInv /\ DecodeFails => DInv'
  <1> SUFFICES ASSUME DInv, DecodeFails PROVE DInv'
    OBVIOUS
  <1>1. /\ pc = "decode" /\ pc' = "exit" /\ result' = -1
        /\ UNCHANGED <<input, message, grp_txt, decrypted>>
        /\ message = Nothing /\ decrypted = Nothing
    BY DEF DecodeFails, Exit, DInv, MessageAssigned
  <1>2. ~WellFormed(input)
    <2>1. Accepts(input.data, input.size) <=> WellFormed(input)
      BY AcceptsExactly DEF DInv, DecoderTypeOK
    <2>2. ~Accepts(input.data, input.size)
      BY DEF DecodeFails, Decoded, Deserialize
    <2> QED
      BY <2>1, <2>2
  <1>3. ~Canonical(input) /\ result' # 0
    BY <1>1, <1>2 DEF Canonical
  <1>4. DecoderTypeOK' /\ MessageAssigned'
    BY <1>1 DEF DInv, DecoderTypeOK, MessageAssigned
  <1>5. AcceptsWellFormed' /\ HeadReceived' /\ PayloadReceived' /\ GrpTxtReceived'
    BY <1>1, <1>2 DEF AcceptsWellFormed, HeadReceived, PayloadReceived, GrpTxtReceived
  <1>6. DecryptedIsAuthentic' /\ TextIsPlaintext' /\ OverrunsOnlyTooShort'
    BY <1>1 DEF DecryptedIsAuthentic, TextIsPlaintext, OverrunsOnlyTooShort
  <1>7. PayloadReencoded' /\ MatchesIffCanonical'
    BY <1>1, <1>3 DEF PayloadReencoded, MatchesIffCanonical
  <1> QED
    BY <1>4, <1>5, <1>6, <1>7 DEF DInv

(***************************************************************************)
(* Decode keeps the invariant: the message is that of an accepted packet.  *)
(***************************************************************************)
LEMMA DecodeDInv == DInv /\ Decode => DInv'
  <1> SUFFICES ASSUME DInv, Decode PROVE DInv'
    OBVIOUS
  <1>1. input \in [data : Buffers, size : 0 .. MAX_TRANS_UNIT]
    BY DEF DInv, DecoderTypeOK
  <1>2. Accepts(input.data, input.size)
    BY DEF Decode, Decoded, Deserialize, Rejected
  <1>3. WellFormed(input)
    BY <1>1, <1>2, AcceptsExactly
  <1>4. message' = MessageIn(input.data, input.size) /\ message' \in Messages
    BY <1>1, <1>2, MessageTyped DEF Decode, Decoded, Deserialize
  <1>5. /\ message'.payload_length = Len(PayloadOf(input))
        /\ message'.payload = PayloadWith(PayloadOf(input))
    BY <1>1, <1>3, <1>4, PayloadDecoded DEF MessageIn
  <1>6. Len(PayloadOf(input)) \in 0 .. MAX_PAYLOAD_SIZE
    BY <1>1, <1>3, PayloadDecoded
  <1>7. message'.type = Type(input.data[0])
    BY <1>4 DEF MessageIn
  <1>8. /\ UNCHANGED <<input, grp_txt, decrypted, result>> /\ decrypted = Nothing
        /\ message' # Nothing
    BY <1>4, NothingUnassigned DEF Decode, DInv, MessageAssigned
  <1>9. \/ pc' = "advert" /\ message'.type = ADVERT
        \/ pc' = "grp_txt" /\ message'.type = GRP_TXT
        \/ pc' = "encode" /\ message'.type # ADVERT /\ message'.type # GRP_TXT
    BY DEF Decode
  <1>10. DecoderTypeOK' /\ MessageAssigned'
    BY <1>4, <1>7, <1>8, <1>9 DEF DInv, DecoderTypeOK, MessageAssigned
  <1>11. AcceptsWellFormed'
    BY <1>3, <1>8 DEF AcceptsWellFormed
  <1>12. HeadReceived'
    <2>1. input.data \in Buffers /\ input.size \in 0 .. MAX_TRANS_UNIT
      BY <1>1
    <2> QED
      BY <1>2, <1>4, <1>8, <2>1, HeadDecoded DEF HeadReceived
  <1>13. PayloadReceived' /\ GrpTxtReceived'
    BY <1>5, <1>8, <1>9 DEF PayloadReceived, GrpTxtReceived
  <1>14. DecryptedIsAuthentic' /\ TextIsPlaintext' /\ OverrunsOnlyTooShort'
         /\ MatchesIffCanonical'
    BY <1>8, <1>9 DEF DecryptedIsAuthentic, TextIsPlaintext, OverrunsOnlyTooShort,
       MatchesIffCanonical
  <1>15. PayloadReencoded'
    <2>1. ASSUME pc' = "encode" PROVE PayloadCanonical'
      BY <1>7, <1>8, <1>9, <2>1 DEF PayloadCanonical
    <2> QED
      BY <1>5, <1>6, <1>8, <2>1 DEF PayloadReencoded
  <1> QED
    BY <1>10, <1>11, <1>12, <1>13, <1>14, <1>15 DEF DInv

(***************************************************************************)
(* What holds of every step once a packet has been decoded.                *)
(***************************************************************************)
LEMMA Received ==
    ASSUME DInv, message # Nothing
    PROVE  /\ input \in [data : Buffers, size : 0 .. MAX_TRANS_UNIT]
           /\ message \in Messages
           /\ WellFormed(input)
           /\ PayloadOf(input) \in Seq(Byte)
           /\ Len(PayloadOf(input)) \in 0 .. MAX_PAYLOAD_SIZE
           /\ Len(PayloadOf(input)) <= MAX_PAYLOAD_SIZE
           /\ Len(PayloadOf(input)) \in Nat
  <1>1. /\ input \in [data : Buffers, size : 0 .. MAX_TRANS_UNIT]
        /\ message \in Messages
        /\ WellFormed(input)
    BY DEF DInv, DecoderTypeOK, AcceptsWellFormed
  <1>2. Len(PayloadOf(input)) \in 0 .. MAX_PAYLOAD_SIZE /\ MAX_PAYLOAD_SIZE \in Nat
    BY <1>1, PayloadDecoded, SizeAssumption
  <1> QED
    BY <1>1, <1>2, PayloadOfFacts

(***************************************************************************)
(* AdvertFails keeps the invariant: the program ends.                      *)
(***************************************************************************)
LEMMA AdvertFailsDInv == DInv /\ AdvertFails => DInv'
  <1> SUFFICES ASSUME DInv, AdvertFails PROVE DInv'
    OBVIOUS
  <1>1. /\ pc = "advert" /\ pc' = "exit" /\ result' = -1
        /\ UNCHANGED <<input, message, grp_txt, decrypted>>
        /\ message # Nothing /\ Type(input.data[0]) = ADVERT
        /\ DecodedAdvert.result < 0
    BY DEF AdvertFails, Exit, DInv, MessageAssigned
  <1>2. DecodedAdvert
           = AdvertDeserialize(PayloadWith(PayloadOf(input)), Len(PayloadOf(input)))
    BY <1>1 DEF DInv, PayloadReceived, DecodedAdvert
  <1>3. ~CanonicalAdvert(PayloadOf(input))
    <2>1. PICK bytes \in Seq(Byte) : bytes = PayloadOf(input) /\ Len(bytes) <= MAX_PAYLOAD_SIZE
      BY <1>1, Received
    <2> QED
      BY <1>1, <1>2, <2>1, AdvertRejected DEF CanonicalAdvert
  <1>4. ~Canonical(input) /\ result' # 0
    BY <1>1, <1>3 DEF Canonical
  <1>5. DecoderTypeOK' /\ MessageAssigned'
    BY <1>1 DEF DInv, DecoderTypeOK, MessageAssigned
  <1>6. AcceptsWellFormed' /\ HeadReceived' /\ PayloadReceived' /\ GrpTxtReceived'
    BY <1>1 DEF DInv, AcceptsWellFormed, HeadReceived, PayloadReceived, GrpTxtReceived
  <1>7. DecryptedIsAuthentic' /\ TextIsPlaintext' /\ OverrunsOnlyTooShort'
    BY <1>1 DEF DInv, DecryptedIsAuthentic, TextIsPlaintext, OverrunsOnlyTooShort
  <1>8. PayloadReencoded' /\ MatchesIffCanonical'
    BY <1>1, <1>4 DEF PayloadReencoded, MatchesIffCanonical
  <1> QED
    BY <1>5, <1>6, <1>7, <1>8 DEF DInv

(***************************************************************************)
(* A codec stores bytes that fit in a payload.                             *)
(***************************************************************************)
LEMMA Stored ==
    ASSUME message \in Messages,
           NEW bytes \in Seq(Byte), Len(bytes) <= MAX_PAYLOAD_SIZE, StorePayload(bytes)
    PROVE  /\ message' \in Messages
           /\ message'.payload_length = Len(bytes)
           /\ Len(bytes) \in 0 .. MAX_PAYLOAD_SIZE
           /\ message'.payload = PayloadWith(bytes)
           /\ message'.type = message.type /\ message'.route = message.route
           /\ message'.version = message.version
           /\ message'.path_length = message.path_length
           /\ message'.path = message.path
  <1>1. PICK n \in Nat : n = Len(bytes) /\ n \in 0 .. MAX_PAYLOAD_SIZE
    BY LenProperties, SizeAssumption
  <1>2. n % ByteSize = n /\ n \in Byte
    <2>1. n < 256 /\ ByteSize = 256
      <3>1. MAX_PAYLOAD_SIZE \in Nat /\ MAX_PAYLOAD_SIZE < 256 /\ ByteSize = 256
        BY SizeAssumption DEF ByteSize
      <3> QED
        BY <1>1, <3>1
    <2>2. n % 256 = n /\ n \in 0 .. 255
      BY <2>1
    <2> QED
      BY <2>1, <2>2 DEF Byte
  <1>3. PayloadWith(bytes) \in Payloads
    BY PayloadWithFacts
  <1>4. message' = [message EXCEPT !.payload = PayloadWith(bytes), !.payload_length = n]
    BY <1>1, <1>2 DEF StorePayload
  <1> QED
    BY <1>1, <1>2, <1>3, <1>4 DEF Messages

(***************************************************************************)
(* A step that stores a payload and goes on to encode the packet.          *)
(***************************************************************************)
LEMMA StoreDInv ==
    ASSUME DInv, message # Nothing,
           NEW bytes \in Seq(Byte), Len(bytes) <= MAX_PAYLOAD_SIZE, StorePayload(bytes),
           Len(bytes) = Len(PayloadOf(input)) <=> PayloadCanonical,
           Len(bytes) = Len(PayloadOf(input)) => bytes = PayloadOf(input),
           pc' = "encode", UNCHANGED <<input, grp_txt, decrypted, result>>
    PROVE  DInv'
  <1>1. message \in Messages /\ WellFormed(input)
    BY Received
  <1>2. /\ message' \in Messages /\ message' # Nothing
        /\ message'.payload_length = Len(bytes)
        /\ Len(bytes) \in 0 .. MAX_PAYLOAD_SIZE
        /\ message'.payload = PayloadWith(bytes)
        /\ message'.type = message.type /\ message'.route = message.route
        /\ message'.version = message.version
        /\ message'.path_length = message.path_length
        /\ message'.path = message.path
    BY <1>1, Stored, NothingUnassigned
  <1>3. DecoderTypeOK' /\ MessageAssigned'
    BY <1>2 DEF DInv, DecoderTypeOK, MessageAssigned
  <1>4. AcceptsWellFormed' /\ HeadReceived'
    BY <1>1, <1>2 DEF DInv, AcceptsWellFormed, HeadReceived
  <1>5. PayloadReceived' /\ GrpTxtReceived' /\ OverrunsOnlyTooShort' /\ MatchesIffCanonical'
    BY DEF PayloadReceived, GrpTxtReceived, OverrunsOnlyTooShort, MatchesIffCanonical
  <1>6. DecryptedIsAuthentic' /\ TextIsPlaintext'
    BY DEF DInv, DecryptedIsAuthentic, TextIsPlaintext
  <1>7. PayloadReencoded'
    <2>1. PayloadCanonical' <=> PayloadCanonical
      BY DEF PayloadCanonical
    <2> QED
      BY <1>2, <2>1 DEF PayloadReencoded
  <1> QED
    BY <1>3, <1>4, <1>5, <1>6, <1>7 DEF DInv

(***************************************************************************)
(* Advert keeps the invariant: what is stored again is the payload, if     *)
(* that was canonical.                                                     *)
(***************************************************************************)
LEMMA AdvertDInv == DInv /\ Advert => DInv'
  <1> SUFFICES ASSUME DInv, Advert PROVE DInv'
    OBVIOUS
  <1>1. /\ pc = "advert" /\ pc' = "encode"
        /\ UNCHANGED <<input, grp_txt, decrypted, result>>
        /\ message # Nothing /\ Type(input.data[0]) = ADVERT
        /\ DecodedAdvert.result >= 0
        /\ StorePayload(AdvertBytes(DecodedAdvert.advert))
    BY DEF Advert, DInv, MessageAssigned
  <1>2. PICK bytes \in Seq(Byte) :
           bytes = PayloadOf(input) /\ Len(bytes) <= MAX_PAYLOAD_SIZE /\ Len(bytes) \in Nat
    BY <1>1, Received
  <1>3. DecodedAdvert = AdvertDeserialize(PayloadWith(bytes), Len(bytes))
    BY <1>1, <1>2 DEF DInv, PayloadReceived, DecodedAdvert
  <1>4. DecodedAdvert # Rejected
    BY <1>1 DEF Rejected
  <1>5. PICK n \in IdentitySize + 1 .. MAX_PAYLOAD_SIZE :
           /\ AdvertBytes(DecodedAdvert.advert) = Slice(PayloadWith(bytes), 0, n)
           /\ Len(bytes) > IdentitySize =>
                 LET flags == bytes[IdentitySize + 1]
                 IN  /\ NameAt(flags) <= n /\ n <= Len(bytes)
                     /\ ~HasName(flags) => n = NameAt(flags)
                     /\ HasName(flags) => /\ n = Len(bytes) \/ bytes[n + 1] = 0
                                          /\ Len(bytes) - NameAt(flags) <= MAX_NAME_SIZE
                     /\ \A i \in NameAt(flags) + 1 .. n : bytes[i] # 0
    BY <1>2, <1>3, <1>4, AdvertReencoded
  <1> DEFINE stored == Slice(PayloadWith(bytes), 0, n)
  <1>6. n \in Nat /\ n <= MAX_PAYLOAD_SIZE /\ n > IdentitySize /\ IdentitySize \in Nat
    BY AdvertSizes
  <1>7. stored \in Seq(Byte) /\ Len(stored) = n
    <2>1. PayloadWith(bytes) \in Payloads
      BY <1>2, PayloadWithFacts
    <2>2. \A i \in 1 .. n : PayloadWith(bytes)[0 + i - 1] \in Byte
      BY <1>6, <2>1, SizeAssumption DEF Payloads
    <2> QED
      BY <1>6, <2>2 DEF Slice
  <1>8. n = Len(bytes) <=> CanonicalAdvert(bytes)
    <2>1. CASE Len(bytes) <= IdentitySize
      BY <1>2, <1>6, <2>1 DEF CanonicalAdvert
    <2>2. CASE Len(bytes) > IdentitySize
      <3> DEFINE flags == bytes[IdentitySize + 1]
      <3>1. flags \in Byte
        BY <1>2, <1>6, <2>2, ElementOfSeq
      <3>2. PICK at \in Nat : at = NameAt(flags) /\ at > IdentitySize
        BY <3>1, <1>6, AdvertAccepted
      <3> HIDE DEF flags
      <3>3. /\ at <= n /\ n <= Len(bytes)
            /\ ~HasName(flags) => n = at
            /\ HasName(flags) => /\ n = Len(bytes) \/ bytes[n + 1] = 0
                                 /\ Len(bytes) - at <= MAX_NAME_SIZE
            /\ \A i \in at + 1 .. n : bytes[i] # 0
        BY <1>5, <2>2, <3>2 DEF flags
      <3>4. CanonicalAdvert(bytes) <=>
               /\ at <= Len(bytes)
               /\ HasName(flags) => Len(bytes) - at <= MAX_NAME_SIZE
               /\ ~HasName(flags) => at = Len(bytes)
               /\ \A i \in at + 1 .. Len(bytes) : bytes[i] # 0
        BY <2>2, <3>2 DEF CanonicalAdvert, flags
      <3>5. ASSUME n = Len(bytes) PROVE CanonicalAdvert(bytes)
        BY <1>2, <3>3, <3>4, <3>5
      <3>6. ASSUME CanonicalAdvert(bytes) PROVE n = Len(bytes)
        <4>1. CASE ~HasName(flags)
          BY <3>3, <3>4, <3>6, <4>1
        <4>2. CASE HasName(flags) /\ n # Len(bytes)
          <5>1. bytes[n + 1] = 0 /\ n + 1 \in at + 1 .. Len(bytes)
            BY <1>2, <1>6, <3>2, <3>3, <4>2
          <5> QED
            BY <3>4, <3>6, <5>1
        <4> QED
          BY <4>1, <4>2
      <3> QED
        BY <3>5, <3>6
    <2> QED
      BY <1>2, <1>6, <2>1, <2>2
  <1>9. n = Len(bytes) => stored = bytes
    <2>1. CASE n = Len(bytes)
      <3>1. PayloadWith(bytes) = [i \in 0 .. MAX_PAYLOAD_SIZE - 1 |->
                                    IF i < n THEN bytes[i + 1] ELSE 0]
        BY <2>1 DEF PayloadWith
      <3>2. ASSUME NEW i \in 1 .. n PROVE stored[i] = bytes[i]
        <4>1. stored[i] = PayloadWith(bytes)[0 + i - 1]
          BY DEF Slice
        <4>2. 0 + i - 1 \in 0 .. MAX_PAYLOAD_SIZE - 1 /\ 0 + i - 1 < n /\ (0 + i - 1) + 1 = i
          BY <1>6, SizeAssumption
        <4> HIDE DEF stored
        <4> QED
          BY <3>1, <4>1, <4>2
      <3> HIDE DEF stored
      <3> QED
        BY <1>2, <1>7, <2>1, <3>2, SeqEqual
    <2> QED
      BY <2>1
  <1>10. PayloadCanonical <=> CanonicalAdvert(bytes)
    BY <1>1, <1>2 DEF PayloadCanonical, ADVERT, GRP_TXT
  <1> HIDE DEF stored
  <1>11. /\ stored \in Seq(Byte) /\ Len(stored) <= MAX_PAYLOAD_SIZE /\ StorePayload(stored)
         /\ Len(stored) = Len(PayloadOf(input)) <=> PayloadCanonical
         /\ Len(stored) = Len(PayloadOf(input)) => stored = PayloadOf(input)
    BY <1>1, <1>2, <1>5, <1>6, <1>7, <1>8, <1>9, <1>10 DEF stored
  <1> QED
    BY <1>1, <1>11, StoreDInv

(***************************************************************************)
(* GrpTxtOverruns keeps the invariant: only a text shorter than its fixed  *)
(* part gets there.                                                        *)
(***************************************************************************)
LEMMA GrpTxtOverrunsDInv == DInv /\ GrpTxtOverruns => DInv'
  <1> SUFFICES ASSUME DInv, GrpTxtOverruns PROVE DInv'
    OBVIOUS
  <1>1. /\ pc = "grp_txt" /\ pc' = "undefined"
        /\ UNCHANGED <<input, message, grp_txt, decrypted, result>>
        /\ message # Nothing /\ Type(input.data[0]) = GRP_TXT
        /\ ~GrpTxtCopyFits(message.payload_length)
    BY DEF GrpTxtOverruns, DInv, MessageAssigned
  <1>2. message.payload_length = Len(PayloadOf(input))
    BY <1>1 DEF DInv, PayloadReceived
  <1>3. Len(PayloadOf(input)) < GrpTxtDataAt
    <2>1. Len(PayloadOf(input)) \in 0 .. MAX_PAYLOAD_SIZE
      BY <1>1, Received
    <2> QED
      BY <1>1, <1>2, <2>1, CopyFits, PayloadSizeAssumption DEF GrpTxtDataAt
  <1>4. DecoderTypeOK' /\ MessageAssigned'
    BY <1>1 DEF DInv, DecoderTypeOK, MessageAssigned
  <1>5. AcceptsWellFormed' /\ HeadReceived' /\ PayloadReceived' /\ GrpTxtReceived'
    BY <1>1 DEF DInv, AcceptsWellFormed, HeadReceived, PayloadReceived, GrpTxtReceived
  <1>6. DecryptedIsAuthentic' /\ TextIsPlaintext' /\ OverrunsOnlyTooShort'
    BY <1>1, <1>3 DEF DInv, DecryptedIsAuthentic, TextIsPlaintext, OverrunsOnlyTooShort
  <1>7. PayloadReencoded' /\ MatchesIffCanonical'
    BY <1>1 DEF PayloadReencoded, MatchesIffCanonical
  <1> QED
    BY <1>4, <1>5, <1>6, <1>7 DEF DInv

(***************************************************************************)
(* A group text whose copy fits is not shorter than its hash and MAC.      *)
(***************************************************************************)
LEMMA LongEnough ==
    ASSUME DInv, message # Nothing, GrpTxtCopyFits(Len(PayloadOf(input)))
    PROVE  Len(PayloadOf(input)) >= GrpTxtDataAt
  BY Received, CopyFits

(***************************************************************************)
(* GrpTxt keeps the invariant: the copy fits, and grp_txt is what was      *)
(* received.                                                               *)
(***************************************************************************)
LEMMA GrpTxtDInv == DInv /\ GrpTxt => DInv'
  <1> SUFFICES ASSUME DInv, GrpTxt PROVE DInv'
    OBVIOUS
  <1>1. /\ pc = "grp_txt" /\ pc' = "authenticate"
        /\ UNCHANGED <<input, message, decrypted, result>>
        /\ message # Nothing /\ Type(input.data[0]) = GRP_TXT
        /\ GrpTxtCopyFits(message.payload_length)
        /\ grp_txt' = GrpTxtDeserialize(message.payload, message.payload_length)
    BY DEF GrpTxt, DInv, MessageAssigned
  <1>2. PICK bytes \in Seq(Byte) :
           bytes = PayloadOf(input) /\ Len(bytes) <= MAX_PAYLOAD_SIZE /\ Len(bytes) \in Nat
    BY <1>1, Received
  <1>3. message.payload_length = Len(bytes) /\ message.payload = PayloadWith(bytes)
    BY <1>1, <1>2 DEF DInv, PayloadReceived
  <1>4. grp_txt' = GrpTxtDeserialize(PayloadWith(bytes), Len(bytes))
    BY <1>1, <1>3
  <1>5. grp_txt' \in GrpTxts
    <2>1. Len(bytes) >= GrpTxtDataAt
      BY <1>1, <1>2, <1>3, LongEnough
    <2> QED
      BY <1>2, <1>4, <2>1, GrpTxtDecoded DEF GrpTxts
  <1>6. DecoderTypeOK' /\ MessageAssigned'
    BY <1>1, <1>5 DEF DInv, DecoderTypeOK, MessageAssigned
  <1>7. AcceptsWellFormed' /\ HeadReceived' /\ PayloadReceived'
    BY <1>1 DEF DInv, AcceptsWellFormed, HeadReceived, PayloadReceived
  <1>8. GrpTxtReceived'
    BY <1>1, <1>2, <1>3, <1>4 DEF GrpTxtReceived
  <1>9. DecryptedIsAuthentic' /\ TextIsPlaintext' /\ OverrunsOnlyTooShort'
    BY <1>1 DEF DInv, DecryptedIsAuthentic, TextIsPlaintext, OverrunsOnlyTooShort
  <1>10. PayloadReencoded' /\ MatchesIffCanonical'
    BY <1>1 DEF PayloadReencoded, MatchesIffCanonical
  <1> QED
    BY <1>6, <1>7, <1>8, <1>9, <1>10 DEF DInv

(***************************************************************************)
(* Decrypt keeps the invariant: the MAC is that of the ciphertext.         *)
(***************************************************************************)
LEMMA DecryptDInv == DInv /\ Decrypt => DInv'
  <1> SUFFICES ASSUME DInv, Decrypt PROVE DInv'
    OBVIOUS
  <1>1. /\ pc = "authenticate" /\ pc' = "grp_txt_encode"
        /\ UNCHANGED <<input, message, grp_txt, result>>
        /\ message # Nothing /\ Type(input.data[0]) = GRP_TXT
        /\ grp_txt.mac = hmac_sha256(Ciphertext)
        /\ decrypted' = [i \in 0 .. GrpTxtDataSize |->
                           IF i = TerminatorAt THEN 0 ELSE DecryptedByte(i)]
    BY DEF Decrypt, Authentic, DInv, MessageAssigned
  <1>2. PICK bytes \in Seq(Byte) :
           bytes = PayloadOf(input) /\ Len(bytes) <= MAX_PAYLOAD_SIZE /\ Len(bytes) \in Nat
    BY <1>1, Received
  <1>3. /\ grp_txt = GrpTxtDeserialize(PayloadWith(bytes), Len(bytes))
        /\ GrpTxtCopyFits(Len(bytes))
    BY <1>1, <1>2 DEF DInv, GrpTxtReceived
  <1>4. Len(bytes) >= GrpTxtDataAt
    BY <1>1, <1>2, <1>3, LongEnough
  <1>5. DecryptedIsAuthentic'
    <2>1. /\ grp_txt.mac = SubSeq(bytes, 2, GrpTxtDataAt)
          /\ Ciphertext = SubSeq(bytes, GrpTxtDataAt + 1, Len(bytes))
      BY <1>2, <1>3, <1>4, GrpTxtDecoded DEF Ciphertext
    <2> QED
      BY <1>1, <1>2, <2>1 DEF DecryptedIsAuthentic
  <1>6. TextIsPlaintext'
    <2>1. PICK text, ciphertext :
             text = decrypted' /\ ciphertext = SubSeq(bytes, GrpTxtDataAt + 1, Len(bytes))
      OBVIOUS
    <2>2. IsTextOf(text, ciphertext)
      BY <1>1, <1>2, <1>3, <1>4, <2>1, TextDecrypted
    <2>3. (TextIsPlaintext <=> TextReceived)'
      BY TextIsReceived, PTL
    <2> QED
      BY <1>1, <1>2, <2>1, <2>2, <2>3 DEF TextReceived
  <1>7. DecoderTypeOK' /\ MessageAssigned'
    BY <1>1 DEF DInv, DecoderTypeOK, MessageAssigned
  <1>8. AcceptsWellFormed' /\ HeadReceived' /\ PayloadReceived' /\ GrpTxtReceived'
    BY <1>1 DEF DInv, AcceptsWellFormed, HeadReceived, PayloadReceived, GrpTxtReceived
  <1>9. OverrunsOnlyTooShort' /\ PayloadReencoded' /\ MatchesIffCanonical'
    BY <1>1 DEF OverrunsOnlyTooShort, PayloadReencoded, MatchesIffCanonical
  <1> QED
    BY <1>5, <1>6, <1>7, <1>8, <1>9 DEF DInv

(***************************************************************************)
(* MacDiffers keeps the invariant: nothing is decrypted.                   *)
(***************************************************************************)
LEMMA MacDiffersDInv == DInv /\ MacDiffers => DInv'
  <1> SUFFICES ASSUME DInv, MacDiffers PROVE DInv'
    OBVIOUS
  <1>1. /\ pc = "authenticate" /\ pc' = "grp_txt_encode"
        /\ UNCHANGED <<input, message, grp_txt, decrypted, result>>
    BY DEF MacDiffers
  <1>2. DecoderTypeOK' /\ MessageAssigned'
    BY <1>1 DEF DInv, DecoderTypeOK, MessageAssigned
  <1>3. AcceptsWellFormed' /\ HeadReceived' /\ PayloadReceived' /\ GrpTxtReceived'
    BY <1>1 DEF DInv, AcceptsWellFormed, HeadReceived, PayloadReceived, GrpTxtReceived
  <1>4. DecryptedIsAuthentic' /\ TextIsPlaintext' /\ OverrunsOnlyTooShort'
    BY <1>1 DEF DInv, DecryptedIsAuthentic, TextIsPlaintext, OverrunsOnlyTooShort
  <1>5. PayloadReencoded' /\ MatchesIffCanonical'
    BY <1>1 DEF PayloadReencoded, MatchesIffCanonical
  <1> QED
    BY <1>2, <1>3, <1>4, <1>5 DEF DInv

(***************************************************************************)
(* GrpTxtEncode keeps the invariant: a group text is stored as it was      *)
(* received.                                                               *)
(***************************************************************************)
LEMMA GrpTxtEncodeDInv == DInv /\ GrpTxtEncode => DInv'
  <1> SUFFICES ASSUME DInv, GrpTxtEncode PROVE DInv'
    OBVIOUS
  <1>1. /\ pc = "grp_txt_encode" /\ pc' = "encode"
        /\ UNCHANGED <<input, grp_txt, decrypted, result>>
        /\ message # Nothing /\ Type(input.data[0]) = GRP_TXT
        /\ StorePayload(GrpTxtBytes(grp_txt))
    BY DEF GrpTxtEncode, DInv, MessageAssigned
  <1>2. PICK bytes \in Seq(Byte) :
           bytes = PayloadOf(input) /\ Len(bytes) <= MAX_PAYLOAD_SIZE /\ Len(bytes) \in Nat
    BY <1>1, Received
  <1>3. /\ grp_txt = GrpTxtDeserialize(PayloadWith(bytes), Len(bytes))
        /\ GrpTxtCopyFits(Len(bytes))
    BY <1>1, <1>2 DEF DInv, GrpTxtReceived
  <1>4. Len(bytes) >= GrpTxtDataAt
    BY <1>1, <1>2, <1>3, LongEnough
  <1>5. GrpTxtBytes(grp_txt) = bytes
    BY <1>2, <1>3, <1>4, GrpTxtReencoded
  <1>6. PayloadCanonical
    BY <1>1, <1>2, <1>4 DEF PayloadCanonical, ADVERT, GRP_TXT
  <1> QED
    BY <1>1, <1>2, <1>5, <1>6, StoreDInv

(***************************************************************************)
(* Encode keeps the invariant: the packet is the one received exactly if   *)
(* it was canonical.                                                       *)
(***************************************************************************)
LEMMA EncodeDInv == DInv /\ Encode => DInv'
  <1> SUFFICES ASSUME DInv, Encode PROVE DInv'
    OBVIOUS
  <1>1. /\ pc = "encode" /\ pc' = "exit"
        /\ UNCHANGED <<input, message, grp_txt, decrypted>>
        /\ message # Nothing
        /\ encoded' = Serialize(message)
        /\ result' = IF encoded'.result >= 0 /\ SameAsInput(encoded') THEN 0 ELSE -1
    BY DEF Encode, Exit, DInv, MessageAssigned
  <1>2. /\ Serialize(message).result = 0
        /\ SameAsInput(Serialize(message)) <=>
              /\ message.payload_length = Len(PayloadOf(input))
              /\ HasTransportCodes(Route(input.data[0]))
                    => input.data[1] = 0 /\ input.data[2] = 0
    <2>1. /\ input \in [data : Buffers, size : 0 .. MAX_TRANS_UNIT]
          /\ WellFormed(input) /\ message \in Messages
      BY <1>1, Received
    <2>2. /\ HeadReceived
          /\ message.payload_length \in 0 .. MAX_PAYLOAD_SIZE
          /\ message.payload_length = Len(PayloadOf(input))
                => message.payload = PayloadWith(PayloadOf(input))
      BY <1>1 DEF DInv, PayloadReencoded
    <2> QED
      BY <2>1, <2>2, SameIffCarried
  <1>3. result' = 0 <=> Canonical(input)
    <2>1. WellFormed(input)
      BY <1>1, Received
    <2>2. message.payload_length = Len(PayloadOf(input)) <=> PayloadCanonical
      BY <1>1 DEF DInv, PayloadReencoded
    <2>3. result' = 0 <=> SameAsInput(Serialize(message))
      <3>1. encoded'.result >= 0
        BY <1>1, <1>2
      <3> QED
        BY <1>1, <3>1
    <2>4. Canonical(input) <=>
             /\ PayloadCanonical
             /\ HasTransportCodes(Route(input.data[0]))
                   => input.data[1] = 0 /\ input.data[2] = 0
      BY <2>1 DEF Canonical, PayloadCanonical
    <2> QED
      BY <1>2, <2>2, <2>3, <2>4
  <1>4. DecoderTypeOK' /\ MessageAssigned'
    BY <1>1 DEF DInv, DecoderTypeOK, MessageAssigned
  <1>5. AcceptsWellFormed' /\ HeadReceived' /\ PayloadReceived' /\ GrpTxtReceived'
    BY <1>1 DEF DInv, AcceptsWellFormed, HeadReceived, PayloadReceived, GrpTxtReceived
  <1>6. DecryptedIsAuthentic' /\ TextIsPlaintext' /\ OverrunsOnlyTooShort'
    BY <1>1 DEF DInv, DecryptedIsAuthentic, TextIsPlaintext, OverrunsOnlyTooShort
  <1>7. PayloadReencoded' /\ MatchesIffCanonical'
    BY <1>1, <1>3 DEF PayloadReencoded, MatchesIffCanonical
  <1> QED
    BY <1>4, <1>5, <1>6, <1>7 DEF DInv

(***************************************************************************)
(* Nor does a stuttering step disturb it.                                  *)
(***************************************************************************)
LEMMA UnchangedDInv == DInv /\ UNCHANGED vars => DInv'
  <1> SUFFICES ASSUME DInv, UNCHANGED vars PROVE DInv'
    OBVIOUS
  <1>1. UNCHANGED <<pc, input, message, grp_txt, decrypted, result>>
    BY DEF vars
  <1>2. DecoderTypeOK' /\ MessageAssigned'
    BY <1>1 DEF DInv, DecoderTypeOK, MessageAssigned
  <1>3. AcceptsWellFormed' /\ HeadReceived' /\ PayloadReceived' /\ GrpTxtReceived'
    BY <1>1 DEF DInv, AcceptsWellFormed, HeadReceived, PayloadReceived, GrpTxtReceived
  <1>4. DecryptedIsAuthentic' /\ TextIsPlaintext' /\ OverrunsOnlyTooShort'
    BY <1>1 DEF DInv, DecryptedIsAuthentic, TextIsPlaintext, OverrunsOnlyTooShort
  <1>5. PayloadReencoded' /\ MatchesIffCanonical'
    <2>1. PayloadCanonical' <=> PayloadCanonical
      BY <1>1 DEF PayloadCanonical
    <2> QED
      BY <1>1, <2>1 DEF DInv, PayloadReencoded, MatchesIffCanonical
  <1> QED
    BY <1>2, <1>3, <1>4, <1>5 DEF DInv

(***************************************************************************)
(* The inductive invariant holds of every run of the program.              *)
(***************************************************************************)
THEOREM DInvHolds == Spec => []DInv
  <1>1. DInv /\ [Next]_vars => DInv'
    BY DecodeFailsDInv, DecodeDInv, AdvertFailsDInv, AdvertDInv, GrpTxtOverrunsDInv,
       GrpTxtDInv, DecryptDInv, MacDiffersDInv, GrpTxtEncodeDInv, EncodeDInv,
       UnchangedDInv DEF Next, Stopped
  <1> QED
    BY <1>1, InitDInv, PTL DEF Spec

(***************************************************************************)
(* main's variables hold values of their types; in particular a group text *)
(* that was copied fits in the array of its struct.                        *)
(***************************************************************************)
THEOREM DecoderTypes == Spec => []DecoderTypeOK
  <1>1. DInv => DecoderTypeOK
    BY DEF DInv
  <1> QED
    BY <1>1, DInvHolds, PTL

(***************************************************************************)
(* The text printed is the plaintext of the ciphertext received, and it is *)
(* terminated behind its last byte, whatever the length.                   *)
(***************************************************************************)
THEOREM TextDecryptedAndEnded == Spec => []TextIsPlaintext
  <1>1. DInv => TextIsPlaintext
    BY DEF DInv
  <1> QED
    BY <1>1, DInvHolds, PTL

(***************************************************************************)
(* The program reports a match for exactly the packets in canonical form:  *)
(* decoding and encoding again lose nothing else.                          *)
(***************************************************************************)
THEOREM CanonicalRoundTrip == Spec => []MatchesIffCanonical
  <1>1. DInv => MatchesIffCanonical
    BY DEF DInv
  <1> QED
    BY <1>1, DInvHolds, PTL

(***************************************************************************)
(* The program goes on with a packet iff it is well-formed.                *)
(***************************************************************************)
THEOREM OnlyWellFormed == Spec => []AcceptsWellFormed
  <1>1. DInv => AcceptsWellFormed
    BY DEF DInv
  <1> QED
    BY <1>1, DInvHolds, PTL

(***************************************************************************)
(* What was decoded is what was received, whatever lies behind the packet. *)
(***************************************************************************)
THEOREM PayloadFromPacket == Spec => []PayloadReceived
  <1>1. DInv => PayloadReceived
    BY DEF DInv
  <1> QED
    BY <1>1, DInvHolds, PTL

(***************************************************************************)
(* Nothing is decrypted but what carries the MAC of the bytes received.    *)
(***************************************************************************)
THEOREM OnlyAuthentic == Spec => []DecryptedIsAuthentic
  <1>1. DInv => DecryptedIsAuthentic
    BY DEF DInv
  <1> QED
    BY <1>1, DInvHolds, PTL

(***************************************************************************)
(* No copy overruns its array but that of a group text shorter than its    *)
(* channel hash and MAC.                                                   *)
(***************************************************************************)
THEOREM OnlyTooShortOverruns == Spec => []OverrunsOnlyTooShort
  <1>1. DInv => OverrunsOnlyTooShort
    BY DEF DInv
  <1> QED
    BY <1>1, DInvHolds, PTL
=============================================================================
