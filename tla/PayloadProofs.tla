---------------------------- MODULE PayloadProofs ----------------------------
(***************************************************************************)
(* Facts about the packet codec and the payload codecs, for all sizes that *)
(* meet the assumptions of Packet and Payload: what a byte of header or of *)
(* flags says, what the serializers store and what the deserializers read. *)
(***************************************************************************)
EXTENDS Payload, SequenceTheorems, WellFoundedInduction, TLAPS

(***************************************************************************)
(* A set of naturals has a least element.  Induction is by the least       *)
(* counterexample.                                                         *)
(***************************************************************************)
LEMMA LeastNatural ==
    ASSUME NEW T, T \subseteq Nat, T # {}
    PROVE  \E x \in T : \A y \in T : x <= y
  <1> DEFINE R == OpToRel(<, Nat)
  <1>1. IsWellFoundedOn(R, Nat)
    BY NatLessThanWellFounded
  <1>2. \A x, y \in Nat : x < y => <<x, y>> \in R
    BY DEF OpToRel
  <1> HIDE DEF R
  <1>3. PICK x \in T : \A y \in T : ~ (<<y, x>> \in R)
    BY <1>1, WFMin
  <1>4. \A y \in T : x \in Nat /\ y \in Nat
    OBVIOUS
  <1>5. \A y \in T : ~ (y < x)
    BY <1>2, <1>3, <1>4
  <1> QED
    BY <1>4, <1>5

-----------------------------------------------------------------------------

(***************************************************************************)
(* Header and flags: fields of bits and back.                              *)
(***************************************************************************)
LEMMA HeaderFields ==
    ASSUME NEW b \in Byte
    PROVE  /\ Route(b) \in 0 .. 3 /\ Type(b) \in 0 .. 15 /\ Version(b) \in 0 .. 3
           /\ Route(b) + 4 * Type(b) + 64 * Version(b) = b
  BY DEF Byte, ByteSize, Route, Type, Version

(***************************************************************************)
(* The header byte put together from its fields has these fields.          *)
(***************************************************************************)
LEMMA HeaderOfFields ==
    ASSUME NEW route \in 0 .. 3, NEW type \in 0 .. 15, NEW version \in 0 .. 3,
           NEW b, b = route + 4 * type + 64 * version
    PROVE  /\ b \in Byte
           /\ Route(b) = route /\ Type(b) = type /\ Version(b) = version
  <1>1. b = 4 * (type + 16 * version) + route /\ b = 64 * version + (route + 4 * type)
    OBVIOUS
  <1>2. b \div 4 = type + 16 * version /\ b % 4 = route
    BY <1>1
  <1>3. (type + 16 * version) % 16 = type
    OBVIOUS
  <1>4. b \div 64 = version /\ version % 4 = version
    BY <1>1
  <1> QED
    BY <1>1, <1>2, <1>3, <1>4 DEF Byte, ByteSize, Route, Type, Version

FlagsOf(role, position, extra1, extra2, name) ==
    role + Flag(position, 16) + Flag(extra1, 32) + Flag(extra2, 64) + Flag(name, 128)

(***************************************************************************)
(* The flags of an advert, taken apart.                                    *)
(***************************************************************************)
LEMMA FlagFields ==
    ASSUME NEW flags \in Byte
    PROVE  /\ flags % 16 \in 0 .. 15
           /\ flags = FlagsOf(flags % 16, HasPosition(flags), HasExtra1(flags),
                              HasExtra2(flags), HasName(flags))
  <1> DEFINE a == (flags \div 16) % 2
             b == (flags \div 32) % 2
             c == (flags \div 64) % 2
             d == (flags \div 128) % 2
  <1>1. /\ flags = (flags % 16) + 16 * a + 32 * b + 64 * c + 128 * d
        /\ a \in 0 .. 1 /\ b \in 0 .. 1 /\ c \in 0 .. 1 /\ d \in 0 .. 1
        /\ flags % 16 \in 0 .. 15
    BY DEF Byte, ByteSize
  <1>2. /\ HasPosition(flags) <=> a = 1
        /\ HasExtra1(flags) <=> b = 1
        /\ HasExtra2(flags) <=> c = 1
        /\ HasName(flags) <=> d = 1
    BY DEF HasPosition, HasExtra1, HasExtra2, HasName
  <1> HIDE DEF a, b, c, d
  <1>3. /\ Flag(HasPosition(flags), 16) = 16 * a
        /\ Flag(HasExtra1(flags), 32) = 32 * b
        /\ Flag(HasExtra2(flags), 64) = 64 * c
        /\ Flag(HasName(flags), 128) = 128 * d
    BY <1>1, <1>2 DEF Flag
  <1> QED
    BY <1>1, <1>3 DEF FlagsOf

(***************************************************************************)
(* The flags put together from what is present are the flags taken apart,  *)
(* if no unknown type is among them.                                       *)
(***************************************************************************)
LEMMA FlagsOfFields ==
    ASSUME NEW role \in 0 .. 15,
           NEW position \in BOOLEAN, NEW extra1 \in BOOLEAN,
           NEW extra2 \in BOOLEAN, NEW name \in BOOLEAN,
           NEW flags, flags = FlagsOf(role, position, extra1, extra2, name)
    PROVE  /\ flags \in Byte
           /\ flags % 16 = role
           /\ HasPosition(flags) <=> position
           /\ HasExtra1(flags) <=> extra1
           /\ HasExtra2(flags) <=> extra2
           /\ HasName(flags) <=> name
  <1>1. PICK a \in 0 .. 1, b \in 0 .. 1, c \in 0 .. 1, d \in 0 .. 1 :
           /\ Flag(position, 16) = 16 * a /\ (position <=> a = 1)
           /\ Flag(extra1, 32) = 32 * b /\ (extra1 <=> b = 1)
           /\ Flag(extra2, 64) = 64 * c /\ (extra2 <=> c = 1)
           /\ Flag(name, 128) = 128 * d /\ (name <=> d = 1)
    <2> DEFINE bit(set) == IF set THEN 1 ELSE 0
    <2>1. /\ bit(position) \in 0 .. 1 /\ bit(extra1) \in 0 .. 1
          /\ bit(extra2) \in 0 .. 1 /\ bit(name) \in 0 .. 1
      OBVIOUS
    <2>2. /\ Flag(position, 16) = 16 * bit(position) /\ (position <=> bit(position) = 1)
          /\ Flag(extra1, 32) = 32 * bit(extra1) /\ (extra1 <=> bit(extra1) = 1)
          /\ Flag(extra2, 64) = 64 * bit(extra2) /\ (extra2 <=> bit(extra2) = 1)
          /\ Flag(name, 128) = 128 * bit(name) /\ (name <=> bit(name) = 1)
      BY DEF Flag
    <2> HIDE DEF bit
    <2> QED
      BY <2>1, <2>2
  <1>2. flags = role + 16 * a + 32 * b + 64 * c + 128 * d
    BY <1>1 DEF FlagsOf
  <1>3. flags \in Byte /\ flags % 16 = role
    BY <1>2 DEF Byte, ByteSize
  <1>4. (flags \div 16) % 2 = a /\ (flags \div 32) % 2 = b
    BY <1>2
  <1>5. (flags \div 64) % 2 = c /\ (flags \div 128) % 2 = d
    BY <1>2
  <1> QED
    BY <1>1, <1>3, <1>4, <1>5 DEF HasPosition, HasExtra1, HasExtra2, HasName

-----------------------------------------------------------------------------

(***************************************************************************)
(* The text of a name ends in front of its first zero.                     *)
(***************************************************************************)
LEMMA NameTextEnds ==
    ASSUME NEW name \in Seq(Byte)
    PROVE  \E n \in 0 .. Len(name) :
              /\ NameText(name) = SubSeq(name, 1, n)
              /\ \A i \in 1 .. n : name[i] # 0
              /\ n = Len(name) \/ name[n + 1] = 0
  <1> DEFINE Ends(n) == /\ \A i \in 1 .. n : name[i] # 0
                        /\ n = Len(name) \/ name[n + 1] = 0
             zeros   == {i \in 1 .. Len(name) : name[i] = 0}
  <1>1. \E n \in 0 .. Len(name) : Ends(n)
    <2>1. CASE zeros = {}
      BY <2>1
    <2>2. CASE zeros # {}
      <3>1. zeros \subseteq Nat
        OBVIOUS
      <3>2. PICK z \in zeros : \A y \in zeros : z <= y
        BY <2>2, <3>1, LeastNatural
      <3>3. z - 1 \in 0 .. Len(name) /\ Ends(z - 1)
        BY <3>2
      <3> QED
        BY <3>3
    <2> QED
      BY <2>1, <2>2
  <1>2. NameText(name) = SubSeq(name, 1, CHOOSE n \in 0 .. Len(name) : Ends(n))
    BY DEF NameText
  <1> HIDE DEF Ends
  <1> DEFINE end == CHOOSE n \in 0 .. Len(name) : Ends(n)
  <1>3. end \in 0 .. Len(name) /\ Ends(end)
    BY <1>1
  <1> QED
    BY <1>2, <1>3 DEF Ends

-----------------------------------------------------------------------------

(***************************************************************************)
(* The arithmetic of meshcore_deserialize: with a path no longer than it   *)
(* may be, a length byte inside the packet and 8 bit differences, the      *)
(* length of the payload is in range iff the path ends inside the packet.  *)
(***************************************************************************)
LEMMA WrapRejects ==
    ASSUME NEW P \in {2, 4}, NEW p \in 0 .. MAX_PATH_SIZE,
           NEW size \in 0 .. MAX_TRANS_UNIT, size >= P
    PROVE  /\ (P + p) % ByteSize = P + p
           /\ (size - (P + p)) % ByteSize <= MAX_PAYLOAD_SIZE
                <=> size - P - p \in 0 .. MAX_PAYLOAD_SIZE
           /\ size - P - p >= 0 => (size - (P + p)) % ByteSize = size - P - p
  <1> DEFINE difference == size - (P + p)
  <1>1. P + p \in 0 .. 255
    BY SizeAssumption DEF ByteSize
  <1>2. (P + p) % 256 = P + p
    BY <1>1
  <1>3. CASE difference >= 0
    <2>1. difference \in 0 .. 255
      BY <1>1, <1>3, SizeAssumption DEF ByteSize
    <2>2. difference % 256 = difference
      BY <2>1
    <2> QED
      BY <1>2, <1>3, <2>1, <2>2, SizeAssumption DEF ByteSize
  <1>4. CASE difference < 0
    <2>1. difference \in -255 .. -1 /\ 256 + difference > MAX_PAYLOAD_SIZE
      BY <1>1, <1>4, SizeAssumption DEF ByteSize
    <2>2. difference % 256 = 256 + difference
      BY <2>1
    <2> QED
      BY <1>2, <1>4, <2>1, <2>2, SizeAssumption DEF ByteSize
  <1> QED
    BY <1>3, <1>4, <1>1

(***************************************************************************)
(* The path length read from a packet is a byte.                           *)
(***************************************************************************)
LEMMA PathLengthType ==
    ASSUME NEW data \in Buffers
    PROVE  /\ PathLengthAt(Route(data[0])) \in {1, 3}
           /\ PathAt(Route(data[0])) \in {2, 4}
           /\ PathAt(Route(data[0])) = PathLengthAt(Route(data[0])) + 1
           /\ HasTransportCodes(Route(data[0])) <=> PathLengthAt(Route(data[0])) = 3
           /\ PathLengthIn(data) \in Byte
           /\ PathLengthIn(data) = data[PathLengthAt(Route(data[0]))]
  <1>1. PathLengthAt(Route(data[0])) \in 0 .. MAX_TRANS_UNIT - 1
    BY SizeAssumption DEF PathLengthAt
  <1> QED
    BY <1>1 DEF PathLengthIn, PathLengthAt, PathAt, Buffers

-----------------------------------------------------------------------------

(***************************************************************************)
(* The copy of a ciphertext stays in its array iff the payload holds at    *)
(* least what lies in front of a ciphertext.                               *)
(***************************************************************************)
LEMMA CopyFits ==
    ASSUME NEW size \in 0 .. MAX_PAYLOAD_SIZE
    PROVE  /\ GrpTxtCopyFits(size) <=> size >= GrpTxtDataAt
           /\ size >= GrpTxtDataAt => GrpTxtDataLength(size) = size - GrpTxtDataAt
  <1> DEFINE difference == size - GrpTxtDataAt
  <1>1. /\ GrpTxtDataAt \in 1 .. MAX_PAYLOAD_SIZE
        /\ MAX_PAYLOAD_SIZE \in Nat /\ MAX_PAYLOAD_SIZE < 256
    BY SizeAssumption, PayloadSizeAssumption DEF GrpTxtDataAt, ByteSize
  <1>2. GrpTxtDataLength(size) = difference % 256
    BY DEF GrpTxtDataLength, ByteSize
  <1>3. CASE difference >= 0
    <2>1. difference \in 0 .. 255 /\ difference % 256 = difference
      BY <1>1, <1>3
    <2> QED
      BY <1>1, <1>2, <1>3, <2>1 DEF GrpTxtCopyFits, GrpTxtDataSize
  <1>4. CASE difference < 0
    <2>1. difference \in -255 .. -1 /\ difference % 256 = 256 + difference
      BY <1>1, <1>4
    <2> QED
      BY <1>1, <1>2, <1>4, <2>1 DEF GrpTxtCopyFits, GrpTxtDataSize
  <1> QED
    BY <1>1, <1>3, <1>4

-----------------------------------------------------------------------------

(***************************************************************************)
(* Parts of arrays.                                                        *)
(***************************************************************************)
LEMMA SliceFacts ==
    ASSUME NEW data, NEW at \in Int, NEW n \in Nat,
           \A i \in 0 .. n - 1 : data[at + i] \in Byte
    PROVE  /\ Slice(data, at, n) \in Seq(Byte)
           /\ Len(Slice(data, at, n)) = n
           /\ \A i \in 1 .. n : Slice(data, at, n)[i] = data[at + i - 1]
  <1>1. \A i \in 1 .. n : data[at + i - 1] \in Byte
    <2> SUFFICES ASSUME NEW i \in 1 .. n PROVE data[at + i - 1] \in Byte
      OBVIOUS
    <2>1. i - 1 \in 0 .. n - 1 /\ at + (i - 1) = at + i - 1
      OBVIOUS
    <2> QED
      BY <2>1
  <1> QED
    BY <1>1 DEF Slice

(***************************************************************************)
(* A payload array holds the bytes stored, and zeros behind them.          *)
(***************************************************************************)
LEMMA PayloadWithFacts ==
    ASSUME NEW bytes \in Seq(Byte), Len(bytes) <= MAX_PAYLOAD_SIZE
    PROVE  /\ PayloadWith(bytes) \in Payloads
           /\ \A i \in 0 .. Len(bytes) - 1 : PayloadWith(bytes)[i] = bytes[i + 1]
           /\ \A i \in Len(bytes) .. MAX_PAYLOAD_SIZE - 1 : PayloadWith(bytes)[i] = 0
  <1>1. MAX_PAYLOAD_SIZE \in Nat /\ Len(bytes) \in Nat
    BY SizeAssumption
  <1>2. \A i \in 0 .. Len(bytes) - 1 : i + 1 \in 1 .. Len(bytes) /\ bytes[i + 1] \in Byte
    BY <1>1, ElementOfSeq
  <1>3. 0 \in Byte
    BY DEF Byte, ByteSize
  <1> QED
    BY <1>1, <1>2, <1>3 DEF PayloadWith, Payloads

(***************************************************************************)
(* A copy of bytes, filled up with zeros, is an array of bytes.            *)
(***************************************************************************)
LEMMA CopiedType ==
    ASSUME NEW data, NEW at \in Nat, NEW n \in Nat, NEW m \in Nat, n <= m,
           \A i \in 0 .. n - 1 : data[at + i] \in Byte
    PROVE  Copied(data, at, n, m) \in [0 .. m - 1 -> Byte]
  <1>1. \A i \in 0 .. m - 1 : i < n => i \in 0 .. n - 1
    OBVIOUS
  <1>2. 0 \in Byte
    BY DEF Byte, ByteSize
  <1>3. \A i \in 0 .. m - 1 : (IF i < n THEN data[at + i] ELSE 0) \in Byte
    BY <1>1, <1>2
  <1> QED
    BY <1>3 DEF Copied

(***************************************************************************)
(* Its elements.                                                           *)
(***************************************************************************)
LEMMA CopiedBytes ==
    ASSUME NEW data, NEW at, NEW n \in Nat, NEW m \in Nat, n <= m, NEW i \in 0 .. m - 1
    PROVE  Copied(data, at, n, m)[i] = IF i < n THEN data[at + i] ELSE 0
  BY DEF Copied

(***************************************************************************)
(* What lies at the start of a payload is a part of the bytes stored.      *)
(***************************************************************************)
LEMMA SliceOfPayload ==
    ASSUME NEW bytes \in Seq(Byte), Len(bytes) <= MAX_PAYLOAD_SIZE,
           NEW at \in Nat, NEW n \in Nat, at + n <= Len(bytes)
    PROVE  /\ Slice(PayloadWith(bytes), at, n) = SubSeq(bytes, at + 1, at + n)
           /\ Slice(PayloadWith(bytes), at, n) \in Seq(Byte)
           /\ Len(Slice(PayloadWith(bytes), at, n)) = n
  <1> DEFINE array == PayloadWith(bytes)
  <1>1. Len(bytes) \in Nat
    OBVIOUS
  <1>2. \A i \in 0 .. n - 1 : at + i \in 0 .. Len(bytes) - 1 /\ at + i + 1 \in 1 .. Len(bytes)
    BY <1>1
  <1>3. \A i \in 0 .. n - 1 : array[at + i] = bytes[at + i + 1]
    BY <1>2, PayloadWithFacts
  <1> HIDE DEF array
  <1>4. \A i \in 0 .. n - 1 : array[at + i] \in Byte
    BY <1>2, <1>3, ElementOfSeq
  <1>5. /\ Slice(array, at, n) \in Seq(Byte) /\ Len(Slice(array, at, n)) = n
        /\ \A i \in 1 .. n : Slice(array, at, n)[i] = array[at + i - 1]
    <2>1. at \in Int
      OBVIOUS
    <2> QED
      BY ONLY <2>1, <1>4, n \in Nat, SliceFacts, Zenon
  <1>6. \A i \in 1 .. n : Slice(array, at, n)[i] = bytes[at + i]
    <2> SUFFICES ASSUME NEW i \in 1 .. n PROVE Slice(array, at, n)[i] = bytes[at + i]
      OBVIOUS
    <2>1. i - 1 \in 0 .. n - 1 /\ at + (i - 1) = at + i - 1 /\ at + (i - 1) + 1 = at + i
      OBVIOUS
    <2> QED
      BY <1>3, <1>5, <2>1
  <1>7. /\ SubSeq(bytes, at + 1, at + n) \in Seq(Byte)
        /\ Len(SubSeq(bytes, at + 1, at + n)) = n
        /\ \A i \in 1 .. n : SubSeq(bytes, at + 1, at + n)[i] = bytes[at + i]
    <2>1. \A i \in at + 1 .. at + n : bytes[i] \in Byte
      BY <1>1, ElementOfSeq
    <2>2. /\ SubSeq(bytes, at + 1, at + n) \in Seq(Byte)
          /\ Len(SubSeq(bytes, at + 1, at + n))
                = IF at + 1 <= at + n THEN at + n - (at + 1) + 1 ELSE 0
          /\ \A i \in 1 .. at + n - (at + 1) + 1 :
                SubSeq(bytes, at + 1, at + n)[i] = bytes[at + 1 + i - 1]
      BY <2>1, SubSeqProperties
    <2>3. \A i \in 1 .. n : i \in 1 .. at + n - (at + 1) + 1 /\ at + 1 + i - 1 = at + i
      OBVIOUS
    <2> QED
      BY <2>2, <2>3
  <1>8. Slice(array, at, n) = SubSeq(bytes, at + 1, at + n)
    BY <1>5, <1>6, <1>7, SeqEqual
  <1> QED
    BY <1>5, <1>8 DEF array

-----------------------------------------------------------------------------

(***************************************************************************)
(* What is decoded as a group text from a payload: its channel hash, MAC   *)
(* and ciphertext.                                                         *)
(***************************************************************************)
LEMMA GrpTxtDecoded ==
    ASSUME NEW payload \in Seq(Byte), Len(payload) <= MAX_PAYLOAD_SIZE,
           Len(payload) >= GrpTxtDataAt,
           NEW g, g = GrpTxtDeserialize(PayloadWith(payload), Len(payload))
    PROVE  /\ g = [channel_hash |-> g.channel_hash, mac |-> g.mac,
                   data_length |-> g.data_length, data |-> g.data]
           /\ g.channel_hash = payload[1] /\ g.channel_hash \in Byte
           /\ g.mac = SubSeq(payload, 2, GrpTxtDataAt)
           /\ g.mac \in [1 .. CIPHER_MAC_SIZE -> Byte]
           /\ g.data_length = Len(payload) - GrpTxtDataAt
           /\ g.data_length \in 0 .. GrpTxtDataSize
           /\ g.data \in [0 .. GrpTxtDataSize - 1 -> Byte]
           /\ \A i \in 0 .. g.data_length - 1 : g.data[i] = payload[GrpTxtDataAt + i + 1]
           /\ \A i \in g.data_length .. GrpTxtDataSize - 1 : g.data[i] = 0
           /\ Slice(g.data, 0, g.data_length)
                 = SubSeq(payload, GrpTxtDataAt + 1, Len(payload))
  <1> DEFINE array == PayloadWith(payload)
             n     == Len(payload) - GrpTxtDataAt
  <1>1. /\ Len(payload) \in 0 .. MAX_PAYLOAD_SIZE
        /\ CIPHER_MAC_SIZE \in Nat /\ GrpTxtDataAt = 1 + CIPHER_MAC_SIZE
        /\ n \in 0 .. GrpTxtDataSize /\ GrpTxtDataSize \in Nat
        /\ GrpTxtDataSize = MAX_PAYLOAD_SIZE - GrpTxtDataAt
        /\ MAX_PAYLOAD_SIZE \in Nat
    BY SizeAssumption, PayloadSizeAssumption DEF GrpTxtDataAt, GrpTxtDataSize
  <1>2. g = [channel_hash |-> array[0], mac |-> Slice(array, 1, CIPHER_MAC_SIZE),
             data_length |-> n, data |-> Copied(array, GrpTxtDataAt, n, GrpTxtDataSize)]
    BY <1>1, CopyFits DEF GrpTxtDeserialize
  <1>3. array[0] = payload[1] /\ payload[1] \in Byte
    BY <1>1, PayloadWithFacts, ElementOfSeq
  <1>4. /\ Slice(array, 1, CIPHER_MAC_SIZE) = SubSeq(payload, 2, GrpTxtDataAt)
        /\ Slice(array, 1, CIPHER_MAC_SIZE) \in [1 .. CIPHER_MAC_SIZE -> Byte]
    <2>1. 1 + CIPHER_MAC_SIZE <= Len(payload) /\ 1 + 1 = 2
      BY <1>1
    <2>2. /\ Slice(array, 1, CIPHER_MAC_SIZE) = SubSeq(payload, 1 + 1, 1 + CIPHER_MAC_SIZE)
          /\ Slice(array, 1, CIPHER_MAC_SIZE) \in Seq(Byte)
          /\ Len(Slice(array, 1, CIPHER_MAC_SIZE)) = CIPHER_MAC_SIZE
      BY <1>1, <2>1, SliceOfPayload
    <2> QED
      BY <1>1, <2>1, <2>2, LenProperties
  <1>5. \A i \in 0 .. n - 1 : /\ array[GrpTxtDataAt + i] = payload[GrpTxtDataAt + i + 1]
                              /\ array[GrpTxtDataAt + i] \in Byte
    <2> SUFFICES ASSUME NEW i \in 0 .. n - 1
                 PROVE  /\ array[GrpTxtDataAt + i] = payload[GrpTxtDataAt + i + 1]
                        /\ array[GrpTxtDataAt + i] \in Byte
      OBVIOUS
    <2>1. GrpTxtDataAt + i \in 0 .. Len(payload) - 1
          /\ GrpTxtDataAt + i + 1 \in 1 .. Len(payload)
      BY <1>1
    <2> QED
      BY <2>1, PayloadWithFacts, ElementOfSeq
  <1> HIDE DEF array, n
  <1>6. /\ g.data \in [0 .. GrpTxtDataSize - 1 -> Byte]
        /\ \A i \in 0 .. n - 1 : g.data[i] = array[GrpTxtDataAt + i]
        /\ \A i \in n .. GrpTxtDataSize - 1 : g.data[i] = 0
    <2>1. g.data = Copied(array, GrpTxtDataAt, n, GrpTxtDataSize)
      BY <1>2
    <2>2. GrpTxtDataAt \in Nat
      BY <1>1
    <2>3. \A i \in 0 .. n - 1 : array[GrpTxtDataAt + i] \in Byte
      BY <1>5
    <2>4. GrpTxtDataSize \in Nat /\ n \in Nat /\ n <= GrpTxtDataSize
      BY <1>1
    <2>5. g.data \in [0 .. GrpTxtDataSize - 1 -> Byte]
      <3>1. n \in Nat /\ n <= GrpTxtDataSize
        BY <2>4
      <3>2. Copied(array, GrpTxtDataAt, n, GrpTxtDataSize)
               \in [0 .. GrpTxtDataSize - 1 -> Byte]
        BY ONLY <2>2, <2>3, <2>4, <3>1, CopiedType
      <3> QED
        BY <2>1, <3>2
    <2>6. ASSUME NEW i \in 0 .. GrpTxtDataSize - 1
          PROVE  g.data[i] = IF i < n THEN array[GrpTxtDataAt + i] ELSE 0
      BY <2>1, <2>2, <2>4, CopiedBytes
    <2>7. \A i \in 0 .. n - 1 : i \in 0 .. GrpTxtDataSize - 1 /\ i < n
      BY <2>4
    <2>8. \A i \in n .. GrpTxtDataSize - 1 : i \in 0 .. GrpTxtDataSize - 1 /\ ~(i < n)
      BY <2>4
    <2> QED
      BY <2>5, <2>6, <2>7, <2>8
  <1>7. Slice(g.data, 0, n) = SubSeq(payload, GrpTxtDataAt + 1, Len(payload))
    <2>1. GrpTxtDataAt + n = Len(payload) /\ GrpTxtDataAt \in Nat /\ n \in Nat
      BY <1>1 DEF n
    <2>2. Slice(array, GrpTxtDataAt, n) = SubSeq(payload, GrpTxtDataAt + 1, Len(payload))
      <3>1. Slice(array, GrpTxtDataAt, n)
               = SubSeq(payload, GrpTxtDataAt + 1, GrpTxtDataAt + n)
        BY <2>1, SliceOfPayload DEF array
      <3> QED
        BY <2>1, <3>1
    <2>3. Slice(g.data, 0, n) = Slice(array, GrpTxtDataAt, n)
      <3>1. \A i \in 1 .. n : g.data[0 + i - 1] = array[GrpTxtDataAt + i - 1]
        <4> SUFFICES ASSUME NEW i \in 1 .. n
                     PROVE  g.data[0 + i - 1] = array[GrpTxtDataAt + i - 1]
          OBVIOUS
        <4>1. /\ i - 1 \in 0 .. n - 1 /\ 0 + i - 1 = i - 1
              /\ GrpTxtDataAt + (i - 1) = GrpTxtDataAt + i - 1
          BY <2>1
        <4> QED
          BY <1>6, <4>1
      <3> QED
        BY <3>1 DEF Slice
    <2> QED
      BY <2>2, <2>3
  <1>8. \A i \in 0 .. n - 1 : g.data[i] = payload[GrpTxtDataAt + i + 1]
    BY <1>5, <1>6
  <1> QED
    BY <1>1, <1>2, <1>3, <1>4, <1>6, <1>7, <1>8 DEF n

(***************************************************************************)
(* A group text is encoded to the very payload it was decoded from.        *)
(***************************************************************************)
LEMMA GrpTxtReencoded ==
    ASSUME NEW payload \in Seq(Byte), Len(payload) <= MAX_PAYLOAD_SIZE,
           Len(payload) >= GrpTxtDataAt,
           NEW g, g = GrpTxtDeserialize(PayloadWith(payload), Len(payload))
    PROVE  GrpTxtBytes(g) = payload
  <1>1. PICK n \in Nat : n = Len(payload) /\ n >= GrpTxtDataAt
    BY LenProperties
  <1>2. GrpTxtDataAt \in Nat /\ GrpTxtDataAt = 1 + CIPHER_MAC_SIZE /\ CIPHER_MAC_SIZE \in Nat
    BY PayloadSizeAssumption DEF GrpTxtDataAt
  <1>3. /\ g.channel_hash = payload[1]
        /\ g.mac = SubSeq(payload, 2, GrpTxtDataAt)
        /\ Slice(g.data, 0, g.data_length) = SubSeq(payload, GrpTxtDataAt + 1, n)
    BY <1>1, GrpTxtDecoded
  <1> DEFINE hash == <<payload[1]>>
             mac  == SubSeq(payload, 2, GrpTxtDataAt)
             text == SubSeq(payload, GrpTxtDataAt + 1, n)
  <1>4. /\ hash \in Seq(Byte) /\ Len(hash) = 1 /\ hash[1] = payload[1]
        /\ mac \in Seq(Byte) /\ Len(mac) = CIPHER_MAC_SIZE
        /\ \A i \in 1 .. CIPHER_MAC_SIZE : mac[i] = payload[1 + i]
        /\ text \in Seq(Byte) /\ Len(text) = n - GrpTxtDataAt
        /\ \A i \in 1 .. n - GrpTxtDataAt : text[i] = payload[GrpTxtDataAt + i]
    BY <1>1, <1>2
  <1>5. GrpTxtBytes(g) = hash \o mac \o text
    BY <1>3 DEF GrpTxtBytes
  <1> HIDE DEF hash, mac, text
  <1>6. /\ hash \o mac \in Seq(Byte) /\ Len(hash \o mac) = GrpTxtDataAt
        /\ \A i \in 1 .. GrpTxtDataAt : (hash \o mac)[i] = payload[i]
    <2>0. /\ hash \o mac \in Seq(Byte) /\ Len(hash \o mac) = Len(hash) + Len(mac)
          /\ \A i \in 1 .. Len(hash) + Len(mac) :
                (hash \o mac)[i] = IF i <= Len(hash) THEN hash[i] ELSE mac[i - Len(hash)]
      BY <1>4, ConcatProperties
    <2>1. hash \o mac \in Seq(Byte) /\ Len(hash \o mac) = GrpTxtDataAt
      BY <1>2, <1>4, <2>0
    <2>2. ASSUME NEW i \in 1 .. GrpTxtDataAt PROVE (hash \o mac)[i] = payload[i]
      <3>1. (hash \o mac)[i] = IF i <= 1 THEN hash[i] ELSE mac[i - 1]
        BY <1>2, <1>4, <2>0
      <3>2. CASE i = 1
        BY <1>4, <3>1, <3>2
      <3>3. CASE i # 1
        <4>1. i - 1 \in 1 .. CIPHER_MAC_SIZE /\ 1 + (i - 1) = i
          BY <1>2, <3>3
        <4> QED
          BY <1>4, <3>1, <3>3, <4>1
      <3> QED
        BY <3>2, <3>3
    <2> QED
      BY <2>1, <2>2
  <1> DEFINE front == hash \o mac
  <1> HIDE DEF front
  <1>7. /\ front \o text \in Seq(Byte) /\ Len(front \o text) = n
        /\ \A i \in 1 .. n : (front \o text)[i] = payload[i]
    <2>1. front \in Seq(Byte) /\ Len(front) = GrpTxtDataAt
      BY <1>6 DEF front
    <2>2. /\ front \o text \in Seq(Byte)
          /\ Len(front \o text) = Len(front) + Len(text)
          /\ \A i \in 1 .. Len(front) + Len(text) :
                (front \o text)[i] = IF i <= Len(front) THEN front[i]
                                      ELSE text[i - Len(front)]
      BY <1>4, <2>1, ConcatProperties
    <2>3. Len(front) + Len(text) = n
      BY <1>1, <1>2, <1>4, <2>1
    <2>4. ASSUME NEW i \in 1 .. n PROVE (front \o text)[i] = payload[i]
      <3>1. (front \o text)[i] = IF i <= GrpTxtDataAt THEN front[i] ELSE text[i - GrpTxtDataAt]
        BY <2>1, <2>2, <2>3
      <3>2. CASE i <= GrpTxtDataAt
        <4>1. i \in 1 .. GrpTxtDataAt
          BY <1>2, <3>2
        <4>2. front[i] = payload[i]
          BY <1>6, <4>1 DEF front
        <4> QED
          BY <3>1, <3>2, <4>2
      <3>3. CASE ~(i <= GrpTxtDataAt)
        <4>1. i - GrpTxtDataAt \in 1 .. n - GrpTxtDataAt /\ GrpTxtDataAt + (i - GrpTxtDataAt) = i
          BY <1>1, <1>2, <3>3
        <4>2. text[i - GrpTxtDataAt] = payload[GrpTxtDataAt + (i - GrpTxtDataAt)]
          BY <1>4, <4>1
        <4> QED
          BY ONLY <3>1, <3>3, <4>1, <4>2, Zenon
      <3> QED
        BY <3>2, <3>3
    <2> QED
      BY <2>2, <2>3, <2>4
  <1>8. front \o text = payload
    BY <1>1, <1>7, SeqEqual
  <1> QED
    BY <1>5, <1>8 DEF front

-----------------------------------------------------------------------------

(***************************************************************************)
(* What meshcore_deserialize fills in is a message.                        *)
(***************************************************************************)
LEMMA MessageTyped ==
    ASSUME NEW data \in Buffers, NEW size \in 0 .. MAX_TRANS_UNIT, Accepts(data, size)
    PROVE  MessageIn(data, size) \in Messages
  <1> DEFINE route == Route(data[0])
             n     == PayloadLengthIn(data, size)
             p     == PathLengthIn(data)
             start == PayloadStart(data)
  <1>1. data[0] \in Byte
    BY SizeAssumption DEF Buffers
  <1>2. /\ route \in 0 .. 3 /\ Type(data[0]) \in 0 .. 15 /\ Version(data[0]) \in 0 .. 3
    BY <1>1, HeaderFields
  <1>3. /\ PathAt(route) \in {2, 4} /\ p \in Byte /\ p <= MAX_PATH_SIZE
        /\ n <= MAX_PAYLOAD_SIZE
    BY PathLengthType DEF Accepts
  <1>4. n \in Byte /\ n \in Nat /\ p \in Nat
    <2>1. start \in Int /\ size \in Int
      BY <1>3 DEF PayloadStart, Byte, ByteSize
    <2> HIDE DEF start
    <2> QED
      BY <2>1, <1>3 DEF PayloadLengthIn, Byte, ByteSize, start
  <1>5. start = PathAt(route) + p /\ start \in Nat
    <2>1. PathAt(route) + p \in 0 .. 255
      BY <1>3, <1>4, SizeAssumption DEF ByteSize
    <2> QED
      BY <2>1 DEF PayloadStart, ByteSize
  <1>6. /\ MAX_PATH_SIZE \in Nat /\ MAX_PAYLOAD_SIZE \in Nat /\ MAX_TRANS_UNIT \in Nat
        /\ 4 + MAX_PATH_SIZE + MAX_PAYLOAD_SIZE <= MAX_TRANS_UNIT
    BY SizeAssumption
  <1> HIDE DEF route, n, p, start
  <1>7. ASSUME NEW at \in Nat, NEW m \in Nat, NEW k \in Nat, k <= m,
               at + m <= MAX_TRANS_UNIT
        PROVE  Copied(data, at, k, m) \in [0 .. m - 1 -> Byte]
    <2>1. \A i \in 0 .. k - 1 : data[at + i] \in Byte
      <3>1. \A i \in 0 .. k - 1 : at + i \in 0 .. MAX_TRANS_UNIT - 1
        BY <1>6, <1>7
      <3> QED
        BY <3>1 DEF Buffers
    <2> QED
      BY ONLY <2>1, <1>7, CopiedType
  <1>8. Copied(data, 1, IF HasTransportCodes(route) THEN 2 ELSE 0, 4) \in [0 .. 3 -> Byte]
    <2>1. ASSUME NEW k \in {0, 2}
          PROVE  Copied(data, 1, k, 4) \in [0 .. 3 -> Byte]
      <3>1. ASSUME NEW i \in 0 .. 3, i < k
            PROVE  data[1 + i] \in Byte
        <4>1. 1 + i \in 0 .. MAX_TRANS_UNIT - 1
          BY <1>6, <3>1
        <4> QED
          BY <4>1 DEF Buffers
      <3>2. 0 \in Byte
        BY DEF Byte, ByteSize
      <3>3. \A i \in 0 .. 3 : (IF i < k THEN data[1 + i] ELSE 0) \in Byte
        BY <3>1, <3>2
      <3>4. Copied(data, 1, k, 4) = [i \in 0 .. 3 |-> IF i < k THEN data[1 + i] ELSE 0]
        BY DEF Copied
      <3> QED
        BY ONLY <3>3, <3>4
    <2> QED
      BY <2>1
  <1>9. Copied(data, PathAt(route), p, MAX_PATH_SIZE) \in Paths
    BY <1>3, <1>4, <1>6, <1>7 DEF Paths
  <1>10. Copied(data, start, n, MAX_PAYLOAD_SIZE) \in Payloads
    <2>1. start + MAX_PAYLOAD_SIZE <= MAX_TRANS_UNIT
      BY <1>3, <1>4, <1>5, <1>6
    <2>2. Copied(data, start, n, MAX_PAYLOAD_SIZE) \in [0 .. MAX_PAYLOAD_SIZE - 1 -> Byte]
      BY ONLY <1>3, <1>4, <1>5, <1>6, <1>7, <2>1
    <2> QED
      BY <2>2 DEF Payloads
  <1>11. MessageIn(data, size) =
            [type            |-> Type(data[0]),
             route           |-> route,
             version         |-> Version(data[0]),
             transport_codes |-> Copied(data, 1, IF HasTransportCodes(route) THEN 2 ELSE 0, 4),
             path_length     |-> p,
             path            |-> Copied(data, PathAt(route), p, MAX_PATH_SIZE),
             payload_length  |-> n,
             payload         |-> Copied(data, start, n, MAX_PAYLOAD_SIZE)]
    BY DEF MessageIn, route, p, n, start
  <1> QED
    BY <1>2, <1>3, <1>4, <1>8, <1>9, <1>10, <1>11 DEF Messages

-----------------------------------------------------------------------------

(***************************************************************************)
(* The fixed part of an advert fits a payload.                             *)
(***************************************************************************)
LEMMA AdvertSizes ==
    /\ IdentitySize \in Nat /\ IdentitySize < MAX_PAYLOAD_SIZE
    /\ MAX_PAYLOAD_SIZE \in Nat /\ MAX_PAYLOAD_SIZE < 256 /\ MAX_NAME_SIZE \in Nat
  BY SizeAssumption, PayloadSizeAssumption DEF IdentitySize, ByteSize

(***************************************************************************)
(* Which adverts with application data are accepted: those that hold every *)
(* field their flags name, and a name that fits.                           *)
(***************************************************************************)
LEMMA AdvertAccepted ==
    ASSUME NEW flags \in Byte, NEW size \in IdentitySize + 1 .. MAX_PAYLOAD_SIZE
    PROVE  /\ NameAt(flags) \in Nat /\ NameAt(flags) > IdentitySize
           /\ AcceptsAdvert(size, flags) <=>
                 /\ NameAt(flags) <= size
                 /\ HasName(flags) => size - NameAt(flags) <= MAX_NAME_SIZE
           /\ NameAt(flags) <= size => NameLength(size, flags) = size - NameAt(flags)
  <1> PICK a \in {0, 8}, b \in {0, 2}, c \in {0, 2} :
         /\ a = IF HasPosition(flags) THEN 8 ELSE 0
         /\ b = IF HasExtra1(flags) THEN 2 ELSE 0
         /\ c = IF HasExtra2(flags) THEN 2 ELSE 0
    OBVIOUS
  <1>1. /\ PositionAt = IdentitySize + 1 /\ Extra1At(flags) = IdentitySize + 1 + a
        /\ Extra2At(flags) = IdentitySize + 1 + a + b
        /\ NameAt(flags) = IdentitySize + 1 + a + b + c
    BY DEF PositionAt, Extra1At, Extra2At, NameAt
  <1>2. NameAt(flags) \in Nat /\ NameAt(flags) > IdentitySize
    BY <1>1, AdvertSizes
  <1>3. NameAt(flags) <= size => NameLength(size, flags) = size - NameAt(flags)
    <2> SUFFICES ASSUME NameAt(flags) <= size
                 PROVE  NameLength(size, flags) = size - NameAt(flags)
      OBVIOUS
    <2> PICK d \in 0 .. 255 : d = size - NameAt(flags)
      BY <1>2, AdvertSizes
    <2> QED
      BY DEF NameLength, ByteSize
  <1>4. /\ (HasPosition(flags) => ~TooShort(size, PositionAt, 8))
              <=> size >= IdentitySize + 1 + a
        /\ size >= IdentitySize + 1 + a =>
              ((HasExtra1(flags) => ~TooShort(size, Extra1At(flags), 2))
                  <=> size >= IdentitySize + 1 + a + b)
        /\ size >= IdentitySize + 1 + a + b =>
              ((HasExtra2(flags) => ~TooShort(size, Extra2At(flags), 2))
                  <=> size >= NameAt(flags))
    BY <1>1, AdvertSizes DEF TooShort
  <1>5. NameAt(flags) <= size <=>
           /\ HasPosition(flags) => ~TooShort(size, PositionAt, 8)
           /\ HasExtra1(flags)   => ~TooShort(size, Extra1At(flags), 2)
           /\ HasExtra2(flags)   => ~TooShort(size, Extra2At(flags), 2)
    <2>1. /\ size >= NameAt(flags) => size >= IdentitySize + 1 + a + b
          /\ size >= IdentitySize + 1 + a + b => size >= IdentitySize + 1 + a
          /\ NameAt(flags) <= size <=> size >= NameAt(flags)
      BY <1>1, <1>2, AdvertSizes
    <2> QED
      BY <1>4, <2>1
  <1> QED
    BY <1>2, <1>3, <1>5 DEF AcceptsAdvert

(***************************************************************************)
(* The byte of flags a payload has, or that is assumed without one.        *)
(***************************************************************************)
LEMMA AdvertFlags ==
    ASSUME NEW bytes \in Seq(Byte), Len(bytes) <= MAX_PAYLOAD_SIZE
    PROVE  (IF (Len(bytes) - IdentitySize) % ByteSize > 0
            THEN PayloadWith(bytes)[IdentitySize] ELSE 0)
              = IF Len(bytes) > IdentitySize THEN bytes[IdentitySize + 1] ELSE 0
  <1>1. Len(bytes) \in Nat /\ IdentitySize \in 0 .. MAX_PAYLOAD_SIZE - 1
    BY AdvertSizes
  <1>2. CASE Len(bytes) > IdentitySize
    <2>0. Len(bytes) <= MAX_PAYLOAD_SIZE /\ MAX_PAYLOAD_SIZE \in Nat /\ MAX_PAYLOAD_SIZE < 256
      BY AdvertSizes
    <2> PICK n \in Nat, m \in Nat : n = Len(bytes) /\ m = IdentitySize
      BY <1>1
    <2>1. n > m /\ n < 256
      BY <1>2, <2>0
    <2> PICK d \in 1 .. 255 : d = n - m
      BY ONLY <2>1, n \in Nat, m \in Nat
    <2>4. d % 256 = d /\ d > 0
      BY ONLY d \in 1 .. 255
    <2>5. d = Len(bytes) - IdentitySize
      OBVIOUS
    <2>2. PayloadWith(bytes)[IdentitySize] = bytes[IdentitySize + 1]
      BY <1>1, <1>2, PayloadWithFacts
    <2> QED
      BY ONLY <1>2, <2>2, <2>4, <2>5 DEF ByteSize
  <1>3. CASE ~ (Len(bytes) > IdentitySize)
    <2>1. IdentitySize \in Len(bytes) .. MAX_PAYLOAD_SIZE - 1
      BY <1>1, <1>3
    <2>2. PayloadWith(bytes)[IdentitySize] = 0
      BY <2>1, PayloadWithFacts
    <2> QED
      BY <1>3, <2>2
  <1> QED
    BY <1>2, <1>3

(***************************************************************************)
(* Two runs of bytes, one behind the other, are one run.                   *)
(***************************************************************************)
LEMMA SliceJoin ==
    ASSUME NEW data \in Payloads, NEW a \in Nat, NEW m \in Nat, NEW n \in Nat,
           a + m + n <= MAX_PAYLOAD_SIZE
    PROVE  /\ Slice(data, a, m) \o Slice(data, a + m, n) = Slice(data, a, m + n)
           /\ Slice(data, a, m) \in Seq(Byte)
           /\ Len(Slice(data, a, m)) = m
  <1>1. \A k \in 0 .. MAX_PAYLOAD_SIZE - 1 : data[k] \in Byte
    BY DEF Payloads
  <1>2. ASSUME NEW at \in Nat, NEW k \in Nat, at + k <= MAX_PAYLOAD_SIZE
        PROVE  /\ Slice(data, at, k) \in Seq(Byte)
               /\ Len(Slice(data, at, k)) = k
               /\ \A i \in 1 .. k : Slice(data, at, k)[i] = data[at + i - 1]
    <2>1. \A i \in 0 .. k - 1 : data[at + i] \in Byte
      <3>1. \A i \in 0 .. k - 1 : at + i \in 0 .. MAX_PAYLOAD_SIZE - 1
        BY <1>2, SizeAssumption
      <3> QED
        BY <1>1, <3>1
    <2>2. at \in Int
      OBVIOUS
    <2> QED
      BY ONLY <2>1, <2>2, k \in Nat, SliceFacts, Zenon
  <1> DEFINE first == Slice(data, a, m)
             next  == Slice(data, a + m, n)
             whole == Slice(data, a, m + n)
  <1>3. /\ a \in Nat /\ m \in Nat /\ a + m <= MAX_PAYLOAD_SIZE
        /\ a + m \in Nat /\ m + n \in Nat /\ a + (m + n) <= MAX_PAYLOAD_SIZE
    BY SizeAssumption
  <1>4. /\ first \in Seq(Byte) /\ Len(first) = m
        /\ \A i \in 1 .. m : first[i] = data[a + i - 1]
    BY ONLY <1>2, <1>3
  <1>5. /\ next \in Seq(Byte) /\ Len(next) = n
        /\ \A i \in 1 .. n : next[i] = data[a + m + i - 1]
    <2>1. (a + m) + n <= MAX_PAYLOAD_SIZE
      OBVIOUS
    <2> QED
      BY ONLY <1>2, <1>3, <2>1, n \in Nat
  <1>6. /\ whole \in Seq(Byte) /\ Len(whole) = m + n
        /\ \A i \in 1 .. m + n : whole[i] = data[a + i - 1]
    BY ONLY <1>2, <1>3
  <1> HIDE DEF first, next, whole
  <1>7. /\ first \o next \in Seq(Byte) /\ Len(first \o next) = m + n
        /\ \A i \in 1 .. m + n :
              (first \o next)[i] = IF i <= m THEN first[i] ELSE next[i - m]
    BY <1>4, <1>5, ConcatProperties, ZenonT(30)
  <1>8. ASSUME NEW i \in 1 .. m + n PROVE (first \o next)[i] = whole[i]
    <2>0. m \in Nat /\ n \in Nat /\ a \in Nat /\ i \in Nat /\ whole[i] = data[a + i - 1]
      BY <1>6
    <2>1. CASE i <= m
      <3>1. i \in 1 .. m
        BY <2>1
      <3>2. first[i] = data[a + i - 1] /\ (first \o next)[i] = first[i]
        BY <1>4, <1>7, <2>1, <3>1
      <3> QED
        BY <2>0, <3>2
    <2>2. CASE ~(i <= m)
      <3>1. i - m \in 1 .. n /\ a + m + (i - m) - 1 = a + i - 1
        BY <2>2
      <3>2. next[i - m] = data[a + m + (i - m) - 1] /\ (first \o next)[i] = next[i - m]
        BY <1>5, <1>7, <2>2, <3>1
      <3> QED
        BY <2>0, <3>1, <3>2
    <2> QED
      BY ONLY <2>1, <2>2
  <1>9. first \o next = whole
    BY <1>6, <1>7, <1>8, SeqEqual
  <1> QED
    BY <1>4, <1>9 DEF first, next, whole

(***************************************************************************)
(* A run and the byte behind it are a run that is one longer.              *)
(***************************************************************************)
LEMMA SliceExtend ==
    ASSUME NEW data \in Payloads, NEW m \in Nat, NEW k \in Nat,
           m + k <= MAX_PAYLOAD_SIZE
    PROVE  Slice(data, 0, m) \o Slice(data, m, k) = Slice(data, 0, m + k)
  <1>1. \A start \in Nat : start + m + k <= MAX_PAYLOAD_SIZE =>
           Slice(data, start, m) \o Slice(data, start + m, k) = Slice(data, start, m + k)
    BY SliceJoin, ZenonT(30)
  <1>2. 0 + m + k <= MAX_PAYLOAD_SIZE /\ 0 + m = m
    OBVIOUS
  <1> QED
    BY ONLY <1>1, <1>2, 0 \in Nat, Zenon

(***************************************************************************)
(* An advert whose fields are parts of an array, one behind another as its *)
(* flags say, is encoded to the start of that array.                       *)
(***************************************************************************)
LEMMA AdvertBytesOf ==
    ASSUME NEW data \in Payloads, NEW flags, flags = data[IdentitySize],
           NEW n \in Nat, NameAt(flags) + n <= MAX_PAYLOAD_SIZE,
           NEW advert,
           advert.identity = Slice(data, 0, IdentitySize),
           advert.role = flags % 16,
           advert.position = IF HasPosition(flags) THEN Slice(data, PositionAt, 8) ELSE <<>>,
           advert.extra1 = IF HasExtra1(flags) THEN Slice(data, Extra1At(flags), 2) ELSE <<>>,
           advert.extra2 = IF HasExtra2(flags) THEN Slice(data, Extra2At(flags), 2) ELSE <<>>,
           advert.name_valid = HasName(flags),
           (IF HasName(flags) THEN NameText(advert.name) ELSE <<>>)
              = Slice(data, NameAt(flags), n)
    PROVE  AdvertBytes(advert) = Slice(data, 0, NameAt(flags) + n)
  <1> PICK a \in Nat, b \in Nat, c \in Nat :
         /\ a = IF HasPosition(flags) THEN 8 ELSE 0
         /\ b = IF HasExtra1(flags) THEN 2 ELSE 0
         /\ c = IF HasExtra2(flags) THEN 2 ELSE 0
    OBVIOUS
  <1> PICK p0 \in Nat, p1 \in Nat, p2 \in Nat, p3 \in Nat, p4 \in Nat :
         /\ p0 = IdentitySize
         /\ p1 = p0 + 1 /\ p2 = p1 + a /\ p3 = p2 + b /\ p4 = p3 + c
    BY AdvertSizes
  <1>1. /\ PositionAt = p1 /\ Extra1At(flags) = p2 /\ Extra2At(flags) = p3 /\ NameAt(flags) = p4
        /\ p4 + n <= MAX_PAYLOAD_SIZE /\ MAX_PAYLOAD_SIZE \in Nat
    BY AdvertSizes DEF PositionAt, Extra1At, Extra2At, NameAt
  <1>2. /\ p0 + 1 <= MAX_PAYLOAD_SIZE /\ p1 + a <= MAX_PAYLOAD_SIZE
        /\ p2 + b <= MAX_PAYLOAD_SIZE /\ p3 + c <= MAX_PAYLOAD_SIZE
    <2>1. p1 = p0 + 1 /\ p2 = p1 + a /\ p3 = p2 + b /\ p4 = p3 + c
      OBVIOUS
    <2>2. p4 <= MAX_PAYLOAD_SIZE /\ MAX_PAYLOAD_SIZE \in Nat
      BY ONLY <1>1, n \in Nat, p4 \in Nat
    <2> QED
      BY ONLY <2>1, <2>2, p0 \in Nat, p1 \in Nat, p2 \in Nat, p3 \in Nat, p4 \in Nat,
         a \in Nat, b \in Nat, c \in Nat
  <1>3. \A at \in Nat : Slice(data, at, 0) = <<>>
    BY DEF Slice
  <1>4. /\ Slice(data, 0, p0) \o Slice(data, p0, 1) = Slice(data, 0, p0 + 1)
        /\ Slice(data, 0, p1) \o Slice(data, p1, a) = Slice(data, 0, p1 + a)
        /\ Slice(data, 0, p2) \o Slice(data, p2, b) = Slice(data, 0, p2 + b)
        /\ Slice(data, 0, p3) \o Slice(data, p3, c) = Slice(data, 0, p3 + c)
        /\ Slice(data, 0, p4) \o Slice(data, p4, n) = Slice(data, 0, p4 + n)
    <2>1. \A m, k \in Nat : m + k <= MAX_PAYLOAD_SIZE =>
             Slice(data, 0, m) \o Slice(data, m, k) = Slice(data, 0, m + k)
      BY SliceExtend
    <2> QED
      BY ONLY <1>1, <1>2, <2>1, p0 \in Nat, p1 \in Nat, p2 \in Nat, p3 \in Nat, p4 \in Nat,
         a \in Nat, b \in Nat, c \in Nat, n \in Nat, 1 \in Nat, Zenon
  <1>5. Slice(data, p0, 1) = <<flags>>
    BY DEF Slice
  <1>6. /\ advert.position = Slice(data, p1, a)
        /\ advert.extra1 = Slice(data, p2, b)
        /\ advert.extra2 = Slice(data, p3, c)
    BY <1>1, <1>3
  <1>7. /\ advert.position # <<>> <=> HasPosition(flags)
        /\ advert.extra1 # <<>> <=> HasExtra1(flags)
        /\ advert.extra2 # <<>> <=> HasExtra2(flags)
    BY DEF Slice
  <1>8. advert.role + Flag(advert.position # <<>>, 16) + Flag(advert.extra1 # <<>>, 32)
           + Flag(advert.extra2 # <<>>, 64) + Flag(advert.name_valid, 128) = flags
    <2>1. flags \in Byte
      BY AdvertSizes DEF Payloads
    <2>2. flags = FlagsOf(flags % 16, HasPosition(flags), HasExtra1(flags),
                          HasExtra2(flags), HasName(flags))
      BY <2>1, FlagFields
    <2>3. /\ Flag(advert.position # <<>>, 16) = Flag(HasPosition(flags), 16)
          /\ Flag(advert.extra1 # <<>>, 32) = Flag(HasExtra1(flags), 32)
          /\ Flag(advert.extra2 # <<>>, 64) = Flag(HasExtra2(flags), 64)
      BY <1>7 DEF Flag
    <2> QED
      BY <2>2, <2>3 DEF FlagsOf
  <1>9. AdvertBytes(advert) =
           Slice(data, 0, p0) \o <<flags>> \o advert.position \o advert.extra1 \o advert.extra2
              \o (IF HasName(flags) THEN NameText(advert.name) ELSE <<>>)
    BY <1>8 DEF AdvertBytes
  <1>10. (IF HasName(flags) THEN NameText(advert.name) ELSE <<>>) = Slice(data, p4, n)
    BY <1>1
  <1>11. AdvertBytes(advert) =
            Slice(data, 0, p0) \o Slice(data, p0, 1) \o Slice(data, p1, a)
               \o Slice(data, p2, b) \o Slice(data, p3, c) \o Slice(data, p4, n)
    BY <1>5, <1>6, <1>9, <1>10
  <1>12. AdvertBytes(advert) = Slice(data, 0, p4 + n)
    <2>1. p0 + 1 = p1 /\ p1 + a = p2 /\ p2 + b = p3 /\ p3 + c = p4
      OBVIOUS
    <2> QED
      BY ONLY <1>4, <1>11, <2>1, ZenonT(30)
  <1> QED
    BY <1>1, <1>12

(***************************************************************************)
(* An advert that was decoded is encoded to the start of the array it was  *)
(* decoded from: its fields, and of its name what lies in front of a zero. *)
(***************************************************************************)
LEMMA AdvertReencoded ==
    ASSUME NEW bytes \in Seq(Byte), Len(bytes) <= MAX_PAYLOAD_SIZE,
           NEW d, d = AdvertDeserialize(PayloadWith(bytes), Len(bytes)), d # Rejected
    PROVE  \E n \in IdentitySize + 1 .. MAX_PAYLOAD_SIZE :
              /\ AdvertBytes(d.advert) = Slice(PayloadWith(bytes), 0, n)
              /\ Len(bytes) > IdentitySize =>
                    LET flags == bytes[IdentitySize + 1]
                    IN  /\ NameAt(flags) <= n /\ n <= Len(bytes)
                        /\ ~HasName(flags) => n = NameAt(flags)
                        /\ HasName(flags) => /\ n = Len(bytes) \/ bytes[n + 1] = 0
                                             /\ Len(bytes) - NameAt(flags) <= MAX_NAME_SIZE
                        /\ \A i \in NameAt(flags) + 1 .. n : bytes[i] # 0
  <1> DEFINE array == PayloadWith(bytes)
             size  == Len(bytes)
             flags == array[IdentitySize]
             name  == IF HasName(flags) THEN Slice(array, NameAt(flags), NameLength(size, flags))
                      ELSE <<>>
             text  == IF HasName(flags) THEN NameText(name) ELSE <<>>
  <1>1. size \in 0 .. MAX_PAYLOAD_SIZE /\ array \in Payloads /\ size \in Nat
    BY AdvertSizes, PayloadWithFacts
  <1>2. flags \in Byte /\ flags = IF size > IdentitySize THEN bytes[IdentitySize + 1] ELSE 0
    <2>1. flags \in Byte
      <3>1. IdentitySize \in 0 .. MAX_PAYLOAD_SIZE - 1
        BY AdvertSizes
      <3>2. array \in [0 .. MAX_PAYLOAD_SIZE - 1 -> Byte]
        BY <1>1 DEF Payloads
      <3>3. array[IdentitySize] \in Byte
        BY ONLY <3>1, <3>2
      <3> QED
        BY <3>3
    <2>2. CASE size > IdentitySize
      BY <1>1, <2>1, <2>2, AdvertSizes, PayloadWithFacts
    <2>3. CASE ~(size > IdentitySize)
      <3>1. IdentitySize \in size .. MAX_PAYLOAD_SIZE - 1
        BY <1>1, <2>3, AdvertSizes
      <3> QED
        BY <2>1, <2>3, <3>1, PayloadWithFacts
    <2> QED
      BY <2>1, <2>2, <2>3
  <1>3. /\ AcceptsAdvert(size, flags)
        /\ d.advert = [identity   |-> Slice(array, 0, IdentitySize),
                       role       |-> flags % 16,
                       position   |-> IF HasPosition(flags) THEN Slice(array, PositionAt, 8)
                                      ELSE <<>>,
                       extra1     |-> IF HasExtra1(flags) THEN Slice(array, Extra1At(flags), 2)
                                      ELSE <<>>,
                       extra2     |-> IF HasExtra2(flags) THEN Slice(array, Extra2At(flags), 2)
                                      ELSE <<>>,
                       name_valid |-> HasName(flags),
                       name       |-> name]
    <2>1. (IF (size - IdentitySize) % ByteSize > 0 THEN array[IdentitySize] ELSE 0) = flags
      BY <1>2, AdvertFlags
    <2> HIDE DEF flags, array, size
    <2> QED
      BY <2>1 DEF AdvertDeserialize, array, size
  <1> HIDE DEF array, size, flags, name, text
  <1>4. ASSUME NEW k \in Nat, NameAt(flags) + k <= MAX_PAYLOAD_SIZE,
               text = Slice(array, NameAt(flags), k)
        PROVE  AdvertBytes(d.advert) = Slice(array, 0, NameAt(flags) + k)
    <2> DEFINE advert == d.advert
    <2>1. /\ advert.identity = Slice(array, 0, IdentitySize)
          /\ advert.role = flags % 16
          /\ advert.position = IF HasPosition(flags) THEN Slice(array, PositionAt, 8) ELSE <<>>
          /\ advert.extra1 = IF HasExtra1(flags) THEN Slice(array, Extra1At(flags), 2) ELSE <<>>
          /\ advert.extra2 = IF HasExtra2(flags) THEN Slice(array, Extra2At(flags), 2) ELSE <<>>
          /\ advert.name_valid = HasName(flags)
          /\ advert.name = name
      BY <1>3
    <2> HIDE DEF advert
    <2>2. (IF HasName(flags) THEN NameText(advert.name) ELSE <<>>)
             = Slice(array, NameAt(flags), k)
      BY <1>4, <2>1 DEF text
    <2>3. AdvertBytes(advert) = Slice(array, 0, NameAt(flags) + k)
      BY <1>1, <1>4, <2>1, <2>2, AdvertBytesOf DEF flags
    <2> QED
      BY <2>3 DEF advert
  <1>5. CASE ~(size > IdentitySize)
    <2>1. flags = 0
      BY <1>2, <1>5
    <2>2. /\ ~HasName(flags) /\ NameAt(flags) = IdentitySize + 1
      BY <2>1, AdvertSizes DEF HasName, HasPosition, HasExtra1, HasExtra2, NameAt, Extra1At,
         Extra2At, PositionAt
    <2>3. text = Slice(array, NameAt(flags), 0)
      BY <2>2 DEF text, Slice
    <2>4. NameAt(flags) + 0 <= MAX_PAYLOAD_SIZE /\ NameAt(flags) + 0 = IdentitySize + 1
      BY <2>2, AdvertSizes
    <2>5. AdvertBytes(d.advert) = Slice(array, 0, IdentitySize + 1)
      BY <1>4, <2>3, <2>4
    <2> QED
      BY <1>5, <2>5, AdvertSizes DEF array, size
  <1>6. CASE size > IdentitySize
    <2>1. size \in IdentitySize + 1 .. MAX_PAYLOAD_SIZE
      BY <1>1, <1>6, AdvertSizes
    <2>2. /\ NameAt(flags) \in Nat /\ NameAt(flags) > IdentitySize /\ NameAt(flags) <= size
          /\ HasName(flags) => size - NameAt(flags) <= MAX_NAME_SIZE
          /\ NameLength(size, flags) = size - NameAt(flags)
      BY <1>2, <1>3, <2>1, AdvertAccepted
    <2> PICK at \in Nat, m \in Nat : at = NameAt(flags) /\ m = size - NameAt(flags)
      BY <1>1, <2>2
    <2>3. \E k \in 0 .. m :
             /\ text = Slice(array, at, k)
             /\ ~HasName(flags) => k = 0
             /\ HasName(flags) => k = m \/ bytes[at + k + 1] = 0
             /\ \A i \in 1 .. k : bytes[at + i] # 0
      <3>1. CASE ~HasName(flags)
        BY <3>1 DEF text, Slice
      <3>2. CASE HasName(flags)
        <4>1. name = Slice(array, at, m)
          BY <2>2, <3>2 DEF name
        <4>2. at + m <= Len(bytes)
          BY <1>1, <2>2 DEF size
        <4>3. name = SubSeq(bytes, at + 1, at + m) /\ name \in Seq(Byte) /\ Len(name) = m
          BY <4>1, <4>2, SliceOfPayload DEF array
        <4>4. \A i \in 1 .. m : name[i] = bytes[at + i]
          <5>1. \A i \in 1 .. m : name[i] = array[at + i - 1]
            BY <4>1 DEF Slice
          <5>2. \A i \in 0 .. Len(bytes) - 1 : array[i] = bytes[i + 1]
            BY <1>1, PayloadWithFacts DEF array
          <5>3. \A i \in 1 .. m : at + i - 1 \in 0 .. Len(bytes) - 1 /\ at + i - 1 + 1 = at + i
            <6> PICK l \in Nat : l = Len(bytes)
              BY <1>1 DEF size
            <6>1. at + m <= l
              BY <4>2
            <6>2. \A i \in 1 .. m : at + i - 1 \in 0 .. l - 1 /\ at + i - 1 + 1 = at + i
              BY ONLY <6>1, at \in Nat, m \in Nat, l \in Nat
            <6> QED
              BY <6>2
          <5> QED
            BY <5>1, <5>2, <5>3
        <4>5. PICK k \in 0 .. Len(name) :
                 /\ NameText(name) = SubSeq(name, 1, k)
                 /\ \A i \in 1 .. k : name[i] # 0
                 /\ k = Len(name) \/ name[k + 1] = 0
          BY <4>3, NameTextEnds
        <4>6. text = Slice(array, at, k)
          <5>1. k \in 0 .. m /\ k \in Nat
            BY <4>3
          <5>2. \A i \in 1 .. k : i \in 1 .. Len(name) /\ name[i] \in Byte
            <6>1. \A i \in 1 .. k : i \in 1 .. Len(name)
              BY ONLY <4>3, <5>1
            <6> QED
              BY ONLY <4>3, <6>1, ElementOfSeq
          <5>3. SubSeq(name, 1, k) = [i \in 1 .. k |-> name[i]]
            <6>1. /\ SubSeq(name, 1, k) \in Seq(Byte)
                  /\ Len(SubSeq(name, 1, k)) = IF 1 <= k THEN k - 1 + 1 ELSE 0
                  /\ \A i \in 1 .. k - 1 + 1 : SubSeq(name, 1, k)[i] = name[1 + i - 1]
              BY <5>1, <5>2, SubSeqProperties
            <6>2. /\ Len(SubSeq(name, 1, k)) = k
                  /\ \A i \in 1 .. k : SubSeq(name, 1, k)[i] = name[i]
              BY <5>1, <6>1
            <6>3. /\ [i \in 1 .. k |-> name[i]] \in Seq(Byte)
                  /\ Len([i \in 1 .. k |-> name[i]]) = k
              BY <5>1, <5>2
            <6> QED
              BY <6>1, <6>2, <6>3, SeqEqual
          <5>4. \A i \in 1 .. k : name[i] = array[at + i - 1]
            BY <4>1, <4>3, <5>1 DEF Slice
          <5> QED
            BY <3>2, <4>5, <5>3, <5>4 DEF text, Slice
        <4>7. k \in 0 .. m /\ \A i \in 1 .. k : bytes[at + i] # 0
          <5>1. k \in 0 .. m
            BY <4>3
          <5>2. \A i \in 1 .. k : i \in 1 .. m
            BY <5>1
          <5> QED
            BY <4>4, <4>5, <5>1, <5>2
        <4>8. k = m \/ bytes[at + k + 1] = 0
          <5>1. k # m => k + 1 \in 1 .. m /\ at + (k + 1) = at + k + 1
            BY <4>7
          <5> QED
            BY <4>3, <4>4, <4>5, <5>1
        <4> QED
          BY <3>2, <4>6, <4>7, <4>8
      <3> QED
        BY <3>1, <3>2
    <2>4. PICK k \in 0 .. m :
             /\ text = Slice(array, at, k)
             /\ ~HasName(flags) => k = 0
             /\ HasName(flags) => k = m \/ bytes[at + k + 1] = 0
             /\ \A i \in 1 .. k : bytes[at + i] # 0
      BY <2>3
    <2>5. at + k \in IdentitySize + 1 .. MAX_PAYLOAD_SIZE /\ at + k <= size
          /\ (k = m => at + k = size) /\ k \in Nat
      BY <1>1, <2>2, AdvertSizes
    <2>6. AdvertBytes(d.advert) = Slice(array, 0, at + k)
      BY <1>4, <2>4, <2>5
    <2>7. \A i \in at + 1 .. at + k : bytes[i] # 0
      <3>1. \A i \in at + 1 .. at + k : i - at \in 1 .. k /\ at + (i - at) = i
        BY <2>5
      <3> QED
        BY <2>4, <3>1
    <2>8. flags = bytes[IdentitySize + 1]
      BY <1>2, <1>6
    <2>9. /\ NameAt(flags) <= at + k
          /\ ~HasName(flags) => at + k = NameAt(flags)
          /\ HasName(flags) => at + k = size \/ bytes[at + k + 1] = 0
      BY <2>4, <2>5
    <2> QED
      BY <2>2, <2>5, <2>6, <2>7, <2>8, <2>9 DEF array, size
  <1> QED
    BY <1>5, <1>6

(***************************************************************************)
(* Without application data nothing is refused; with, the fields decide.   *)
(***************************************************************************)
LEMMA AdvertRejected ==
    ASSUME NEW bytes \in Seq(Byte), Len(bytes) <= MAX_PAYLOAD_SIZE,
           AdvertDeserialize(PayloadWith(bytes), Len(bytes)).result < 0
    PROVE  /\ Len(bytes) > IdentitySize
           /\ LET flags == bytes[IdentitySize + 1]
              IN  ~ /\ NameAt(flags) <= Len(bytes)
                    /\ HasName(flags) => Len(bytes) - NameAt(flags) <= MAX_NAME_SIZE
  <1> DEFINE size  == Len(bytes)
             flags == IF size > IdentitySize THEN bytes[IdentitySize + 1] ELSE 0
  <1>1. size \in 0 .. MAX_PAYLOAD_SIZE /\ size \in Nat
    BY AdvertSizes
  <1>2. ~AcceptsAdvert(size, flags)
    <2>1. (IF (size - IdentitySize) % ByteSize > 0 THEN PayloadWith(bytes)[IdentitySize] ELSE 0)
             = flags
      BY AdvertFlags
    <2> HIDE DEF flags, size
    <2> QED
      BY <2>1 DEF AdvertDeserialize, size
  <1> HIDE DEF size, flags
  <1>3. size > IdentitySize
    <2> SUFFICES ASSUME ~(size > IdentitySize) PROVE FALSE
      OBVIOUS
    <2>1. flags = 0
      BY DEF flags
    <2> QED
      BY <1>2, <2>1 DEF AcceptsAdvert, HasName, HasPosition, HasExtra1, HasExtra2
  <1>4. size \in IdentitySize + 1 .. MAX_PAYLOAD_SIZE
    BY <1>1, <1>3, AdvertSizes
  <1>5. flags = bytes[IdentitySize + 1] /\ flags \in Byte
    <2>1. IdentitySize + 1 \in 1 .. Len(bytes)
      BY <1>1, <1>3, AdvertSizes DEF size
    <2> QED
      BY <1>3, <2>1, ElementOfSeq DEF flags
  <1>6. ~ /\ NameAt(flags) <= size
          /\ HasName(flags) => size - NameAt(flags) <= MAX_NAME_SIZE
    BY <1>2, <1>4, <1>5, AdvertAccepted
  <1> QED
    BY <1>3, <1>5, <1>6 DEF size

-----------------------------------------------------------------------------

(***************************************************************************)
(* A packet that carries a message and no transport code.                  *)
(***************************************************************************)
Carries(packet, m) ==
    /\ packet.result = 0
    /\ packet.size = PayloadAt(m) + m.payload_length
    /\ packet.size \in PayloadAt(m) .. MAX_TRANS_UNIT
    /\ packet.data \in Buffers
    /\ packet.data[0] = Header(m)
    /\ packet.data[PathLengthAt(m.route)] = m.path_length
    /\ \A i \in PathAt(m.route) .. PayloadAt(m) - 1 :
          packet.data[i] = m.path[i - PathAt(m.route)]
    /\ \A i \in PayloadAt(m) .. packet.size - 1 :
          packet.data[i] = m.payload[i - PayloadAt(m)]
    /\ HasTransportCodes(m.route) => packet.data[1] = 0 /\ packet.data[2] = 0

(***************************************************************************)
(* meshcore_serialize stores header, path length, path and payload, each   *)
(* behind the other.                                                       *)
(***************************************************************************)
LEMMA SerializeStores ==
    ASSUME NEW m \in Messages,
           m.path_length <= MAX_PATH_SIZE, m.payload_length <= MAX_PAYLOAD_SIZE
    PROVE  Carries(Serialize(m), m)
  <1> DEFINE lengthAt  == PathLengthAt(m.route)
             pathAt    == PathAt(m.route)
             payloadAt == PayloadAt(m)
             end       == payloadAt + m.payload_length
             packet    == Serialize(m)
             byte(i)   == CASE i = 0        -> Header(m)
                            [] i = lengthAt -> m.path_length
                            [] i \in pathAt .. payloadAt - 1 -> m.path[i - pathAt]
                            [] i \in payloadAt .. end - 1 -> m.payload[i - payloadAt]
                            [] OTHER -> 0
  <1>1. /\ m.type \in 0 .. 15 /\ m.route \in 0 .. 3 /\ m.version \in 0 .. 3
        /\ m.path_length \in Nat /\ m.payload_length \in Nat
        /\ m.path_length \in Byte
        /\ m.path \in Paths /\ m.payload \in Payloads
    BY DEF Messages, Byte
  <1>2. /\ lengthAt \in {1, 3} /\ pathAt = lengthAt + 1
        /\ HasTransportCodes(m.route) <=> lengthAt = 3
    BY DEF PathLengthAt, PathAt
  <1>3. payloadAt = pathAt + m.path_length
    BY DEF PayloadAt
  <1>4. /\ MAX_PATH_SIZE \in Nat /\ MAX_PAYLOAD_SIZE \in Nat /\ MAX_TRANS_UNIT \in Nat
        /\ 4 + MAX_PATH_SIZE + MAX_PAYLOAD_SIZE <= MAX_TRANS_UNIT /\ MAX_TRANS_UNIT < 256
    BY SizeAssumption DEF ByteSize
  <1>5. packet = [result |-> 0,
                  data   |-> [i \in 0 .. MAX_TRANS_UNIT - 1 |-> byte(i)],
                  size   |-> end % ByteSize]
    <2>1. ~ (\/ m.path_length > MAX_PATH_SIZE
             \/ m.payload_length > MAX_PAYLOAD_SIZE)
      BY <1>1, <1>4
    <2> QED
      BY <2>1 DEF Serialize
  <1> HIDE DEF lengthAt, pathAt, payloadAt, packet
  <1>6. /\ payloadAt \in Nat /\ pathAt \in Nat /\ lengthAt \in Nat
        /\ end \in payloadAt .. MAX_TRANS_UNIT /\ pathAt <= payloadAt
    BY <1>1, <1>2, <1>3, <1>4
  <1>7. end % ByteSize = end
    <2>1. end \in 0 .. 255
      BY <1>4, <1>6
    <2> QED
      BY <2>1 DEF ByteSize
  <1>8. byte(0) = Header(m) /\ Header(m) \in Byte
    <2>1. 0 # lengthAt /\ 0 \notin pathAt .. payloadAt - 1 /\ 0 \notin payloadAt .. end - 1
      BY <1>2, <1>3, <1>6
    <2>2. byte(0) = Header(m)
      BY <2>1
    <2>3. \A b : b = m.route + 4 * m.type + 64 * m.version => b \in Byte
      BY <1>1, HeaderOfFields
    <2> QED
      BY <2>2, <2>3 DEF Header
  <1>9. byte(lengthAt) = m.path_length
    <2>1. /\ lengthAt # 0 /\ lengthAt \notin pathAt .. payloadAt - 1
          /\ lengthAt \notin payloadAt .. end - 1
      BY <1>2, <1>3, <1>6
    <2> QED
      BY <2>1
  <1>10. ASSUME NEW i \in pathAt .. payloadAt - 1
         PROVE  byte(i) = m.path[i - pathAt] /\ byte(i) \in Byte
    <2>1. i # 0 /\ i # lengthAt /\ i \notin payloadAt .. end - 1
      BY <1>2, <1>6
    <2>2. i - pathAt \in 0 .. MAX_PATH_SIZE - 1
      BY <1>1, <1>3, <1>4, <1>6
    <2>3. byte(i) = m.path[i - pathAt]
      BY <2>1
    <2> QED
      BY <1>1, <2>2, <2>3 DEF Paths
  <1>11. ASSUME NEW i \in payloadAt .. end - 1
         PROVE  byte(i) = m.payload[i - payloadAt] /\ byte(i) \in Byte
    <2>1. i # 0 /\ i # lengthAt /\ i \notin pathAt .. payloadAt - 1
      BY <1>2, <1>6
    <2>2. i - payloadAt \in 0 .. MAX_PAYLOAD_SIZE - 1
      BY <1>1, <1>4, <1>6
    <2>3. byte(i) = m.payload[i - payloadAt]
      BY <2>1
    <2> QED
      BY <1>1, <2>2, <2>3 DEF Payloads
  <1>12. HasTransportCodes(m.route) => byte(1) = 0 /\ byte(2) = 0
    BY <1>2, <1>3, <1>6
  <1>13. \A i \in 0 .. MAX_TRANS_UNIT - 1 : byte(i) \in Byte
    <2> SUFFICES ASSUME NEW i \in 0 .. MAX_TRANS_UNIT - 1 PROVE byte(i) \in Byte
      OBVIOUS
    <2>1. CASE i = 0
      BY <1>8, <2>1
    <2>2. CASE i = lengthAt
      BY <1>1, <1>9, <2>2
    <2>3. CASE i \in pathAt .. payloadAt - 1
      BY <1>10, <2>3
    <2>4. CASE i \in payloadAt .. end - 1
      BY <1>11, <2>4
    <2>5. CASE /\ i # 0 /\ i # lengthAt /\ i \notin pathAt .. payloadAt - 1
               /\ i \notin payloadAt .. end - 1
      BY <2>5 DEF Byte, ByteSize
    <2> QED
      BY <2>1, <2>2, <2>3, <2>4, <2>5
  <1> HIDE DEF byte, end
  <1>14. /\ packet.result = 0 /\ packet.size = end /\ packet.data \in Buffers
         /\ \A i \in 0 .. MAX_TRANS_UNIT - 1 : packet.data[i] = byte(i)
    BY <1>5, <1>7, <1>13 DEF Buffers
  <1>15. /\ {0, lengthAt, 1, 2} \subseteq 0 .. MAX_TRANS_UNIT - 1
         /\ pathAt .. payloadAt - 1 \subseteq 0 .. MAX_TRANS_UNIT - 1
         /\ payloadAt .. end - 1 \subseteq 0 .. MAX_TRANS_UNIT - 1
    <2>1. MAX_TRANS_UNIT >= 5
      BY SizeAssumption
    <2> QED
      BY <1>2, <1>4, <1>6, <2>1
  <1>16. /\ packet.data[0] = Header(m) /\ packet.data[lengthAt] = m.path_length
         /\ HasTransportCodes(m.route) => packet.data[1] = 0 /\ packet.data[2] = 0
    BY <1>8, <1>9, <1>12, <1>14, <1>15
  <1>17. \A i \in pathAt .. payloadAt - 1 : packet.data[i] = m.path[i - pathAt]
    BY <1>10, <1>14, <1>15
  <1>18. \A i \in payloadAt .. end - 1 : packet.data[i] = m.payload[i - payloadAt]
    BY <1>11, <1>14, <1>15
  <1>19. end = payloadAt + m.payload_length
    BY DEF end
  <1> QED
    BY <1>6, <1>14, <1>16, <1>17, <1>18, <1>19
       DEF Carries, packet, lengthAt, pathAt, payloadAt
=============================================================================
