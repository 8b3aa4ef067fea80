------------------------ MODULE CompanionReaderProofs ------------------------
(***************************************************************************)
(* Theorems about CompanionReader, for every radix, buffer size, table and *)
(* stream.                                                                 *)
(***************************************************************************)
EXTENDS CompanionReader, SequenceTheorems, WellFoundedInduction, TLAPS

(***************************************************************************)
(* Two bytes make a word, and a word has at least four values.             *)
(***************************************************************************)
LEMMA WordOfBytes ==
    /\ Radix \in Nat /\ WordSize \in Nat /\ WordSize >= 4
    /\ \A lo, hi \in Byte : lo + Radix * hi \in 0 .. WordSize - 1
<1>1. Radix \in Nat /\ Radix >= 2
  BY ByteAssumption
<1>2. WordSize \in Nat /\ WordSize >= 4
  BY <1>1 DEF WordSize
<1>3. ASSUME NEW lo \in Byte, NEW hi \in Byte
      PROVE  lo + Radix * hi \in 0 .. WordSize - 1
  <2>1. hi \in 0 .. Radix - 1 /\ lo \in 0 .. Radix - 1
    BY DEF Byte
  <2>2. Radix * hi \in Nat /\ Radix * hi <= Radix * (Radix - 1)
    BY <1>1, <2>1
  <2>3. Radix * (Radix - 1) = Radix * Radix - Radix
    BY <1>1
  <2> QED
    BY <1>1, <2>1, <2>2, <2>3 DEF WordSize
<1> QED
  BY <1>1, <1>2, <1>3

(***************************************************************************)
(* A 16 bit sum of the header size and a word is the word plus the header  *)
(* size, or wrapped around to less than the header size.                   *)
(***************************************************************************)
LEMMA SumWraps ==
    ASSUME NEW length \in 0 .. WordSize - 1
    PROVE  /\ (HeaderSize + length) % WordSize \in 0 .. WordSize - 1
           /\ \/ (HeaderSize + length) % WordSize = HeaderSize + length
              \/ (HeaderSize + length) % WordSize < HeaderSize
<1>1. WordSize \in Nat /\ WordSize >= 4
  BY WordOfBytes
<1>2. CASE HeaderSize + length < WordSize
  <2>1. (HeaderSize + length) % WordSize = HeaderSize + length
    BY <1>1, <1>2 DEF HeaderSize
  <2> QED
    BY <1>1, <1>2, <2>1 DEF HeaderSize
<1>3. CASE HeaderSize + length >= WordSize
  <2>1. (HeaderSize + length) % WordSize = HeaderSize + length - WordSize
    BY <1>1, <1>3 DEF HeaderSize
  <2> QED
    BY <1>1, <1>3, <2>1 DEF HeaderSize
<1> QED
  BY <1>1, <1>2, <1>3 DEF HeaderSize

(***************************************************************************)
(* A function on 1 .. n is a sequence of length n.                         *)
(***************************************************************************)
LEMMA FunctionIsSeq ==
    ASSUME NEW S, NEW n \in Nat, NEW f \in [1 .. n -> S]
    PROVE  f \in Seq(S) /\ Len(f) = n
<1>1. f \in Seq(S)
  BY SeqDef
<1>2. DOMAIN f = 1 .. n /\ DOMAIN f = 1 .. Len(f) /\ Len(f) \in Nat
  BY <1>1, LenProperties
<1> QED
  BY <1>1, <1>2

(***************************************************************************)
(* Of three runs of bytes it does not matter which two are joined first.   *)
(***************************************************************************)
LEMMA BytesAssociate ==
    ASSUME NEW s \in Seq(Byte), NEW t \in Seq(Byte), NEW u \in Seq(Byte)
    PROVE  (s \o t) \o u = s \o (t \o u)
  BY ConcatAssociative

(***************************************************************************)
(* The parser returns one of its errors and leaves a packet of bytes.      *)
(***************************************************************************)
LEMMA ParserTypes ==
    ASSUME NEW data \in Seq(Byte), NEW out_packet \in Packets
    PROVE  ParseError(data) \in Errors /\ ParsedPacket(data, out_packet) \in Packets
<1>1. ParseError(data) \in Errors
  BY DEF ParseError, Errors
<1>2. 0 \in Byte
  BY ByteAssumption DEF Byte
<1>3. ASSUME NEW i \in 1 .. Len(data) PROVE data[i] \in Byte
  BY ElementOfSeq
<1>4. Len(data) \in Nat
  BY LenProperties
<1>5. NoArguments \in [ArgIndex -> Byte]
  BY <1>2 DEF NoArguments
<1>6. ArgumentsOf(data) \in [ArgIndex -> Byte]
  <2>1. ASSUME NEW i \in ArgIndex, i + 2 <= Len(data) PROVE data[i + 2] \in Byte
    <3>1. i \in Nat
      BY DEF ArgIndex
    <3> QED
      BY <1>3, <1>4, <2>1, <3>1
  <2> QED
    BY <1>2, <2>1 DEF ArgumentsOf
<1>7. ParsedPacket(data, out_packet) \in Packets
  <2>1. CASE Len(data) < 1
    BY <2>1 DEF ParsedPacket
  <2>2. CASE ~(Len(data) < 1)
    <3>1. data[1] \in Byte
      BY <1>3, <1>4, <2>2
    <3> QED
      BY <1>5, <1>6, <2>2, <3>1 DEF ParsedPacket, Packets
  <2> QED
    BY <2>1, <2>2
<1> QED
  BY <1>1, <1>7

(***************************************************************************)
(* What the two length bytes in rx_buffer can announce.                    *)
(***************************************************************************)
LEMMA HeaderRange ==
    ASSUME TypeOK
    PROVE  /\ AnnouncedLength \in 0 .. WordSize - 1
           /\ expected_length \in 0 .. WordSize - 1
           /\ \/ expected_length = HeaderSize + AnnouncedLength
              \/ expected_length < HeaderSize
<1>1. 1 \in 0 .. MAX_FRAME_SIZE - 1 /\ 2 \in 0 .. MAX_FRAME_SIZE - 1
  BY FrameAssumption DEF HeaderSize
<1>2. rx_buffer[1] \in Byte /\ rx_buffer[2] \in Byte
  BY <1>1 DEF TypeOK
<1>3. AnnouncedLength \in 0 .. WordSize - 1
  BY <1>2, WordOfBytes DEF AnnouncedLength
<1> QED
  BY <1>3, SumWraps DEF expected_length

(***************************************************************************)
(* The bytes a turn of the loop copies: at most what is at hand, at most   *)
(* what the frame lacks, and never over the header.                        *)
(***************************************************************************)
LEMMA CopyFacts ==
    ASSUME TypeOK, InCall, rx_position >= HeaderSize, expected_length <= MAX_FRAME_SIZE
    PROVE  /\ CopyCount \in 0 .. received_data_length
           /\ consumed + CopyCount \in 0 .. Len(stream)
           /\ CopyCount = 0 \/ rx_position + CopyCount <= expected_length
           /\ rx_position + CopyCount \in 0 .. MAX_FRAME_SIZE
           /\ Filled(CopyCount) \in [0 .. MAX_FRAME_SIZE - 1 -> Byte]
           /\ \A i \in 0 .. rx_position - 1 : Filled(CopyCount)[i] = rx_buffer[i]
           /\ \A i \in rx_position .. rx_position + CopyCount - 1 :
                 Filled(CopyCount)[i] = stream[consumed + 1 + (i - rx_position)]
<1>1. /\ MAX_FRAME_SIZE \in Nat /\ rx_position \in 0 .. MAX_FRAME_SIZE - 1
      /\ Len(stream) \in Nat /\ consumed \in 0 .. Len(stream)
      /\ rx_buffer \in [0 .. MAX_FRAME_SIZE - 1 -> Byte]
  BY FrameAssumption, LenProperties DEF TypeOK
<1>2. received_data_length \in Nat /\ received_data_length = Len(stream) - consumed
  BY <1>1 DEF received_data_length
<1>3. expected_length \in Nat
  BY HeaderRange, WordOfBytes
<1>4. /\ CopyCount \in 0 .. received_data_length
      /\ CopyCount = 0 \/ rx_position + CopyCount <= expected_length
  BY <1>1, <1>2, <1>3 DEF CopyCount
<1>5. /\ consumed + CopyCount \in 0 .. Len(stream)
      /\ rx_position + CopyCount \in 0 .. MAX_FRAME_SIZE
  BY <1>1, <1>2, <1>3, <1>4
<1>6. ASSUME NEW i \in rx_position .. rx_position + CopyCount - 1
      PROVE  /\ i \in 0 .. MAX_FRAME_SIZE - 1
             /\ stream[consumed + 1 + (i - rx_position)] \in Byte
  <2>1. consumed + 1 + (i - rx_position) \in 1 .. Len(stream)
    BY <1>1, <1>4, <1>5
  <2>2. stream \in Seq(Byte)
    BY DEF TypeOK
  <2> QED
    BY <1>1, <1>4, <1>5, <2>1, <2>2, ElementOfSeq
<1>7. DOMAIN rx_buffer = 0 .. MAX_FRAME_SIZE - 1
  BY <1>1
<1>8. Filled(CopyCount) \in [0 .. MAX_FRAME_SIZE - 1 -> Byte]
  BY <1>1, <1>6, <1>7 DEF Filled
<1>9. \A i \in 0 .. rx_position - 1 : Filled(CopyCount)[i] = rx_buffer[i]
  BY <1>1, <1>4, <1>7 DEF Filled
<1>10. \A i \in rx_position .. rx_position + CopyCount - 1 :
          Filled(CopyCount)[i] = stream[consumed + 1 + (i - rx_position)]
  BY <1>6, <1>7 DEF Filled
<1> QED
  BY <1>4, <1>5, <1>8, <1>9, <1>10

(***************************************************************************)
(* The bytes behind the header of a complete frame.                        *)
(***************************************************************************)
LEMMA BodyFacts ==
    ASSUME TypeOK, NEW buffer \in [0 .. MAX_FRAME_SIZE - 1 -> Byte],
           HeaderSize <= expected_length, expected_length <= MAX_FRAME_SIZE
    PROVE  /\ FrameBody(buffer) \in Seq(Byte)
           /\ Len(FrameBody(buffer)) = expected_length - HeaderSize
<1>1. expected_length \in Nat /\ MAX_FRAME_SIZE \in Nat
  BY HeaderRange, WordOfBytes, FrameAssumption
<1>2. expected_length - HeaderSize \in Nat
  BY <1>1 DEF HeaderSize
<1>3. FrameBody(buffer) \in [1 .. expected_length - HeaderSize -> Byte]
  BY <1>1 DEF FrameBody, HeaderSize
<1> QED
  BY <1>2, <1>3, FunctionIsSeq

(***************************************************************************)
(* Reading lengthens the stream and changes none of it.                    *)
(***************************************************************************)
LEMMA ReadFacts ==
    ASSUME TypeOK, NEW chunk \in Seq(Byte) \ {<<>>}, Read(chunk)
    PROVE  /\ stream' \in Seq(Byte)
           /\ Len(stream) < Len(stream')
           /\ \A i \in 1 .. Len(stream) : stream'[i] = stream[i]
<1>1. stream \in Seq(Byte) /\ chunk \in Seq(Byte) /\ chunk # <<>>
  BY DEF TypeOK
<1>2. Len(stream) \in Nat /\ Len(chunk) \in Nat \ {0}
  BY <1>1, LenProperties, EmptySeq
<1>3. stream' = stream \o chunk
  BY DEF Read
<1> QED
  BY <1>1, <1>2, <1>3, ConcatProperties

(***************************************************************************)
(* The call record of a complete frame has the types of a call record.     *)
(***************************************************************************)
LEMMA ReceiveFrameTypes ==
    ASSUME TypeOK, ReceiveFrame
    PROVE  command_packet_buffer' \in Packets /\ calls' \in Seq(CallRecords)
<1>1. /\ InCall /\ rx_position >= HeaderSize /\ expected_length <= MAX_FRAME_SIZE
      /\ rx_position + CopyCount = expected_length
      /\ rx_buffer' = Filled(CopyCount) /\ consumed' = consumed + CopyCount
  BY DEF ReceiveFrame, Complete, HandleFrame
<1>2. /\ rx_buffer' \in [0 .. MAX_FRAME_SIZE - 1 -> Byte]
      /\ consumed' \in Nat /\ CopyCount \in Nat
  BY <1>1, CopyFacts DEF received_data_length
<1>3. expected_length \in Nat /\ HeaderSize <= expected_length
  BY <1>1, <1>2, HeaderRange, WordOfBytes DEF TypeOK, HeaderSize
<1>4. FrameBody(rx_buffer') \in Seq(Byte)
  BY <1>1, <1>2, <1>3, BodyFacts
<1>5. /\ command_packet_buffer' = ParsedPacket(FrameBody(rx_buffer'), command_packet_buffer)
      /\ calls' = Append(calls, [end    |-> consumed',
                                 length |-> expected_length,
                                 packet |-> command_packet_buffer',
                                 error  |-> ParseError(FrameBody(rx_buffer'))])
  BY DEF ReceiveFrame, Complete, HandleFrame
<1>6. command_packet_buffer' \in Packets /\ ParseError(FrameBody(rx_buffer')) \in Errors
  BY <1>4, <1>5, ParserTypes DEF TypeOK
<1>7. [end    |-> consumed', length |-> expected_length,
       packet |-> command_packet_buffer',
       error  |-> ParseError(FrameBody(rx_buffer'))] \in CallRecords
  BY <1>2, <1>3, <1>6 DEF CallRecords
<1> QED
  BY <1>5, <1>6, <1>7, AppendProperties DEF TypeOK

(***************************************************************************)
(* Reading keeps the types, whatever is read.                              *)
(***************************************************************************)
LEMMA ReadKeepsTypes ==
    ASSUME TypeOK, NEW chunk \in Seq(Byte) \ {<<>>}, Read(chunk)
    PROVE  TypeOK'
<1>1. consumed' \in 0 .. Len(stream')
  <2>1. Len(stream') \in Nat /\ Len(stream) \in Nat /\ Len(stream) < Len(stream')
    BY ReadFacts, LenProperties DEF TypeOK
  <2> QED
    BY <2>1 DEF Read, TypeOK
<1> QED
  BY <1>1, ReadFacts DEF Read, TypeOK

(***************************************************************************)
(* Every step keeps the types.                                             *)
(***************************************************************************)
LEMMA TypePreserved == TypeOK /\ [Next]_vars => TypeOK'
<1> SUFFICES ASSUME TypeOK, [Next]_vars PROVE TypeOK'
  OBVIOUS
<1> USE DEF port
<1>1. /\ Len(stream) \in Nat /\ MAX_FRAME_SIZE \in Nat /\ MAX_FRAME_SIZE > 3
      /\ StartByte \in Byte
  BY LenProperties, FrameAssumption, StartAssumption DEF TypeOK, HeaderSize
<1>2. ASSUME InCall
      PROVE  consumed + 1 \in 1 .. Len(stream) /\ received_byte \in Byte
  <2>1. consumed + 1 \in 1 .. Len(stream)
    BY <1>1, <1>2 DEF InCall, received_data_length, TypeOK
  <2> QED
    BY <2>1, ElementOfSeq DEF received_byte, TypeOK
<1>3. ASSUME NEW chunk \in Chunks, Read(chunk) PROVE TypeOK'
  BY <1>3, ChunkAssumption, ReadKeepsTypes
<1>4. CASE DiscardByte
  BY <1>1, <1>2, <1>4 DEF DiscardByte, TypeOK
<1>5. CASE FindStart
  BY <1>1, <1>2, <1>5 DEF FindStart, TypeOK
<1>6. CASE StoreLength
  BY <1>1, <1>2, <1>6 DEF StoreLength, TypeOK
<1>7. CASE RejectLength
  BY <1>1, <1>7 DEF RejectLength, TypeOK
<1>8. CASE ReceivePart
  <2>1. /\ rx_buffer' \in [0 .. MAX_FRAME_SIZE - 1 -> Byte]
        /\ consumed' \in 0 .. Len(stream)
    BY <1>8, CopyFacts DEF ReceivePart
  <2>2. rx_position' \in 0 .. MAX_FRAME_SIZE - 1
    <3>1. /\ expected_length \in Nat /\ expected_length <= MAX_FRAME_SIZE
          /\ rx_position \in 0 .. MAX_FRAME_SIZE - 1
          /\ rx_position' = rx_position + CopyCount
          /\ rx_position + CopyCount # expected_length
      BY <1>8, HeaderRange, WordOfBytes DEF ReceivePart, TypeOK
    <3>2. /\ rx_position + CopyCount \in 0 .. MAX_FRAME_SIZE
          /\ CopyCount = 0 \/ rx_position + CopyCount <= expected_length
      BY <1>8, CopyFacts DEF ReceivePart
    <3> QED
      BY <1>1, <3>1, <3>2
  <2> QED
    BY <1>8, <2>1, <2>2 DEF ReceivePart, TypeOK
<1>9. CASE ReceiveFrame
  <2>1. /\ rx_buffer' \in [0 .. MAX_FRAME_SIZE - 1 -> Byte]
        /\ consumed' \in 0 .. Len(stream)
    BY <1>9, CopyFacts DEF ReceiveFrame, Complete, HandleFrame
  <2> QED
    BY <1>1, <1>9, <2>1, ReceiveFrameTypes DEF ReceiveFrame, Complete, HandleFrame, TypeOK
<1>10. CASE UNCHANGED vars
  BY <1>10 DEF vars, TypeOK
<1> QED
  BY <1>3, <1>4, <1>5, <1>6, <1>7, <1>8, <1>9, <1>10 DEF Next, Step, Silence

(***************************************************************************)
(* The initial state has the types.                                        *)
(***************************************************************************)
LEMMA TypeInitially == Init => TypeOK
<1> SUFFICES ASSUME Init PROVE TypeOK
  OBVIOUS
<1>1. 0 \in Byte /\ MAX_FRAME_SIZE \in Nat /\ MAX_FRAME_SIZE > 3
  BY ByteAssumption, FrameAssumption DEF Byte, HeaderSize
<1>2. NoArguments \in [ArgIndex -> Byte]
  BY <1>1 DEF NoArguments
<1>3. Len(<<>>) = 0 /\ <<>> \in Seq(Byte) /\ <<>> \in Seq(CallRecords)
  BY EmptySeq
<1> QED
  BY <1>1, <1>2, <1>3 DEF Init, TypeOK, Packets

(***************************************************************************)
(* Every variable of the reader keeps its type and rx_position stays       *)
(* inside rx_buffer, for every buffer size, command table and input.       *)
(***************************************************************************)
THEOREM TypeCorrect == Spec => []TypeOK
<1> QED
  BY TypeInitially, TypePreserved, PTL DEF Spec

-----------------------------------------------------------------------------

(***************************************************************************)
(* Plain numbers behind the types, cited together from here on.            *)
(***************************************************************************)
LEMMA Numbers ==
    ASSUME TypeOK
    PROVE  /\ Len(stream) \in Nat /\ consumed \in Nat /\ consumed <= Len(stream)
           /\ rx_position \in Nat /\ rx_position < MAX_FRAME_SIZE
           /\ MAX_FRAME_SIZE \in Nat /\ MAX_FRAME_SIZE > HeaderSize /\ HeaderSize = 3
           /\ DOMAIN rx_buffer = 0 .. MAX_FRAME_SIZE - 1
           /\ expected_length \in Nat /\ Len(calls) \in Nat
  BY LenProperties, FrameAssumption, HeaderRange, WordOfBytes DEF TypeOK, HeaderSize

(***************************************************************************)
(* Reading leaves the frame being assembled where it is.                   *)
(***************************************************************************)
LEMMA ReadKeepsTail ==
    ASSUME TypeOK, BufferHoldsTail, NEW chunk \in Seq(Byte) \ {<<>>}, Read(chunk)
    PROVE  BufferHoldsTail'
<1>1. /\ UNCHANGED <<consumed, rx_buffer, rx_position>>
      /\ expected_length' = expected_length
  BY DEF Read, expected_length, AnnouncedLength
<1>2. ASSUME NEW i \in 0 .. rx_position - 1
      PROVE  stream'[consumed - rx_position + i + 1] = stream[consumed - rx_position + i + 1]
  <2>1. consumed - rx_position + i + 1 \in 1 .. Len(stream)
    BY Numbers DEF BufferHoldsTail
  <2> QED
    BY <2>1, ReadFacts
<1> QED
  BY <1>1, <1>2 DEF BufferHoldsTail

(***************************************************************************)
(* The frame being assembled stays the tail of the consumed bytes.         *)
(***************************************************************************)
LEMMA TailPreserved == TypeOK /\ BufferHoldsTail /\ [Next]_vars => BufferHoldsTail'
<1> SUFFICES ASSUME TypeOK, BufferHoldsTail, [Next]_vars PROVE BufferHoldsTail'
  OBVIOUS
<1> USE DEF port
<1>1. /\ rx_position <= consumed
      /\ \A i \in 0 .. rx_position - 1 :
            rx_buffer[i] = stream[consumed - rx_position + i + 1]
      /\ rx_position > 0 => rx_buffer[0] = StartByte
      /\ rx_position > HeaderSize =>
            rx_position < expected_length /\ expected_length <= MAX_FRAME_SIZE
  BY DEF BufferHoldsTail
<1>0. /\ consumed \in Nat /\ rx_position \in Nat /\ HeaderSize = 3
      /\ MAX_FRAME_SIZE \in Nat /\ rx_position < MAX_FRAME_SIZE /\ MAX_FRAME_SIZE > 3
      /\ DOMAIN rx_buffer = 0 .. MAX_FRAME_SIZE - 1 /\ expected_length \in Nat
  BY Numbers
<1>2. ASSUME rx_position' = 0, consumed' \in Nat PROVE BufferHoldsTail'
  BY <1>2 DEF BufferHoldsTail, HeaderSize
<1>3. ASSUME NEW chunk \in Chunks, Read(chunk) PROVE BufferHoldsTail'
  BY <1>3, ChunkAssumption, ReadKeepsTail
<1>4. CASE DiscardByte
  BY <1>2, <1>4, Numbers DEF DiscardByte
<1>5. CASE FindStart
  <2>1. /\ rx_position' = 1 /\ consumed' = consumed + 1 /\ stream' = stream
        /\ rx_buffer'[0] = stream[consumed + 1] /\ stream[consumed + 1] = StartByte
    BY <1>5, Numbers DEF FindStart, received_byte
  <2> QED
    BY <2>1, Numbers DEF BufferHoldsTail
<1>6. CASE StoreLength
  <2>1. /\ rx_position \in {1, 2} /\ rx_position' = rx_position + 1
        /\ consumed' = consumed + 1 /\ stream' = stream
        /\ rx_buffer' = [rx_buffer EXCEPT ![rx_position] = stream[consumed + 1]]
    BY <1>6 DEF StoreLength, received_byte
  <2>2. /\ rx_buffer'[rx_position] = stream[consumed + 1]
        /\ \A i \in 0 .. rx_position - 1 : rx_buffer'[i] = rx_buffer[i]
    BY <1>0, <2>1
  <2>3. rx_position' \in Nat /\ consumed' - rx_position' = consumed - rx_position
    BY <1>0, <2>1
  <2>4. ASSUME NEW i \in 0 .. rx_position' - 1
        PROVE  rx_buffer'[i] = stream'[consumed' - rx_position' + i + 1]
    <3>1. CASE i = rx_position
      <4>1. consumed - rx_position + i + 1 = consumed + 1
        BY <1>0, <3>1
      <4> QED
        BY <2>1, <2>2, <2>3, <3>1, <4>1
    <3>2. CASE i # rx_position
      <4>1. i \in 0 .. rx_position - 1
        BY <1>0, <2>1, <3>2
      <4> QED
        BY <1>1, <2>1, <2>2, <2>3, <4>1
    <3> QED
      BY <3>1, <3>2
  <2>5. rx_buffer'[0] = StartByte
    BY <1>0, <1>1, <2>1, <2>2
  <2>6. rx_position' <= consumed' /\ ~(rx_position' > HeaderSize)
    BY <1>0, <1>1, <2>1
  <2> QED
    BY <2>4, <2>5, <2>6 DEF BufferHoldsTail
<1>7. CASE RejectLength
  BY <1>2, <1>7, Numbers DEF RejectLength
<1>8. CASE ReceivePart
  <2>1. /\ rx_position >= HeaderSize /\ expected_length <= MAX_FRAME_SIZE
        /\ rx_position' = rx_position + CopyCount
        /\ rx_position + CopyCount # expected_length
        /\ consumed' = consumed + CopyCount /\ stream' = stream
        /\ rx_buffer' = Filled(CopyCount)
    BY <1>8 DEF ReceivePart
  <2>2. /\ CopyCount \in Nat
        /\ CopyCount = 0 \/ rx_position + CopyCount <= expected_length
        /\ \A i \in 0 .. rx_position - 1 : rx_buffer'[i] = rx_buffer[i]
        /\ \A i \in rx_position .. rx_position + CopyCount - 1 :
              rx_buffer'[i] = stream[consumed + 1 + (i - rx_position)]
    BY <1>8, <2>1, CopyFacts DEF ReceivePart, received_data_length, TypeOK
  <2>3. rx_buffer'[0] = rx_buffer[0] /\ expected_length' = expected_length
    <3>1. rx_buffer'[0] = rx_buffer[0] /\ rx_buffer'[1] = rx_buffer[1] /\ rx_buffer'[2] = rx_buffer[2]
      BY <1>0, <2>1, <2>2
    <3> QED
      BY <3>1 DEF expected_length, AnnouncedLength
  <2>4. rx_position' \in Nat /\ consumed' - rx_position' = consumed - rx_position
    BY <1>0, <2>1, <2>2
  <2>5. ASSUME NEW i \in 0 .. rx_position' - 1
        PROVE  rx_buffer'[i] = stream'[consumed' - rx_position' + i + 1]
    <3>1. CASE i < rx_position
      <4>1. i \in 0 .. rx_position - 1
        BY <1>0, <3>1
      <4> QED
        BY <1>1, <2>1, <2>2, <2>4, <4>1
    <3>2. CASE i >= rx_position
      <4>1. i \in rx_position .. rx_position + CopyCount - 1
        BY <1>0, <2>1, <2>2, <3>2
      <4>2. consumed - rx_position + i + 1 = consumed + 1 + (i - rx_position)
        BY <1>0, <4>1
      <4> QED
        BY <2>1, <2>2, <2>4, <4>1, <4>2
    <3> QED
      BY <1>0, <3>1, <3>2
  <2>6. rx_position' <= consumed'
    BY <1>0, <1>1, <2>1, <2>2
  <2>7. rx_position' > HeaderSize =>
           rx_position' < expected_length' /\ expected_length' <= MAX_FRAME_SIZE
    BY <1>0, <1>1, <2>1, <2>2, <2>3
  <2> QED
    BY <1>0, <1>1, <2>1, <2>3, <2>5, <2>6, <2>7 DEF BufferHoldsTail
<1>9. CASE ReceiveFrame
  <2>1. consumed' \in Nat
    BY <1>9, CopyFacts DEF ReceiveFrame, Complete, HandleFrame
  <2> QED
    BY <1>2, <1>9, <2>1 DEF ReceiveFrame, Complete, HandleFrame
<1>10. CASE UNCHANGED vars
  BY <1>10 DEF vars, BufferHoldsTail, expected_length, AnnouncedLength
<1> QED
  BY <1>3, <1>4, <1>5, <1>6, <1>7, <1>8, <1>9, <1>10 DEF Next, Step, Silence

-----------------------------------------------------------------------------

(***************************************************************************)
(* A frame found in the bytes received so far stays that frame as the      *)
(* stream grows.                                                           *)
(***************************************************************************)
LEMMA SliceKept ==
    ASSUME TypeOK, NEW c \in CallRecords, IsFrame(c), c.end <= Len(stream),
           \A i \in 1 .. Len(stream) : stream'[i] = stream[i]
    PROVE  IsFrame(c)' /\ BodyOf(c)' = BodyOf(c)
<1>1. /\ c.end \in Nat /\ c.length \in Nat /\ Len(stream) \in Nat
      /\ HeaderSize <= c.length /\ c.length <= c.end /\ HeaderSize = 3
  BY Numbers DEF CallRecords, IsFrame
<1>2. ASSUME NEW i \in 1 .. c.length
      PROVE  stream'[c.end - c.length + i] = stream[c.end - c.length + i]
  <2>1. c.end - c.length + i \in 1 .. Len(stream)
    BY <1>1
  <2> QED
    BY <2>1
<1>3. /\ stream'[c.end - c.length + 1] = stream[c.end - c.length + 1]
      /\ stream'[c.end - c.length + 2] = stream[c.end - c.length + 2]
      /\ stream'[c.end - c.length + 3] = stream[c.end - c.length + 3]
  BY <1>1, <1>2
<1>4. ASSUME NEW i \in 1 .. c.length - HeaderSize
      PROVE  stream'[c.end - c.length + (HeaderSize + i)]
               = stream[c.end - c.length + (HeaderSize + i)]
  <2>1. HeaderSize + i \in 1 .. c.length
    BY <1>1
  <2> QED
    BY <1>2, <2>1
<1> QED
  BY <1>3, <1>4 DEF IsFrame, BodyOf

(***************************************************************************)
(* The call a complete frame leads to: it stands for the slice of the      *)
(* stream that was being assembled, and carries the parser's verdict on    *)
(* exactly that slice.                                                     *)
(***************************************************************************)
LEMMA NewCall ==
    ASSUME TypeOK, BufferHoldsTail, ReceiveFrame,
           NEW c, c = [end |-> consumed', length |-> expected_length,
                       packet |-> command_packet_buffer',
                       error |-> ParseError(FrameBody(rx_buffer'))]
    PROVE  /\ calls' = Append(calls, c) /\ c \in CallRecords
           /\ IsFrame(c)
           /\ c.end - c.length = consumed - rx_position
           /\ BodyOf(c) = FrameBody(rx_buffer')
           /\ c.error = ParseError(BodyOf(c))
           /\ c.error = "NONE" => /\ c.packet.command = BodyOf(c)[1]
                                  /\ c.packet.args = ArgumentsOf(BodyOf(c))
<1>1. /\ rx_position >= HeaderSize /\ expected_length <= MAX_FRAME_SIZE
      /\ InCall /\ rx_position + CopyCount = expected_length
      /\ rx_buffer' = Filled(CopyCount) /\ consumed' = consumed + CopyCount
      /\ command_packet_buffer' = ParsedPacket(FrameBody(rx_buffer'), command_packet_buffer)
  BY DEF ReceiveFrame, Complete, HandleFrame
<1>2. /\ consumed \in Nat /\ rx_position \in Nat /\ HeaderSize = 3
      /\ expected_length \in Nat /\ MAX_FRAME_SIZE \in Nat
  BY Numbers
<1>3. /\ CopyCount \in Nat /\ consumed' \in Nat
      /\ rx_buffer' \in [0 .. MAX_FRAME_SIZE - 1 -> Byte]
      /\ \A i \in 0 .. rx_position - 1 : rx_buffer'[i] = rx_buffer[i]
      /\ \A i \in rx_position .. rx_position + CopyCount - 1 :
            rx_buffer'[i] = stream[consumed + 1 + (i - rx_position)]
  BY <1>1, CopyFacts DEF received_data_length
<1>4. /\ rx_position <= consumed /\ rx_buffer[0] = StartByte
      /\ \A i \in 0 .. rx_position - 1 :
            rx_buffer[i] = stream[consumed - rx_position + i + 1]
  BY <1>1, <1>2 DEF BufferHoldsTail
<1>5. calls' = Append(calls, c)
  BY DEF ReceiveFrame, Complete, HandleFrame
<1>6. FrameBody(rx_buffer') \in Seq(Byte) /\ HeaderSize <= expected_length
  <2>1. HeaderSize <= expected_length
    BY <1>1, <1>2, <1>3
  <2> QED
    BY <1>1, <1>3, <2>1, BodyFacts
<1>7. c \in CallRecords
  <2>1. command_packet_buffer' \in Packets
    BY ReceiveFrameTypes
  <2>2. ParseError(FrameBody(rx_buffer')) \in Errors
    BY <1>6, ParserTypes DEF TypeOK
  <2> QED
    BY <1>2, <1>3, <2>1, <2>2 DEF CallRecords
<1>8. /\ c.end = consumed' /\ c.length = expected_length
      /\ c.end - c.length = consumed - rx_position
  BY <1>1, <1>2, <1>3
<1>9. ASSUME NEW i \in 0 .. expected_length - 1
      PROVE  rx_buffer'[i] = stream[consumed - rx_position + i + 1]
  <2>1. CASE i < rx_position
    <3>1. i \in 0 .. rx_position - 1
      BY <1>2, <2>1
    <3> QED
      BY <1>3, <1>4, <3>1
  <2>2. CASE i >= rx_position
    <3>1. i \in rx_position .. rx_position + CopyCount - 1
      BY <1>1, <1>2, <1>3, <2>2
    <3>2. consumed - rx_position + i + 1 = consumed + 1 + (i - rx_position)
      BY <1>2, <3>1
    <3> QED
      BY <1>3, <3>1, <3>2
  <2> QED
    BY <1>2, <2>1, <2>2
<1>10. IsFrame(c)
  <2>1. /\ rx_buffer[0] = stream[consumed - rx_position + 1]
        /\ rx_buffer[1] = stream[consumed - rx_position + 2]
        /\ rx_buffer[2] = stream[consumed - rx_position + 3]
    <3>1. /\ consumed - rx_position + 0 + 1 = consumed - rx_position + 1
          /\ consumed - rx_position + 1 + 1 = consumed - rx_position + 2
          /\ consumed - rx_position + 2 + 1 = consumed - rx_position + 3
          /\ 0 \in 0 .. rx_position - 1 /\ 1 \in 0 .. rx_position - 1
          /\ 2 \in 0 .. rx_position - 1
      BY <1>1, <1>2
    <3> QED
      BY <1>4, <3>1
  <2>2. expected_length = HeaderSize + rx_buffer[1] + Radix * rx_buffer[2]
    <3>1. expected_length = HeaderSize + AnnouncedLength
      BY <1>2, <1>6, HeaderRange
    <3>2. rx_buffer[1] \in Nat /\ rx_buffer[2] \in Nat /\ Radix \in Nat
      <4>1. 1 \in 0 .. MAX_FRAME_SIZE - 1 /\ 2 \in 0 .. MAX_FRAME_SIZE - 1
        BY Numbers
      <4>2. rx_buffer[1] \in Byte /\ rx_buffer[2] \in Byte
        BY <4>1 DEF TypeOK
      <4> QED
        BY <4>2, ByteAssumption DEF Byte
    <3>3. Radix * rx_buffer[2] \in Nat
      BY <3>2
    <3> QED
      BY <1>2, <3>1, <3>2, <3>3 DEF AnnouncedLength
  <2>3. c.length <= c.end
    BY <1>1, <1>2, <1>3, <1>4, <1>8
  <2> QED
    BY <1>1, <1>4, <1>6, <1>8, <2>1, <2>2, <2>3 DEF IsFrame
<1>11. BodyOf(c) = FrameBody(rx_buffer')
  <2>1. ASSUME NEW i \in 1 .. expected_length - HeaderSize
        PROVE  rx_buffer'[HeaderSize + i - 1] = stream[consumed - rx_position + (HeaderSize + i)]
    <3>1. /\ HeaderSize + i - 1 \in 0 .. expected_length - 1
          /\ consumed - rx_position + (HeaderSize + i - 1) + 1
                = consumed - rx_position + (HeaderSize + i)
      BY <1>2
    <3> QED
      BY <1>9, <3>1
  <2> QED
    BY <1>8, <2>1 DEF BodyOf, FrameBody
<1>12. ASSUME ParseError(FrameBody(rx_buffer')) = "NONE"
       PROVE  command_packet_buffer' = [command |-> FrameBody(rx_buffer')[1],
                                        args    |-> ArgumentsOf(FrameBody(rx_buffer'))]
  BY <1>1, <1>12 DEF ParsedPacket, ParseError
<1> QED
  BY <1>5, <1>7, <1>8, <1>10, <1>11, <1>12

-----------------------------------------------------------------------------

(***************************************************************************)
(* The inductive invariant.  CallsCutFromStream and NoStaleArguments are   *)
(* not inductive without BufferHoldsTail: only it says that what stands in *)
(* rx_buffer when a frame completes is the stretch of the stream behind    *)
(* the last frame.                                                         *)
(***************************************************************************)
IInv == TypeOK /\ BufferHoldsTail /\ CallsCutFromStream /\ NoStaleArguments

(***************************************************************************)
(* The calls made so far stand as they are when a step makes no call, the  *)
(* stream grows or stays, and the boundary behind which the frame being    *)
(* assembled lies does not move back.                                      *)
(***************************************************************************)
LEMMA CallsKept ==
    ASSUME IInv, calls' = calls, consumed' - rx_position' >= consumed - rx_position,
           consumed' \in Nat, rx_position' \in Nat,
           \A i \in 1 .. Len(stream) : stream'[i] = stream[i]
    PROVE  CallsCutFromStream' /\ NoStaleArguments'
<1>1. /\ TypeOK /\ Len(calls) \in Nat /\ Len(stream) \in Nat
      /\ consumed \in Nat /\ rx_position \in Nat /\ consumed <= Len(stream)
  BY Numbers DEF IInv
<1>2. ASSUME NEW n \in 1 .. Len(calls)
      PROVE  /\ IsFrame(calls[n])' /\ BodyOf(calls[n])' = BodyOf(calls[n])
             /\ calls[n].end \in Nat /\ calls[n].end <= consumed - rx_position
  <2>1. calls[n] \in CallRecords
    BY <1>1, ElementOfSeq DEF TypeOK
  <2>2. IsFrame(calls[n]) /\ calls[n].end <= consumed - rx_position
    BY DEF IInv, CallsCutFromStream
  <2>3. calls[n].end \in Nat /\ calls[n].end <= Len(stream)
    BY <1>1, <2>1, <2>2 DEF CallRecords
  <2> QED
    BY <1>1, <2>1, <2>2, <2>3, SliceKept
<1>3. ASSUME NEW n \in 1 .. Len(calls)
      PROVE  calls'[n].end <= consumed' - rx_position'
  <2>1. calls'[n].end = calls[n].end
    OBVIOUS
  <2>2. calls[n].end \in Nat /\ calls[n].end <= consumed - rx_position
    BY <1>2
  <2>3. consumed - rx_position \in Int /\ consumed' - rx_position' \in Int
    BY <1>1
  <2> QED
    BY <2>1, <2>2, <2>3
<1>4. CallsCutFromStream'
  BY <1>2, <1>3 DEF IInv, CallsCutFromStream
<1>5. NoStaleArguments'
  BY <1>2 DEF IInv, NoStaleArguments
<1> QED
  BY <1>4, <1>5

(***************************************************************************)
(* A complete frame adds one call, cut off the stream right where the      *)
(* frame being assembled began.                                            *)
(***************************************************************************)
LEMMA CallAdded ==
    ASSUME IInv, ReceiveFrame
    PROVE  CallsCutFromStream' /\ NoStaleArguments'
<1> DEFINE c == [end |-> consumed', length |-> expected_length,
                 packet |-> command_packet_buffer',
                 error |-> ParseError(FrameBody(rx_buffer'))]
<1>1. /\ TypeOK /\ BufferHoldsTail /\ Len(calls) \in Nat
      /\ consumed \in Nat /\ rx_position \in Nat /\ consumed <= Len(stream)
  BY Numbers DEF IInv
<1>2. /\ calls' = Append(calls, c) /\ c \in CallRecords
      /\ IsFrame(c)
      /\ c.end - c.length = consumed - rx_position
      /\ c.error = ParseError(BodyOf(c))
      /\ c.error = "NONE" => /\ c.packet.command = BodyOf(c)[1]
                             /\ c.packet.args = ArgumentsOf(BodyOf(c))
  BY <1>1, NewCall
<1>3. /\ stream' = stream /\ rx_position' = 0 /\ c.end = consumed' /\ c.end \in Nat
      /\ c.length \in Nat
  BY <1>2 DEF ReceiveFrame, Complete, HandleFrame, CallRecords
<1> HIDE DEF c
<1>4. /\ Len(calls') = Len(calls) + 1
      /\ \A n \in 1 .. Len(calls) : calls'[n] = calls[n]
      /\ calls'[Len(calls) + 1] = c
  BY <1>1, <1>2, AppendProperties DEF TypeOK
<1>5. ASSUME NEW n \in 1 .. Len(calls)
      PROVE  /\ calls[n] \in CallRecords /\ calls[n].end \in Nat
             /\ IsFrame(calls[n]) /\ calls[n].end <= consumed - rx_position
  <2>1. calls[n] \in CallRecords
    BY <1>1, ElementOfSeq DEF TypeOK
  <2> QED
    BY <2>1 DEF IInv, CallsCutFromStream, CallRecords
<1>6. consumed - rx_position <= consumed'
  BY <1>1, <1>2, <1>3
<1>7. ASSUME NEW n \in 1 .. Len(calls')
      PROVE  IsFrame(calls[n])' /\ calls'[n].end <= consumed' - rx_position'
  <2>1. CASE n = Len(calls) + 1
    BY <1>2, <1>3, <1>4, <2>1 DEF IsFrame
  <2>2. CASE n # Len(calls) + 1
    <3>1. n \in 1 .. Len(calls)
      BY <1>1, <1>4, <2>2
    <3>2. calls[n].end <= consumed'
      BY <1>1, <1>3, <1>5, <1>6, <3>1
    <3>3. calls'[n] = calls[n]
      BY <1>4, <3>1
    <3> QED
      BY <1>3, <1>5, <3>1, <3>2, <3>3 DEF IsFrame
  <2> QED
    BY <2>1, <2>2
<1>8. ASSUME NEW m \in 1 .. Len(calls'), NEW n \in 1 .. Len(calls'), m < n
      PROVE  calls'[m].end <= calls'[n].end - calls'[n].length
  <2>1. m \in 1 .. Len(calls) /\ calls'[m] = calls[m]
    BY <1>1, <1>4, <1>8
  <2>2. CASE n = Len(calls) + 1
    BY <1>2, <1>4, <1>5, <2>1, <2>2
  <2>3. CASE n # Len(calls) + 1
    <3>1. n \in 1 .. Len(calls) /\ calls'[n] = calls[n]
      BY <1>1, <1>4, <2>3
    <3> QED
      BY <1>8, <2>1, <3>1 DEF IInv, CallsCutFromStream
  <2> QED
    BY <2>2, <2>3
<1>9. CallsCutFromStream'
  BY <1>7, <1>8 DEF CallsCutFromStream
<1>10. ASSUME NEW n \in 1 .. Len(calls')
       PROVE  /\ calls'[n].error = ParseError(BodyOf(calls'[n]))
              /\ calls'[n].error = "NONE" =>
                    /\ calls'[n].packet.command = BodyOf(calls'[n])[1]
                    /\ calls'[n].packet.args = ArgumentsOf(BodyOf(calls'[n]))
  <2>1. CASE n = Len(calls) + 1
    BY <1>2, <1>4, <2>1
  <2>2. CASE n # Len(calls) + 1
    <3>1. n \in 1 .. Len(calls) /\ calls'[n] = calls[n]
      BY <1>1, <1>4, <2>2
    <3> QED
      BY <3>1 DEF IInv, NoStaleArguments
  <2> QED
    BY <2>1, <2>2
<1>11. ASSUME NEW n PROVE BodyOf(calls[n])' = BodyOf(calls'[n])
  BY <1>3 DEF BodyOf
<1>12. NoStaleArguments'
  BY <1>10, <1>11 DEF NoStaleArguments
<1> QED
  BY <1>9, <1>12

(***************************************************************************)
(* Reading keeps the invariant, whatever is read.                          *)
(***************************************************************************)
LEMMA ReadKeepsInv ==
    ASSUME IInv, NEW chunk \in Seq(Byte) \ {<<>>}, Read(chunk)
    PROVE  IInv'
<1>1. TypeOK' /\ BufferHoldsTail'
  BY ReadKeepsTypes, ReadKeepsTail DEF IInv
<1>2. /\ consumed \in Nat /\ rx_position \in Nat
      /\ calls' = calls /\ consumed' = consumed /\ rx_position' = rx_position
  BY Numbers DEF IInv, Read
<1>3. \A i \in 1 .. Len(stream) : stream'[i] = stream[i]
  BY ReadFacts DEF IInv
<1>4. CallsCutFromStream' /\ NoStaleArguments'
  BY <1>2, <1>3, CallsKept
<1> QED
  BY <1>1, <1>4 DEF IInv

(***************************************************************************)
(* The inductive step: every action keeps the invariant.                   *)
(***************************************************************************)
LEMMA InvPreserved == IInv /\ [Next]_vars => IInv'
<1> SUFFICES ASSUME IInv, [Next]_vars PROVE IInv'
  OBVIOUS
<1> USE DEF port
<1>1. TypeOK' /\ BufferHoldsTail'
  BY TypePreserved, TailPreserved DEF IInv
<1>2. /\ TypeOK /\ consumed \in Nat /\ rx_position \in Nat /\ HeaderSize = 3
      /\ consumed' \in Nat /\ rx_position' \in Nat
  BY <1>1, Numbers DEF IInv, TypeOK
<1> SUFFICES CallsCutFromStream' /\ NoStaleArguments'
  BY <1>1 DEF IInv
<1>3. ASSUME NEW chunk \in Chunks, Read(chunk)
      PROVE  CallsCutFromStream' /\ NoStaleArguments'
  BY <1>3, ChunkAssumption, ReadKeepsInv DEF IInv
<1>4. ASSUME stream' = stream, calls' = calls,
             consumed' - rx_position' >= consumed - rx_position
      PROVE  CallsCutFromStream' /\ NoStaleArguments'
  BY <1>2, <1>4, CallsKept
<1>5. CASE DiscardByte
  BY <1>2, <1>4, <1>5 DEF DiscardByte
<1>6. CASE FindStart
  BY <1>2, <1>4, <1>6 DEF FindStart
<1>7. CASE StoreLength
  BY <1>2, <1>4, <1>7 DEF StoreLength
<1>8. CASE RejectLength
  BY <1>2, <1>4, <1>8 DEF RejectLength
<1>9. CASE ReceivePart
  <2>1. CopyCount \in Nat
    BY <1>2, <1>9, CopyFacts DEF ReceivePart, received_data_length
  <2> QED
    BY <1>2, <1>4, <1>9, <2>1 DEF ReceivePart
<1>10. CASE ReceiveFrame
  BY <1>10, CallAdded
<1>11. CASE UNCHANGED vars
  BY <1>2, <1>4, <1>11 DEF vars
<1> QED
  BY <1>3, <1>5, <1>6, <1>7, <1>8, <1>9, <1>10, <1>11 DEF Next, Step, Silence

(***************************************************************************)
(* The invariant holds initially: nothing received, nothing called.        *)
(***************************************************************************)
LEMMA InvInitially == Init => IInv
<1> SUFFICES ASSUME Init PROVE IInv
  OBVIOUS
<1>1. TypeOK
  BY TypeInitially
<1>2. consumed = 0 /\ rx_position = 0 /\ Len(calls) = 0 /\ HeaderSize = 3
  BY EmptySeq DEF Init, HeaderSize
<1>3. BufferHoldsTail
  BY <1>2 DEF BufferHoldsTail
<1>4. CallsCutFromStream /\ NoStaleArguments
  BY <1>2 DEF CallsCutFromStream, NoStaleArguments
<1> QED
  BY <1>1, <1>3, <1>4 DEF IInv

(***************************************************************************)
(* The invariant holds for every buffer size, table and input.             *)
(***************************************************************************)
THEOREM InvariantHolds == Spec => []IInv
<1> QED
  BY InvInitially, InvPreserved, PTL DEF Spec

(***************************************************************************)
(* What is being assembled is always the tail of the consumed bytes.       *)
(***************************************************************************)
THEOREM TailHeld == Spec => []BufferHoldsTail
<1>1. IInv => BufferHoldsTail
  BY DEF IInv
<1> QED
  BY <1>1, InvariantHolds, PTL

(***************************************************************************)
(* Every callback stands for a well-formed frame of the stream, in order   *)
(* and without overlap.                                                    *)
(***************************************************************************)
THEOREM FramesCutFromStream == Spec => []CallsCutFromStream
<1>1. IInv => CallsCutFromStream
  BY DEF IInv
<1> QED
  BY <1>1, InvariantHolds, PTL

(***************************************************************************)
(* No accepted packet holds anything but the bytes of its own frame.       *)
(***************************************************************************)
THEOREM ArgumentsFresh == Spec => []NoStaleArguments
<1>1. IInv => NoStaleArguments
  BY DEF IInv
<1> QED
  BY <1>1, InvariantHolds, PTL

(***************************************************************************)
(* The text at the end of an accepted packet is terminated: a frame has    *)
(* one argument byte less than the union, and what is behind its arguments *)
(* is zero.                                                                *)
(***************************************************************************)
LEMMA TextIsTerminated == ASSUME IInv PROVE TextsTerminated
<1> SUFFICES ASSUME NEW n \in 1 .. Len(calls), calls[n].error = "NONE"
             PROVE  calls[n].packet.args[MAX_PAYLOAD_SIZE - 1] = 0
  BY DEF TextsTerminated
<1>1. /\ MAX_FRAME_SIZE \in Nat /\ MAX_FRAME_SIZE > HeaderSize /\ HeaderSize = 3
      /\ calls[n] \in CallRecords
  BY Numbers, ElementOfSeq DEF IInv, TypeOK
<1>2. /\ calls[n].packet.args = ArgumentsOf(BodyOf(calls[n]))
      /\ IsFrame(calls[n])
  BY DEF IInv, NoStaleArguments, CallsCutFromStream
<1>3. /\ calls[n].length \in Nat /\ HeaderSize <= calls[n].length
      /\ calls[n].length <= MAX_FRAME_SIZE
  BY <1>1, <1>2 DEF IsFrame, CallRecords
<1>4. Len(BodyOf(calls[n])) = calls[n].length - HeaderSize
  <2>1. calls[n].length - HeaderSize \in Nat
    BY <1>1, <1>3
  <2>2. BodyOf(calls[n]) \in
           [1 .. calls[n].length - HeaderSize ->
              {stream[calls[n].end - calls[n].length + (HeaderSize + i)] :
                  i \in 1 .. calls[n].length - HeaderSize}]
    BY DEF BodyOf
  <2> QED
    BY <2>1, <2>2, FunctionIsSeq
<1>5. /\ MAX_PAYLOAD_SIZE - 1 \in ArgIndex
      /\ ~((MAX_PAYLOAD_SIZE - 1) + 2 <= Len(BodyOf(calls[n])))
  BY <1>1, <1>3, <1>4 DEF ArgIndex, MAX_PAYLOAD_SIZE
<1> QED
  BY <1>2, <1>5 DEF ArgumentsOf

(***************************************************************************)
(* No text of an accepted packet runs on behind its packet.                *)
(***************************************************************************)
THEOREM TextsEnd == Spec => []TextsTerminated
<1> QED
  BY TextIsTerminated, InvariantHolds, PTL

-----------------------------------------------------------------------------

(***************************************************************************)
(* A turn of the loop consumes a byte or gives up a header, or leaves the  *)
(* whole state alone.                                                      *)
(***************************************************************************)
THEOREM Progress == Spec => CallsMakeProgress
<1>1. ASSUME TypeOK, Step, vars' # vars
      PROVE  \/ consumed < consumed'
             \/ consumed = consumed' /\ rx_position' < rx_position
  <2>1. /\ consumed \in Nat /\ rx_position \in Nat /\ HeaderSize = 3
        /\ DOMAIN rx_buffer = 0 .. MAX_FRAME_SIZE - 1
        /\ rx_buffer \in [0 .. MAX_FRAME_SIZE - 1 -> Byte]
    BY <1>1, Numbers DEF TypeOK
  <2>2. CASE DiscardByte \/ FindStart \/ StoreLength
    BY <2>1, <2>2 DEF DiscardByte, FindStart, StoreLength
  <2>3. CASE RejectLength
    BY <2>1, <2>3 DEF RejectLength, port
  <2>4. ASSUME CopyCount = 0 PROVE Filled(CopyCount) = rx_buffer
    BY <2>1, <2>4 DEF Filled
  <2>5. CASE ReceivePart
    <3>1. CopyCount \in Nat /\ consumed' = consumed + CopyCount
      BY <1>1, <2>5, CopyFacts DEF ReceivePart, received_data_length
    <3>2. CopyCount # 0
      BY <1>1, <2>1, <2>4, <2>5 DEF ReceivePart, vars
    <3> QED
      BY <2>1, <3>1, <3>2
  <2>6. CASE ReceiveFrame
    <3>1. CopyCount \in Nat /\ consumed' = consumed + CopyCount
      BY <1>1, <2>6, CopyFacts DEF ReceiveFrame, Complete, HandleFrame, received_data_length
    <3> QED
      BY <2>1, <2>6, <3>1 DEF ReceiveFrame, Complete, HandleFrame
  <2> QED
    BY <1>1, <2>2, <2>3, <2>5, <2>6 DEF Step
<1>2. TypeOK /\ [Next]_vars =>
        [Step => \/ consumed < consumed'
                 \/ consumed = consumed' /\ rx_position' < rx_position]_vars
  BY <1>1
<1> QED
  BY <1>2, TypeCorrect, PTL DEF Spec, CallsMakeProgress

-----------------------------------------------------------------------------

(***************************************************************************)
(* The instance speaks of the same protocol: its frame geometry and its    *)
(* parser are those of CompanionCommands.                                  *)
(***************************************************************************)
LEMMA SameCommands ==
    /\ Framing!HeaderSize = HeaderSize
    /\ Framing!Packets = Packets
    /\ \A data : Framing!ParseError(data) = ParseError(data)
    /\ \A data, p : Framing!ParsedPacket(data, p) = ParsedPacket(data, p)
<1>1. Framing!HeaderSize = HeaderSize
  BY DEF Framing!HeaderSize, HeaderSize
<1>2. Framing!ArgIndex = ArgIndex
  BY <1>1 DEF Framing!ArgIndex, ArgIndex, Framing!MAX_PAYLOAD_SIZE, MAX_PAYLOAD_SIZE
<1>3. Framing!Packets = Packets
  BY <1>2 DEF Framing!Packets, Packets, Framing!Byte, Byte
<1>4. ASSUME NEW data PROVE Framing!ParseError(data) = ParseError(data)
  BY DEF Framing!ParseError, ParseError, Framing!Known, Known,
         Framing!LengthAllowed, LengthAllowed
<1>5. ASSUME NEW data, NEW p PROVE Framing!ParsedPacket(data, p) = ParsedPacket(data, p)
  <2>1. Framing!ArgumentsOf(data) = ArgumentsOf(data) /\ Framing!NoArguments = NoArguments
    BY <1>2 DEF Framing!ArgumentsOf, ArgumentsOf, Framing!NoArguments, NoArguments
  <2> QED
    BY <1>4, <2>1 DEF Framing!ParsedPacket, ParsedPacket
<1> QED
  BY <1>1, <1>3, <1>4, <1>5

(***************************************************************************)
(* The header at the boundary, as CompanionFraming reads it off the        *)
(* stream, is the one in rx_buffer.                                        *)
(***************************************************************************)
LEMMA HeaderAtCut ==
    ASSUME IInv, rx_position >= HeaderSize
    PROVE  /\ Framing!ByteAt(0) = StartByte
           /\ Framing!FrameSize = HeaderSize + AnnouncedLength
           /\ Framing!Received(HeaderSize)
<1>1. /\ consumed \in Nat /\ rx_position \in Nat /\ HeaderSize = 3 /\ rx_position <= consumed
      /\ consumed <= Len(stream) /\ Len(stream) \in Nat
      /\ rx_buffer[0] = StartByte
      /\ \A i \in 0 .. rx_position - 1 :
            rx_buffer[i] = stream[consumed - rx_position + i + 1]
  BY Numbers DEF IInv, BufferHoldsTail
<1>2. ASSUME NEW i \in {0, 1, 2} PROVE Framing!ByteAt(i) = rx_buffer[i]
  <2>1. i \in 0 .. rx_position - 1 /\ consumed - rx_position + 1 + i = consumed - rx_position + i + 1
    BY <1>1
  <2> QED
    BY <1>1, <2>1 DEF Framing!ByteAt
<1>3. Framing!FrameSize = HeaderSize + AnnouncedLength
  <2>1. 1 \in 0 .. MAX_FRAME_SIZE - 1 /\ 2 \in 0 .. MAX_FRAME_SIZE - 1
    BY FrameAssumption DEF HeaderSize
  <2>2. rx_buffer[1] \in Byte /\ rx_buffer[2] \in Byte
    BY <2>1 DEF IInv, TypeOK
  <2>3. rx_buffer[1] \in Nat /\ rx_buffer[2] \in Nat /\ Radix \in Nat
    BY <2>2, ByteAssumption DEF Byte
  <2>4. Radix * rx_buffer[2] \in Nat
    BY <2>3
  <2>5. Framing!ByteAt(1) = rx_buffer[1] /\ Framing!ByteAt(2) = rx_buffer[2]
    BY <1>2
  <2>6. Framing!FrameSize = HeaderSize + rx_buffer[1] + Radix * rx_buffer[2]
    BY <2>5, SameCommands DEF Framing!FrameSize
  <2> QED
    BY <2>3, <2>4, <2>6 DEF AnnouncedLength, HeaderSize
<1> QED
  BY <1>1, <1>2, <1>3 DEF Framing!Received

(***************************************************************************)
(* A complete frame is delivered.                                          *)
(***************************************************************************)
LEMMA FrameDelivered == ASSUME IInv, ReceiveFrame PROVE Framing!Deliver
<1> DEFINE c == [end |-> consumed', length |-> expected_length,
                 packet |-> command_packet_buffer',
                 error |-> ParseError(FrameBody(rx_buffer'))]
<1>1. /\ rx_position >= HeaderSize /\ InCall /\ expected_length <= MAX_FRAME_SIZE
      /\ rx_position + CopyCount = expected_length
      /\ consumed' = consumed + CopyCount /\ stream' = stream /\ rx_position' = 0
      /\ rx_buffer' = Filled(CopyCount)
      /\ command_packet_buffer' = ParsedPacket(FrameBody(rx_buffer'), command_packet_buffer)
      /\ calls' = Append(calls, c)
  BY DEF ReceiveFrame, Complete, HandleFrame
<1>2. /\ TypeOK /\ consumed \in Nat /\ rx_position \in Nat /\ HeaderSize = 3
      /\ expected_length \in Nat /\ rx_position <= consumed
      /\ command_packet_buffer' \in Packets
  BY Numbers, ReceiveFrameTypes DEF IInv, BufferHoldsTail
<1>3. /\ CopyCount \in Nat /\ consumed + CopyCount <= Len(stream) /\ Len(stream) \in Nat
      /\ rx_buffer' \in [0 .. MAX_FRAME_SIZE - 1 -> Byte]
  BY <1>1, <1>2, CopyFacts, Numbers DEF received_data_length
<1>4. expected_length = HeaderSize + AnnouncedLength /\ HeaderSize <= expected_length
  BY <1>1, <1>2, <1>3, HeaderRange
<1>5. /\ Framing!ByteAt(0) = StartByte /\ Framing!Received(HeaderSize)
      /\ Framing!FrameSize = expected_length
  BY <1>1, <1>4, HeaderAtCut
<1>6. consumed - rx_position + expected_length = consumed'
  BY <1>1, <1>2, <1>3
<1>7. Framing!Received(Framing!FrameSize)
  BY <1>1, <1>3, <1>5, <1>6 DEF Framing!Received
<1>8. /\ FrameBody(rx_buffer') \in Seq(Byte)
      /\ Len(FrameBody(rx_buffer')) = expected_length - HeaderSize
  BY <1>1, <1>2, <1>3, <1>4, BodyFacts
<1>9. Framing!Body = FrameBody(rx_buffer')
  <2>1. /\ BodyOf(c) = FrameBody(rx_buffer') /\ c.length = expected_length
        /\ c.end - c.length = consumed - rx_position
    BY NewCall DEF IInv
  <2>2. ASSUME NEW i \in 1 .. expected_length - HeaderSize
        PROVE  consumed - rx_position + (HeaderSize + i)
                  = consumed - rx_position + 1 + (HeaderSize + i - 1)
    BY <1>2
  <2>3. BodyOf(c) = [i \in 1 .. expected_length - HeaderSize |->
                        stream[consumed - rx_position + 1 + (HeaderSize + i - 1)]]
    BY <2>1, <2>2 DEF BodyOf
  <2> QED
    BY <1>5, <2>1, <2>3, SameCommands DEF Framing!Body, Framing!ByteAt
<1>10. c \in Framing!Deliveries(Framing!Body)
  <2> DEFINE body == FrameBody(rx_buffer')
  <2>1. consumed' = consumed - rx_position + HeaderSize + Len(body)
        /\ expected_length = HeaderSize + Len(body)
    BY <1>2, <1>6, <1>8
  <2>2. command_packet_buffer' \in IF body = <<>> THEN Packets ELSE {ParsedPacket(body, 0)}
    <3>1. CASE body = <<>>
      BY <1>2, <3>1
    <3>2. CASE body # <<>>
      <4>1. ~(Len(body) < 1)
        BY <1>8, <3>2, EmptySeq
      <4> QED
        BY <1>1, <3>2, <4>1 DEF ParsedPacket
    <3> QED
      BY <3>1, <3>2
  <2> QED
    BY <1>9, <2>1, <2>2, SameCommands DEF Framing!Deliveries
<1>11. consumed' - rx_position' = consumed - rx_position + Framing!FrameSize
  BY <1>1, <1>2, <1>3, <1>5, <1>6
<1> QED
  BY <1>1, <1>5, <1>7, <1>10, <1>11, SameCommands DEF Framing!Deliver

(***************************************************************************)
(* A turn of the loop hands over the next frame, passes over bytes where   *)
(* no frame can start, or is invisible.                                    *)
(***************************************************************************)
LEMMA StepFramed ==
    ASSUME IInv, Step
    PROVE  \/ Framing!PassNoise \/ Framing!PassHeader \/ Framing!Deliver
           \/ UNCHANGED Framing!vars
<1> USE DEF port
<1>1. /\ TypeOK /\ consumed \in Nat /\ rx_position \in Nat /\ HeaderSize = 3
      /\ Len(stream) \in Nat /\ consumed <= Len(stream) /\ rx_position <= consumed
      /\ expected_length \in Nat /\ MAX_FRAME_SIZE > 3 /\ MAX_FRAME_SIZE \in Nat
  BY Numbers DEF IInv, BufferHoldsTail
<1>3. ASSUME stream' = stream, calls' = calls,
             consumed' - rx_position' = consumed - rx_position
      PROVE  UNCHANGED Framing!vars
  BY <1>3 DEF Framing!vars
<1>4. CASE DiscardByte
  <2>1. /\ consumed - rx_position + 1 <= Len(stream)
        /\ consumed - rx_position + 1 + 0 = consumed + 1
        /\ consumed' - rx_position' = consumed - rx_position + 1
    BY <1>1, <1>4 DEF DiscardByte, InCall, received_data_length
  <2> QED
    BY <1>4, <2>1 DEF DiscardByte, received_byte,
                      Framing!PassNoise, Framing!Received, Framing!ByteAt
<1>5. CASE FindStart
  BY <1>1, <1>3, <1>5 DEF FindStart
<1>6. CASE StoreLength
  BY <1>1, <1>3, <1>6 DEF StoreLength
<1>7. CASE RejectLength
  <2>1. rx_position = HeaderSize /\ expected_length > MAX_FRAME_SIZE
    BY <1>1, <1>7 DEF RejectLength, IInv, BufferHoldsTail
  <2>2. expected_length = HeaderSize + AnnouncedLength
    BY <1>1, <2>1, HeaderRange
  <2> QED
    BY <1>1, <1>7, <2>1, <2>2, HeaderAtCut, SameCommands DEF RejectLength, Framing!PassHeader
<1>8. CASE ReceivePart
  <2>1. CopyCount \in Nat
    BY <1>1, <1>8, CopyFacts DEF ReceivePart, received_data_length
  <2> QED
    BY <1>1, <1>3, <1>8, <2>1 DEF ReceivePart
<1>9. CASE ReceiveFrame
  BY <1>9, FrameDelivered
<1> QED
  BY <1>4, <1>5, <1>6, <1>7, <1>8, <1>9 DEF Step

(***************************************************************************)
(* The reader implements CompanionFraming: every step of the loop hands    *)
(* over the next frame, passes over bytes where no frame can start,        *)
(* receives bytes, or is invisible.                                        *)
(***************************************************************************)
THEOREM Refinement == Spec => ImplementsFraming
<1>1. Init => Framing!Init
  BY DEF Init, Framing!Init
<1>2. IInv /\ [Next]_vars => [Framing!Next]_(Framing!vars)
  <2> SUFFICES ASSUME IInv, [Next]_vars PROVE [Framing!Next]_(Framing!vars)
    OBVIOUS
  <2>1. ASSUME NEW chunk \in Chunks, Read(chunk) PROVE Framing!Receive
    BY <2>1 DEF Read, Framing!Receive
  <2>2. CASE Step
    BY <2>2, StepFramed DEF Framing!Next
  <2>3. CASE UNCHANGED vars
    BY <2>3 DEF vars, Framing!vars
  <2> QED
    BY <2>1, <2>2, <2>3 DEF Next, Silence, Framing!Next
<1> QED
  BY <1>1, <1>2, InvariantHolds, PTL DEF Spec, ImplementsFraming, Framing!Spec

-----------------------------------------------------------------------------

(***************************************************************************)
(* A set of naturals has a least element; so what holds of a position if   *)
(* it holds of all behind it holds of all.                                 *)
(***************************************************************************)
LEMMA LeastNatural ==
    ASSUME NEW T, T \subseteq Nat, T # {}
    PROVE  \E x \in T : \A y \in T : x <= y
<1> DEFINE R == OpToRel(<, Nat)
<1>1. IsWellFoundedOn(R, Nat)
  BY NatLessThanWellFounded
<1>2. \A x, y \in Nat : x < y => <<x, y>> \in R
  BY DEF OpToRel
<1> HIDE DEF R
<1>3. PICK x \in T : \A y \in T : ~ (<<y, x>> \in R)
  BY <1>1, WFMin
<1>4. \A y \in T : x \in Nat /\ y \in Nat
  OBVIOUS
<1>5. \A y \in T : ~ (y < x)
  BY <1>2, <1>3, <1>4
<1> QED
  BY <1>4, <1>5

LEMMA FromTheEnd ==
    ASSUME NEW n \in Nat, NEW S,
           \A k \in 0 .. n : (\A j \in k + 1 .. n : j \in S) => k \in S
    PROVE  0 .. n \subseteq S
<1> DEFINE T == {m \in 0 .. n : n - m \notin S}
<1>1. ASSUME T # {} PROVE FALSE
  <2>1. T \subseteq Nat
    OBVIOUS
  <2>2. PICK x \in T : \A y \in T : x <= y
    BY <1>1, <2>1, LeastNatural
  <2>3. x \in 0 .. n /\ n - x \notin S /\ n - x \in 0 .. n
    OBVIOUS
  <2>4. ASSUME NEW j \in (n - x) + 1 .. n PROVE j \in S
    <3>1. n - j \in 0 .. n /\ ~(x <= n - j) /\ n - (n - j) = j
      BY ONLY <2>3, <2>4, n \in Nat
    <3>2. n - j \notin T
      BY <2>2, <3>1
    <3> QED
      BY <3>1, <3>2
  <2> QED
    BY <2>3, <2>4
<1>2. ASSUME NEW k \in 0 .. n PROVE k \in S
  <2>1. n - k \in 0 .. n /\ n - (n - k) = k
    OBVIOUS
  <2> QED
    BY <1>1, <2>1
<1> QED
  BY <1>2

(***************************************************************************)
(* What is looked at to tell the frames from a position on: the frames     *)
(* from positions behind it, none of them past the end.                    *)
(***************************************************************************)
Behind(s, k, ends, others) ==
    /\ (\A j \in k + 1 .. Len(s) : ends[j] = others[j]) =>
          EndsBehind(s, k, ends) = EndsBehind(s, k, others)
    /\ (\A j \in k + 1 .. Len(s) : ends[j] \in Seq(Nat)) =>
          EndsBehind(s, k, ends) \in Seq(Nat)

LEMMA LooksBehind ==
    ASSUME NEW s \in Seq(Byte), NEW k \in 0 .. Len(s), NEW ends, NEW others
    PROVE  Behind(s, k, ends, others)
<1>1. Len(s) \in Nat /\ k \in Nat /\ k <= Len(s) /\ HeaderSize = 3 /\ MAX_FRAME_SIZE \in Nat
  BY LenProperties, FrameAssumption DEF HeaderSize
<1> PICK l \in Nat : l = Len(s)
  BY ONLY <1>1
<1>2. <<>> \in Seq(Nat)
  BY ONLY EmptySeq
<1>3. CASE k + 3 > l /\ (k = l \/ s[k + 1] = StartByte)
  BY ONLY <1>1, <1>2, <1>3, l = Len(s) DEF Behind, EndsBehind
<1>4. CASE ~(k + 3 > l /\ (k = l \/ s[k + 1] = StartByte)) /\ s[k + 1] # StartByte
  <2>1. k + 1 \in k + 1 .. l
    BY ONLY <1>1, <1>4, l = Len(s), l \in Nat
  <2>2. \A f : EndsBehind(s, k, f) = f[k + 1]
    BY ONLY <1>1, <1>4, l = Len(s) DEF EndsBehind
  <2> QED
    BY ONLY <2>1, <2>2, l = Len(s) DEF Behind
<1>5. CASE k + 3 <= l /\ s[k + 1] = StartByte
  <2> PICK size : size = SizeIn(s, k)
    OBVIOUS
  <2>1. size \in Nat /\ size >= 3
    <3>1. k + 2 \in 1 .. Len(s) /\ k + 3 \in 1 .. Len(s)
      BY ONLY <1>1, <1>5, l = Len(s)
    <3>2. s[k + 2] \in Byte /\ s[k + 3] \in Byte
      BY ONLY <3>1, s \in Seq(Byte), ElementOfSeq
    <3>3. s[k + 2] \in Nat /\ s[k + 3] \in Nat /\ Radix \in Nat
      BY <3>2, ByteAssumption DEF Byte
    <3>4. Radix * s[k + 3] \in Nat
      BY ONLY <3>3
    <3> PICK a \in Nat, b \in Nat : a = s[k + 2] /\ b = Radix * s[k + 3]
      BY ONLY <3>3, <3>4
    <3>5. size = 3 + a + b
      BY ONLY <1>1, size = SizeIn(s, k), a = s[k + 2], b = Radix * s[k + 3] DEF SizeIn
    <3> QED
      BY ONLY <3>5
  <2>2. ~(k + HeaderSize > Len(s))
    BY ONLY <1>1, <1>5, l = Len(s)
  <2>3. CASE size > MAX_FRAME_SIZE
    <3>1. \A f : EndsBehind(s, k, f) = f[k + 3]
      BY ONLY <1>1, <1>5, <2>2, <2>3, size = SizeIn(s, k) DEF EndsBehind
    <3>2. k + 3 \in k + 1 .. l
      BY ONLY <1>1, <1>5, l \in Nat
    <3> QED
      BY ONLY <3>1, <3>2, l = Len(s) DEF Behind
  <2>4. CASE ~(size > MAX_FRAME_SIZE) /\ k + size > Len(s)
    <3>1. \A f : EndsBehind(s, k, f) = <<>>
      BY ONLY <1>1, <1>5, <2>2, <2>4, size = SizeIn(s, k) DEF EndsBehind
    <3> QED
      BY ONLY <1>2, <3>1 DEF Behind
  <2>5. CASE ~(size > MAX_FRAME_SIZE) /\ ~(k + size > Len(s))
    <3>1. \A f : EndsBehind(s, k, f) = <<k + size>> \o f[k + size]
      BY ONLY <1>1, <1>5, <2>2, <2>5, size = SizeIn(s, k) DEF EndsBehind
    <3>2. k + size \in k + 1 .. l /\ k + size \in Nat
      BY ONLY <1>1, <2>1, <2>5, l = Len(s), l \in Nat
    <3>3. <<k + size>> \in Seq(Nat)
      BY ONLY <3>2
    <3>4. ASSUME NEW t \in Seq(Nat) PROVE <<k + size>> \o t \in Seq(Nat)
      BY ONLY <3>3, <3>4, ConcatProperties
    <3> QED
      BY ONLY <3>1, <3>2, <3>4, l = Len(s) DEF Behind
  <2> QED
    BY ONLY <2>3, <2>4, <2>5
<1> QED
  BY ONLY <1>1, <1>3, <1>4, <1>5, l = Len(s), l \in Nat

(***************************************************************************)
(* The recursive function exists, and obeys its definition.                *)
(***************************************************************************)
LEMMA EndsDefined ==
    ASSUME NEW s \in Seq(Byte)
    PROVE  \A k \in 0 .. Len(s) :
              /\ EndsFrom(s)[k] = EndsBehind(s, k, EndsFrom(s))
              /\ EndsFrom(s)[k] \in Seq(Nat)
<1>1. Len(s) \in Nat
  BY LenProperties
<1> PICK l \in Nat : l = Len(s)
  BY ONLY <1>1
<1> DEFINE Meets(f, k) == \A j \in k .. l : f[j] = EndsBehind(s, j, f)
           S == {k \in 0 .. l : \E f \in [k .. l -> Seq(Nat)] : Meets(f, k)}
<1>2. ASSUME NEW k \in 0 .. l, \A j \in k + 1 .. l : j \in S PROVE k \in S
  <2>1. PICK f \in [k + 1 .. l -> Seq(Nat)] : Meets(f, k + 1)
    <3>1. CASE k = l
      <4>1. k + 1 .. l = {}
        BY ONLY <3>1, l \in Nat
      <4>2. [j \in {} |-> <<>>] \in [k + 1 .. l -> Seq(Nat)]
        BY ONLY <4>1
      <4>3. Meets([j \in {} |-> <<>>], k + 1)
        BY ONLY <4>1
      <4> QED
        BY <4>2, <4>3
    <3>2. CASE k # l
      <4>1. k + 1 \in k + 1 .. l
        BY ONLY <1>2, <3>2, l \in Nat
      <4>2. k + 1 \in S
        BY ONLY <1>2, <4>1
      <4> QED
        BY ONLY <4>2
    <3> QED
      BY <3>1, <3>2
  <2> DEFINE g == [j \in k .. l |-> IF j = k THEN EndsBehind(s, k, f) ELSE f[j]]
  <2>2. ASSUME NEW j \in k + 1 .. l PROVE g[j] = f[j] /\ f[j] \in Seq(Nat) /\ j \in k .. l
    <3>1. j \in k .. l /\ j # k
      BY ONLY <1>2, <2>2, l \in Nat
    <3> QED
      BY ONLY <3>1, <2>2, f \in [k + 1 .. l -> Seq(Nat)]
  <2>3. k \in k .. l /\ g[k] = EndsBehind(s, k, f)
    BY ONLY <1>2, l \in Nat
  <2> HIDE DEF g
  <2>4. g[k] = EndsBehind(s, k, g) /\ g[k] \in Seq(Nat)
    <3>1. Behind(s, k, g, f) /\ Behind(s, k, f, f)
      BY ONLY <1>2, l = Len(s), s \in Seq(Byte), LooksBehind
    <3> QED
      BY ONLY <2>2, <2>3, <3>1, l = Len(s) DEF Behind
  <2>5. ASSUME NEW j \in k + 1 .. l PROVE g[j] = EndsBehind(s, j, g)
    <3>1. \A i \in j + 1 .. l : i \in k + 1 .. l
      BY ONLY <1>2, <2>5, l \in Nat
    <3>2. j \in 0 .. Len(s)
      BY ONLY <1>2, <2>5, l \in Nat, l = Len(s)
    <3>3. Behind(s, j, g, f)
      BY ONLY <3>2, s \in Seq(Byte), LooksBehind
    <3>4. EndsBehind(s, j, g) = EndsBehind(s, j, f)
      BY ONLY <2>2, <3>1, <3>3, l = Len(s) DEF Behind
    <3> QED
      BY <2>1, <2>2, <3>4
  <2>6. \A j \in k .. l : j = k \/ j \in k + 1 .. l
    BY ONLY <1>2, l \in Nat
  <2>7. g \in [k .. l -> Seq(Nat)]
    <3>1. ASSUME NEW j \in k .. l PROVE g[j] \in Seq(Nat)
      BY ONLY <2>2, <2>4, <2>6, <3>1
    <3> QED
      BY ONLY <3>1 DEF g
  <2>8. Meets(g, k)
    BY ONLY <2>4, <2>5, <2>6
  <2> QED
    BY <2>7, <2>8
<1>3. 0 \in S
  <2>1. 0 .. l \subseteq S
    <3> HIDE DEF S
    <3> QED
      BY ONLY <1>2, l \in Nat, FromTheEnd
  <2>2. 0 \in 0 .. l
    BY ONLY l \in Nat
  <2> QED
    BY ONLY <2>1, <2>2
<1>4. \E f : f = [k \in 0 .. Len(s) |-> EndsBehind(s, k, f)]
  <2>1. PICK f \in [0 .. l -> Seq(Nat)] : Meets(f, 0)
    BY <1>3
  <2>2. f = [k \in 0 .. l |-> EndsBehind(s, k, f)]
    BY ONLY <2>1
  <2> QED
    BY ONLY <2>2, l = Len(s)
<1>5. EndsFrom(s) = [k \in 0 .. Len(s) |-> EndsBehind(s, k, EndsFrom(s))]
  BY <1>4 DEF EndsFrom
<1> PICK e : e = EndsFrom(s)
  OBVIOUS
<1>6. \A k \in 0 .. l : e[k] = EndsBehind(s, k, e)
  BY ONLY <1>5, e = EndsFrom(s), l = Len(s)
<1> DEFINE U == {k \in 0 .. l : e[k] \in Seq(Nat)}
<1>7. ASSUME NEW k \in 0 .. l, \A j \in k + 1 .. l : j \in U PROVE k \in U
  <2>1. Behind(s, k, e, e)
    BY ONLY l = Len(s), s \in Seq(Byte), <1>7, LooksBehind
  <2>2. EndsBehind(s, k, e) \in Seq(Nat)
    BY ONLY <1>7, <2>1, l = Len(s) DEF Behind
  <2> QED
    BY ONLY <1>6, <2>2
<1>8. 0 .. l \subseteq U
  <2> HIDE DEF U
  <2> QED
    BY ONLY <1>7, l \in Nat, FromTheEnd
<1> QED
  BY ONLY <1>6, <1>8, e = EndsFrom(s), l = Len(s)

(***************************************************************************)
(* The frames of the bytes received, and of any that may follow, are those *)
(* handed over and those from the frame being assembled on.                *)
(***************************************************************************)
HandedOver(ext) ==
    EndsFrom(stream \o ext)[0] =
       CallEnds \o EndsFrom(stream \o ext)[consumed - rx_position]

AllHandedOver == \A ext \in Seq(Byte) : HandedOver(ext)

(***************************************************************************)
(* The ends of the calls are numbers, and one more call is one end more.   *)
(***************************************************************************)
LEMMA CallEndsTyped == ASSUME TypeOK PROVE CallEnds \in Seq(Nat) /\ Len(CallEnds) = Len(calls)
<1>1. calls \in Seq(CallRecords) /\ Len(calls) \in Nat
  BY LenProperties DEF TypeOK
<1>2. ASSUME NEW n \in 1 .. Len(calls) PROVE calls[n].end \in Nat
  <2>1. calls[n] \in CallRecords
    BY ONLY <1>1, <1>2, ElementOfSeq
  <2> QED
    BY ONLY <2>1 DEF CallRecords
<1>3. CallEnds \in [1 .. Len(calls) -> Nat]
  BY ONLY <1>2 DEF CallEnds
<1> QED
  BY ONLY <1>1, <1>3, FunctionIsSeq

LEMMA OneEndMore ==
    ASSUME TypeOK, NEW d, calls' = Append(calls, d), d.end \in Nat
    PROVE  CallEnds' = CallEnds \o <<d.end>>
<1>1. calls \in Seq(CallRecords) /\ Len(calls) \in Nat
  BY LenProperties DEF TypeOK
<1> DEFINE S == CallRecords \cup {d}
<1>2. calls \in [1 .. Len(calls) -> S]
  BY ONLY <1>1, LenProperties
<1>3. calls \in Seq(S) /\ d \in S
  BY ONLY <1>1, <1>2, FunctionIsSeq
<1>4. /\ Len(calls') = Len(calls) + 1 /\ calls'[Len(calls) + 1] = d
      /\ \A n \in 1 .. Len(calls) : calls'[n] = calls[n]
  BY ONLY <1>3, calls' = Append(calls, d), AppendProperties
<1>5. /\ CallEnds \in Seq(Nat) /\ Len(CallEnds) = Len(calls)
      /\ \A n \in 1 .. Len(calls) : CallEnds[n] = calls[n].end
  BY CallEndsTyped DEF CallEnds
<1> PICK l \in Nat : l = Len(calls)
  BY ONLY <1>1
<1> PICK e \in Nat : e = d.end
  OBVIOUS
<1> PICK v \in Seq(Nat) : v = CallEnds
  BY ONLY <1>5
<1>6. <<e>> \in Seq(Nat) /\ Len(<<e>>) = 1 /\ <<e>>[1] = e
  BY ONLY e \in Nat
<1>7. /\ v \o <<e>> \in Seq(Nat) /\ Len(v \o <<e>>) = l + 1
      /\ \A n \in 1 .. l + 1 : (v \o <<e>>)[n] = IF n <= l THEN v[n] ELSE <<e>>[n - l]
  BY ONLY <1>5, <1>6, v = CallEnds, v \in Seq(Nat), l = Len(calls), ConcatProperties
<1>8. ASSUME NEW n \in 1 .. l + 1 PROVE calls'[n].end = (v \o <<e>>)[n]
  <2>1. CASE n <= l
    <3>1. n \in 1 .. l
      BY ONLY <1>8, <2>1, l \in Nat
    <3> QED
      BY ONLY <1>4, <1>5, <1>7, <1>8, <2>1, <3>1, l = Len(calls), v = CallEnds
  <2>2. CASE ~(n <= l)
    <3>1. n = l + 1 /\ n - l = 1
      BY ONLY <1>8, <2>2, l \in Nat
    <3> QED
      BY ONLY <1>4, <1>6, <1>7, <1>8, <2>2, <3>1, l = Len(calls), e = d.end
  <2> QED
    BY ONLY <2>1, <2>2
<1>9. CallEnds' = [n \in 1 .. l + 1 |-> calls'[n].end]
  BY ONLY <1>4, l = Len(calls) DEF CallEnds
<1>10. CallEnds' \in Seq(Nat) /\ Len(CallEnds') = l + 1
  <2>1. CallEnds' \in [1 .. l + 1 -> Nat]
    <3>1. ASSUME NEW n \in 1 .. l + 1 PROVE calls'[n].end \in Nat
      <4>1. (v \o <<e>>)[n] \in Nat
        BY ONLY <1>7, <3>1, ElementOfSeq
      <4> QED
        BY ONLY <1>8, <3>1, <4>1
    <3> QED
      BY ONLY <1>9, <3>1
  <2>2. l + 1 \in Nat
    BY ONLY l \in Nat
  <2> QED
    BY ONLY <2>1, <2>2, FunctionIsSeq
<1>11. CallEnds' = v \o <<e>>
  <2>1. \A n \in 1 .. l + 1 : CallEnds'[n] = (v \o <<e>>)[n]
    BY ONLY <1>8, <1>9
  <2> QED
    BY ONLY <1>7, <1>10, <2>1, SeqEqual
<1> QED
  BY ONLY <1>11, v = CallEnds, e = d.end

LEMMA EndsAssociate ==
    ASSUME NEW s \in Seq(Nat), NEW t \in Seq(Nat), NEW u \in Seq(Nat)
    PROVE  (s \o t) \o u = s \o (t \o u)
  BY ConcatAssociative, SMTT(30)

(***************************************************************************)
(* A byte received is where it was when more follow.                       *)
(***************************************************************************)
LEMMA ByteStays ==
    ASSUME TypeOK, NEW ext \in Seq(Byte)
    PROVE  /\ stream \o ext \in Seq(Byte)
           /\ Len(stream) \in Nat /\ Len(stream \o ext) \in Nat
           /\ Len(stream) <= Len(stream \o ext)
           /\ \A i \in 1 .. Len(stream) : (stream \o ext)[i] = stream[i]
<1>1. stream \in Seq(Byte) /\ Len(stream) \in Nat /\ Len(ext) \in Nat
  BY LenProperties DEF TypeOK
<1>2. /\ stream \o ext \in Seq(Byte)
      /\ Len(stream \o ext) = Len(stream) + Len(ext)
      /\ \A i \in 1 .. Len(stream) + Len(ext) :
            (stream \o ext)[i] = IF i <= Len(stream) THEN stream[i] ELSE ext[i - Len(stream)]
  BY ONLY <1>1, ext \in Seq(Byte), ConcatProperties
<1>3. \A i \in 1 .. Len(stream) : i \in 1 .. Len(stream) + Len(ext) /\ i <= Len(stream)
  BY ONLY <1>1
<1>4. \A i \in 1 .. Len(stream) : (stream \o ext)[i] = stream[i]
  BY ONLY <1>2, <1>3
<1>5. Len(stream) <= Len(stream) + Len(ext) /\ Len(stream) + Len(ext) \in Nat
  BY ONLY <1>1
<1> QED
  BY ONLY <1>1, <1>2, <1>4, <1>5

(***************************************************************************)
(* What the frames from a header on are, by the size it announces.         *)
(***************************************************************************)
LEMMA EndsAtHeader ==
    ASSUME NEW s \in Seq(Byte), NEW k \in Nat, k + 3 <= Len(s), s[k + 1] = StartByte,
           NEW size \in Nat, size = SizeIn(s, k), size >= 3
    PROVE  /\ size > MAX_FRAME_SIZE => EndsFrom(s)[k] = EndsFrom(s)[k + 3]
           /\ size <= MAX_FRAME_SIZE /\ k + size > Len(s) => EndsFrom(s)[k] = <<>>
           /\ size <= MAX_FRAME_SIZE /\ k + size <= Len(s) =>
                EndsFrom(s)[k] = <<k + size>> \o EndsFrom(s)[k + size]
<1>1. Len(s) \in Nat /\ HeaderSize = 3 /\ MAX_FRAME_SIZE \in Nat
  BY LenProperties, FrameAssumption DEF HeaderSize
<1>2. k \in 0 .. Len(s) /\ ~(k + 3 > Len(s))
  BY ONLY <1>1, k + 3 <= Len(s), k \in Nat
<1>3. EndsFrom(s)[k] = EndsBehind(s, k, EndsFrom(s))
  BY ONLY <1>2, s \in Seq(Byte), EndsDefined
<1>4. /\ size > MAX_FRAME_SIZE <=> ~(size <= MAX_FRAME_SIZE)
      /\ k + size > Len(s) <=> ~(k + size <= Len(s))
  BY ONLY <1>1, size \in Nat, k \in Nat
<1> QED
  BY ONLY <1>1, <1>2, <1>3, <1>4, size = SizeIn(s, k), s[k + 1] = StartByte DEF EndsBehind

(***************************************************************************)
(* A turn of the loop keeps it.                                            *)
(***************************************************************************)
LEMMA StepHandsOver ==
    ASSUME IInv, Step, NEW ext \in Seq(Byte), HandedOver(ext)
    PROVE  HandedOver(ext)'
<1> PICK s : s = stream \o ext
  OBVIOUS
<1> PICK k : k = consumed - rx_position
  OBVIOUS
<1>1. /\ k \in Nat /\ Len(stream) \in Nat /\ HeaderSize = 3 /\ Len(s) \in Nat
      /\ s \in Seq(Byte) /\ Len(stream) <= Len(s)
      /\ \A i \in 1 .. Len(stream) : s[i] = stream[i]
  <2>1. /\ consumed \in Nat /\ rx_position \in Nat /\ HeaderSize = 3 /\ rx_position <= consumed
    BY Numbers DEF IInv, BufferHoldsTail
  <2>2. k \in Nat
    BY ONLY <2>1, k = consumed - rx_position
  <2>3. /\ s \in Seq(Byte) /\ Len(stream) \in Nat /\ Len(s) \in Nat
        /\ Len(stream) <= Len(s)
        /\ \A i \in 1 .. Len(stream) : s[i] = stream[i]
    BY ByteStays, s = stream \o ext DEF IInv
  <2> QED
    BY ONLY <2>1, <2>2, <2>3
<1>2. EndsFrom(s)[0] = CallEnds \o EndsFrom(s)[k]
  BY s = stream \o ext, k = consumed - rx_position DEF HandedOver
<1>3. stream' \o ext = s
  <2>1. stream' = stream
    BY DEF Step, DiscardByte, FindStart, StoreLength, RejectLength, ReceivePart,
           ReceiveFrame, port
  <2> QED
    BY ONLY <2>1, s = stream \o ext
<1>4. ASSUME NEW i \in {0, 1, 2}, k + 1 + i <= Len(stream)
      PROVE  Framing!ByteAt(i) = s[k + (1 + i)]
  <2>1. k + 1 + i = k + (1 + i) /\ k + (1 + i) \in 1 .. Len(stream)
    BY ONLY <1>1, <1>4
  <2>2. Framing!ByteAt(i) = stream[k + 1 + i]
    BY ONLY k = consumed - rx_position DEF Framing!ByteAt
  <2> QED
    BY ONLY <1>1, <2>1, <2>2
<1>5. ASSUME Framing!Received(Framing!HeaderSize), Framing!ByteAt(0) = StartByte
      PROVE  /\ k + 3 <= Len(stream) /\ k + 3 <= Len(s) /\ s[k + 1] = StartByte
             /\ SizeIn(s, k) = Framing!FrameSize
             /\ SizeIn(s, k) \in Nat /\ SizeIn(s, k) >= 3
  <2>1. k + 3 <= Len(stream)
    BY <1>5, SameCommands, <1>1, k = consumed - rx_position DEF Framing!Received
  <2>2. k + 1 + 0 <= Len(stream) /\ k + 1 + 1 <= Len(stream) /\ k + 1 + 2 <= Len(stream)
    BY ONLY <1>1, <2>1
  <2>3. /\ Framing!ByteAt(0) = s[k + (1 + 0)] /\ Framing!ByteAt(1) = s[k + (1 + 1)]
        /\ Framing!ByteAt(2) = s[k + (1 + 2)]
    BY ONLY <1>4, <2>2
  <2>4. /\ Framing!ByteAt(0) = s[k + 1] /\ Framing!ByteAt(1) = s[k + 2]
        /\ Framing!ByteAt(2) = s[k + 3]
    BY ONLY <2>3
  <2>5. SizeIn(s, k) = Framing!FrameSize
    BY <2>4, SameCommands DEF SizeIn, Framing!FrameSize
  <2>6. k + 3 <= Len(s) /\ k + 2 \in 1 .. Len(s) /\ k + 3 \in 1 .. Len(s)
    <3> PICK a \in Nat, b \in Nat : a = Len(stream) /\ b = Len(s)
      BY ONLY <1>1
    <3>1. a <= b /\ k + 3 <= a /\ k \in Nat
      BY ONLY <1>1, <2>1, a = Len(stream), b = Len(s)
    <3> QED
      BY ONLY <3>1, b = Len(s)
  <2>7. s[k + 2] \in Byte /\ s[k + 3] \in Byte
    BY ONLY <1>1, <2>6, ElementOfSeq
  <2>8. s[k + 2] \in Nat /\ s[k + 3] \in Nat /\ Radix \in Nat
    BY ONLY <2>7, ByteAssumption DEF Byte
  <2>9. Radix * s[k + 3] \in Nat
    BY ONLY <2>8
  <2> PICK a \in Nat, b \in Nat : a = s[k + 2] /\ b = Radix * s[k + 3]
    BY ONLY <2>8, <2>9
  <2>10. SizeIn(s, k) = 3 + a + b
    BY ONLY <1>1, a = s[k + 2], b = Radix * s[k + 3] DEF SizeIn
  <2>11. SizeIn(s, k) \in Nat /\ SizeIn(s, k) >= 3
    BY ONLY <2>10
  <2> QED
    BY ONLY <1>5, <2>1, <2>4, <2>5, <2>6, <2>11
<1> PICK to : to = consumed' - rx_position'
  OBVIOUS
<1> SUFFICES EndsFrom(s)[0] = CallEnds' \o EndsFrom(s)[to]
  BY <1>3, to = consumed' - rx_position' DEF HandedOver
<1>6. ASSUME calls' = calls PROVE CallEnds' = CallEnds
  BY <1>6 DEF CallEnds
<1>7. CASE UNCHANGED Framing!vars
  <2>1. calls' = calls /\ to = k
    BY <1>7, to = consumed' - rx_position', k = consumed - rx_position DEF Framing!vars
  <2> QED
    BY ONLY <1>2, <1>6, <2>1
<1>8. CASE Framing!PassNoise
  <2>1. /\ calls' = calls /\ to = k + 1 /\ k + 1 <= Len(stream)
        /\ Framing!ByteAt(0) # StartByte
    BY <1>8, to = consumed' - rx_position', k = consumed - rx_position
       DEF Framing!PassNoise, Framing!Received
  <2>2. k + 1 + 0 <= Len(stream) /\ k + (1 + 0) = k + 1
    BY ONLY <1>1, <2>1
  <2>3. s[k + 1] # StartByte
    BY ONLY <1>4, <2>1, <2>2
  <2>4. k \in 0 .. Len(s) /\ k # Len(s)
    <3> PICK a \in Nat, b \in Nat : a = Len(stream) /\ b = Len(s)
      BY ONLY <1>1
    <3>1. a <= b /\ k + 1 <= a /\ k \in Nat
      BY ONLY <1>1, <2>1, a = Len(stream), b = Len(s)
    <3> QED
      BY ONLY <3>1, b = Len(s)
  <2>5. EndsFrom(s)[k] = EndsBehind(s, k, EndsFrom(s))
    BY ONLY <1>1, <2>4, EndsDefined
  <2>6. EndsFrom(s)[k] = EndsFrom(s)[k + 1]
    BY ONLY <2>3, <2>4, <2>5 DEF EndsBehind
  <2> QED
    BY ONLY <1>2, <1>6, <2>1, <2>6
<1>9. CASE Framing!PassHeader
  <2>1. /\ Framing!Received(Framing!HeaderSize) /\ Framing!ByteAt(0) = StartByte
        /\ Framing!FrameSize > MAX_FRAME_SIZE
        /\ to = k + Framing!HeaderSize /\ calls' = calls
    BY <1>9, to = consumed' - rx_position', k = consumed - rx_position DEF Framing!PassHeader
  <2>2. EndsFrom(s)[k] = EndsFrom(s)[k + 3]
    BY ONLY <1>1, <1>5, <2>1, EndsAtHeader
  <2>3. to = k + 3
    BY ONLY <1>1, <2>1, SameCommands
  <2> QED
    BY ONLY <1>2, <1>6, <2>1, <2>2, <2>3
<1>10. CASE Framing!Deliver
  <2>1. /\ Framing!Received(Framing!HeaderSize) /\ Framing!ByteAt(0) = StartByte
        /\ Framing!FrameSize <= MAX_FRAME_SIZE /\ k + Framing!FrameSize <= Len(stream)
        /\ to = k + Framing!FrameSize
    BY <1>10, to = consumed' - rx_position', k = consumed - rx_position
       DEF Framing!Deliver, Framing!Received
  <2>2. PICK d \in Framing!Deliveries(Framing!Body) : calls' = Append(calls, d)
    BY <1>10 DEF Framing!Deliver
  <2> PICK size \in Nat : size = SizeIn(s, k)
    BY ONLY <1>5, <2>1
  <2>3. size = Framing!FrameSize /\ size >= 3 /\ size <= MAX_FRAME_SIZE
        /\ k + size <= Len(stream) /\ to = k + size
    BY ONLY <1>5, <2>1, size = SizeIn(s, k)
  <2>4. k + size <= Len(s)
    <3> PICK a \in Nat, b \in Nat : a = Len(stream) /\ b = Len(s)
      BY ONLY <1>1
    <3>1. a <= b /\ k + size <= a /\ k \in Nat
      BY ONLY <1>1, <2>3, a = Len(stream), b = Len(s)
    <3> QED
      BY ONLY <3>1, b = Len(s), size \in Nat
  <2>5. EndsFrom(s)[k] = <<k + size>> \o EndsFrom(s)[k + size]
    BY ONLY <1>1, <1>5, <2>1, <2>3, <2>4, size = SizeIn(s, k), size \in Nat, EndsAtHeader
  <2>6. Len(Framing!Body) = size - 3
    <3>1. Framing!Body = [i \in 1 .. size - 3 |-> Framing!ByteAt(3 + i - 1)]
      BY <1>1, <2>3, SameCommands DEF Framing!Body
    <3>2. size - 3 \in Nat
      BY ONLY <2>3, size \in Nat
    <3>3. Framing!Body \in [1 .. size - 3 -> {Framing!ByteAt(3 + i - 1) : i \in 1 .. size - 3}]
      BY ONLY <3>1
    <3> QED
      BY ONLY <3>2, <3>3, FunctionIsSeq
  <2>7. d.end = k + 3 + Len(Framing!Body)
    BY <1>1, SameCommands, k = consumed - rx_position DEF Framing!Deliveries
  <2>8. d.end = k + size /\ d.end \in Nat
    <3>1. k \in Nat
      BY ONLY <1>1
    <3> QED
      BY ONLY <2>6, <2>7, <3>1, size \in Nat
  <2>9. CallEnds' = CallEnds \o <<k + size>>
    BY <2>2, <2>8, OneEndMore DEF IInv
  <2>10. (CallEnds \o <<k + size>>) \o EndsFrom(s)[k + size]
            = CallEnds \o (<<k + size>> \o EndsFrom(s)[k + size])
    <3>1. CallEnds \in Seq(Nat)
      BY CallEndsTyped DEF IInv
    <3>2. <<k + size>> \in Seq(Nat)
      BY ONLY <2>8
    <3>3. EndsFrom(s)[k + size] \in Seq(Nat)
      <4>1. k + size \in 0 .. Len(s)
        BY ONLY <1>1, <2>4, size \in Nat
      <4> QED
        BY ONLY <1>1, <4>1, EndsDefined
    <3> QED
      BY ONLY <3>1, <3>2, <3>3, EndsAssociate
  <2> QED
    BY ONLY <1>2, <2>3, <2>5, <2>9, <2>10
<1> QED
  BY <1>7, <1>8, <1>9, <1>10, StepFramed

(***************************************************************************)
(* Every step keeps it: bytes that are read are bytes that follow.         *)
(***************************************************************************)
LEMMA HandsOverPreserved ==
    IInv /\ AllHandedOver /\ [Next]_vars => AllHandedOver'
<1> SUFFICES ASSUME IInv, AllHandedOver, [Next]_vars, NEW ext \in Seq(Byte)
             PROVE  HandedOver(ext)'
  BY DEF AllHandedOver
<1>1. ASSUME NEW chunk \in Chunks, Read(chunk) PROVE HandedOver(ext)'
  <2>1. /\ stream' = stream \o chunk /\ calls' = calls
        /\ consumed' = consumed /\ rx_position' = rx_position
    BY <1>1 DEF Read
  <2>2. chunk \in Seq(Byte) /\ stream \in Seq(Byte)
    BY ChunkAssumption DEF IInv, TypeOK
  <2>3. chunk \o ext \in Seq(Byte)
    BY ONLY <2>2, ext \in Seq(Byte), ConcatProperties
  <2>4. (stream \o chunk) \o ext = stream \o (chunk \o ext)
    BY ONLY <2>2, ext \in Seq(Byte), BytesAssociate
  <2>5. HandedOver(chunk \o ext)
    BY <2>3 DEF AllHandedOver
  <2>6. CallEnds' = CallEnds /\ stream' \o ext = stream \o (chunk \o ext)
    BY ONLY <2>1, <2>4 DEF CallEnds
  <2> QED
    BY ONLY <2>1, <2>5, <2>6 DEF HandedOver
<1>2. CASE Step
  BY <1>2, StepHandsOver DEF AllHandedOver
<1>3. CASE UNCHANGED vars
  <2>1. /\ stream' = stream /\ consumed' = consumed /\ rx_position' = rx_position
        /\ CallEnds' = CallEnds
    BY <1>3 DEF vars, CallEnds
  <2>2. HandedOver(ext)
    BY DEF AllHandedOver
  <2> QED
    BY ONLY <2>1, <2>2 DEF HandedOver
<1> QED
  BY <1>1, <1>2, <1>3 DEF Next, Silence

LEMMA HandsOverInitially == Init => AllHandedOver
<1> SUFFICES ASSUME Init, NEW ext \in Seq(Byte) PROVE HandedOver(ext)
  BY DEF AllHandedOver
<1>1. stream = <<>> /\ calls = <<>> /\ consumed - rx_position = 0
  BY DEF Init
<1>2. <<>> \o ext \in Seq(Byte)
  BY EmptySeq, ConcatProperties
<1> PICK s \in Seq(Byte) : s = <<>> \o ext
  BY <1>2
<1>3. EndsFrom(s)[0] \in Seq(Nat)
  <2>1. 0 \in 0 .. Len(s)
    BY LenProperties
  <2> QED
    BY ONLY <2>1, s \in Seq(Byte), EndsDefined
<1>4. CallEnds = <<>>
  <2>1. TypeOK
    BY TypeInitially
  <2>2. CallEnds \in Seq(Nat) /\ Len(CallEnds) = Len(calls) /\ Len(calls) = 0
    BY ONLY <1>1, <2>1, CallEndsTyped, EmptySeq
  <2> QED
    BY ONLY <2>2, EmptySeq
<1>5. <<>> \o EndsFrom(s)[0] = EndsFrom(s)[0]
  BY ONLY <1>3, ConcatEmptySeq
<1> QED
  BY ONLY <1>1, <1>4, <1>5, s = <<>> \o ext DEF HandedOver

(***************************************************************************)
(* When a call returns, the frame being assembled is not complete, or is   *)
(* the empty one.                                                          *)
(***************************************************************************)
LEMMA NothingComplete ==
    ASSUME IInv, ~InCall
    PROVE  \/ EndsFrom(stream)[consumed - rx_position] = <<>>
           \/ /\ rx_position = HeaderSize /\ AnnouncedLength = 0
              /\ EndsFrom(stream)[consumed - rx_position] = <<Len(stream)>>
<1> PICK k : k = consumed - rx_position
  OBVIOUS
<1>1. /\ consumed \in Nat /\ rx_position \in Nat /\ rx_position <= consumed
      /\ consumed <= Len(stream) /\ Len(stream) \in Nat /\ HeaderSize = 3
      /\ MAX_FRAME_SIZE \in Nat /\ expected_length \in Nat /\ stream \in Seq(Byte)
  BY Numbers DEF IInv, BufferHoldsTail, TypeOK
<1>2. consumed = Len(stream)
  <2>1. ~(Len(stream) - consumed > 0)
    BY DEF InCall, received_data_length
  <2> QED
    BY ONLY <1>1, <2>1
<1>3. k \in Nat /\ k \in 0 .. Len(stream) /\ k + rx_position = Len(stream)
  BY ONLY <1>1, <1>2, k = consumed - rx_position
<1>4. EndsFrom(stream)[k] = EndsBehind(stream, k, EndsFrom(stream))
  BY ONLY <1>1, <1>3, EndsDefined
<1>5. EndsFrom(stream)[Len(stream)] = <<>>
  <2>1. Len(stream) \in 0 .. Len(stream) /\ Len(stream) + HeaderSize > Len(stream)
    BY ONLY <1>1
  <2>2. EndsFrom(stream)[Len(stream)] = EndsBehind(stream, Len(stream), EndsFrom(stream))
    BY ONLY <1>1, <2>1, EndsDefined
  <2> QED
    BY ONLY <2>1, <2>2 DEF EndsBehind
<1>6. CASE rx_position = 0
  <2>1. k = Len(stream)
    BY ONLY <1>1, <1>3, <1>6
  <2> QED
    BY ONLY <1>5, <2>1, k = consumed - rx_position
<1>7. rx_position > 0 => stream[k + 1] = StartByte
  <2> SUFFICES ASSUME rx_position > 0 PROVE stream[k + 1] = StartByte
    OBVIOUS
  <2>1. rx_buffer[0] = StartByte /\ rx_buffer[0] = stream[consumed - rx_position + 0 + 1]
    <3>1. 0 \in 0 .. rx_position - 1
      BY ONLY <1>1, rx_position > 0
    <3> QED
      BY <3>1 DEF IInv, BufferHoldsTail
  <2>2. consumed - rx_position + 0 + 1 = k + 1
    BY ONLY <1>1, k = consumed - rx_position
  <2> QED
    BY ONLY <2>1, <2>2
<1>8. CASE rx_position > 0 /\ rx_position < 3
  <2>1. k + HeaderSize > Len(stream)
    BY ONLY <1>1, <1>3, <1>8
  <2>2. EndsFrom(stream)[k] = <<>>
    BY ONLY <1>4, <1>7, <1>8, <2>1 DEF EndsBehind
  <2> QED
    BY ONLY <2>2, k = consumed - rx_position
<1>9. CASE rx_position >= 3
  <2>1. k + 3 <= Len(stream) /\ stream[k + 1] = StartByte /\ rx_position >= HeaderSize
    BY ONLY <1>1, <1>3, <1>7, <1>9
  <2>2. SizeIn(stream, k) = Framing!FrameSize
    <3>1. /\ consumed - rx_position + 1 + 1 = k + 2 /\ consumed - rx_position + 1 + 2 = k + 3
      BY ONLY <1>1, k = consumed - rx_position
    <3> QED
      BY <3>1, SameCommands DEF SizeIn, Framing!FrameSize, Framing!ByteAt
  <2>3. Framing!FrameSize = HeaderSize + AnnouncedLength
    BY <2>1, HeaderAtCut
  <2>4. /\ AnnouncedLength \in Nat
        /\ \/ expected_length = HeaderSize + AnnouncedLength
           \/ expected_length < HeaderSize
    <3>1. WordSize \in Nat
      BY WordOfBytes
    <3>2. /\ AnnouncedLength \in 0 .. WordSize - 1
          /\ \/ expected_length = HeaderSize + AnnouncedLength
             \/ expected_length < HeaderSize
      BY HeaderRange DEF IInv
    <3> QED
      BY ONLY <3>1, <3>2
  <2> PICK size \in Nat, a \in Nat : size = SizeIn(stream, k) /\ a = AnnouncedLength
    <3>1. 3 + AnnouncedLength \in Nat
      BY ONLY <2>4
    <3> QED
      BY ONLY <1>1, <2>2, <2>3, <2>4, <3>1
  <2>5. size = 3 + a
    BY ONLY <1>1, <2>2, <2>3, size = SizeIn(stream, k), a = AnnouncedLength
  <2>6. /\ size > MAX_FRAME_SIZE => EndsFrom(stream)[k] = EndsFrom(stream)[k + 3]
        /\ size <= MAX_FRAME_SIZE /\ k + size > Len(stream) => EndsFrom(stream)[k] = <<>>
        /\ size <= MAX_FRAME_SIZE /\ k + size <= Len(stream) =>
             EndsFrom(stream)[k] = <<k + size>> \o EndsFrom(stream)[k + size]
    <3>1. size >= 3
      BY ONLY <2>5, a \in Nat
    <3> QED
      BY ONLY <1>1, <1>3, <2>1, <3>1, size \in Nat, size = SizeIn(stream, k), EndsAtHeader
  <2>7. CASE rx_position > 3
    <3>1. rx_position < expected_length /\ expected_length <= MAX_FRAME_SIZE
      BY <1>1, <2>7 DEF IInv, BufferHoldsTail
    <3>2. expected_length = 3 + a
      BY ONLY <1>1, <2>4, <2>7, <3>1, a = AnnouncedLength
    <3>3. size <= MAX_FRAME_SIZE /\ k + size > Len(stream)
      BY ONLY <1>1, <1>3, <2>5, <3>1, <3>2, size \in Nat
    <3> QED
      BY ONLY <2>6, <3>3, k = consumed - rx_position
  <2>8. CASE rx_position = 3
    <3>1. k + 3 = Len(stream)
      BY ONLY <1>3, <2>8
    <3>2. CASE size > MAX_FRAME_SIZE
      BY ONLY <1>5, <2>6, <3>1, <3>2, k = consumed - rx_position
    <3>3. CASE size <= MAX_FRAME_SIZE /\ k + size > Len(stream)
      BY ONLY <2>6, <3>3, k = consumed - rx_position
    <3>4. CASE size <= MAX_FRAME_SIZE /\ k + size <= Len(stream)
      <4>1. size = 3 /\ a = 0 /\ k + size = Len(stream)
        BY ONLY <1>1, <1>3, <2>5, <3>1, <3>4, size \in Nat, a \in Nat
      <4>2. EndsFrom(stream)[k] = <<Len(stream)>> \o <<>>
        BY ONLY <1>5, <2>6, <3>4, <4>1
      <4>3. <<Len(stream)>> \o <<>> = <<Len(stream)>>
        <5>1. <<Len(stream)>> \in Seq(Nat)
          BY ONLY <1>1
        <5> QED
          BY ONLY <5>1, ConcatEmptySeq
      <4> QED
        BY ONLY <1>1, <2>8, <4>1, <4>2, <4>3, a = AnnouncedLength, k = consumed - rx_position
    <3> QED
      BY ONLY <1>1, <1>3, <3>2, <3>3, <3>4, size \in Nat
  <2> QED
    BY ONLY <1>1, <1>9, <2>7, <2>8
<1> QED
  BY ONLY <1>1, <1>6, <1>8, <1>9

(***************************************************************************)
(* When a call returns, every frame in the bytes received so far has been  *)
(* handed over, but for an empty one at the very end.                      *)
(***************************************************************************)
THEOREM AllFramesHandedOver == Spec => []NothingHeldBack
<1>1. IInv /\ AllHandedOver => NothingHeldBack
  <2> SUFFICES ASSUME IInv, AllHandedOver, ~InCall
               PROVE  \/ CallEnds = FrameEnds(stream)
                      \/ /\ rx_position = HeaderSize /\ AnnouncedLength = 0
                         /\ Append(CallEnds, Len(stream)) = FrameEnds(stream)
    BY DEF NothingHeldBack
  <2>1. stream \o <<>> = stream /\ <<>> \in Seq(Byte) /\ Len(stream) \in Nat
    <3>1. stream \in Seq(Byte)
      BY DEF IInv, TypeOK
    <3> QED
      BY ONLY <3>1, ConcatEmptySeq, EmptySeq, LenProperties
  <2>2. FrameEnds(stream) = CallEnds \o EndsFrom(stream)[consumed - rx_position]
    <3>1. HandedOver(<<>>)
      BY <2>1 DEF AllHandedOver
    <3> QED
      BY ONLY <2>1, <3>1 DEF HandedOver, FrameEnds
  <2>3. CallEnds \in Seq(Nat)
    BY CallEndsTyped DEF IInv
  <2>4. CallEnds \o <<>> = CallEnds /\ Append(CallEnds, Len(stream)) = CallEnds \o <<Len(stream)>>
    BY ONLY <2>1, <2>3, ConcatEmptySeq, AppendIsConcat
  <2> QED
    BY <2>2, <2>4, NothingComplete
<1>2. Spec => [](IInv /\ AllHandedOver)
  BY HandsOverInitially, HandsOverPreserved, InvariantHolds, PTL DEF Spec
<1> QED
  BY <1>1, <1>2, PTL
=============================================================================
