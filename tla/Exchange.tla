------------------------------ MODULE Exchange ------------------------------
(***************************************************************************)
(* Two users of the codecs (meshcore/packet.c and meshcore/payload): one   *)
(* encodes a payload and a packet around it, the other decodes both, over  *)
(* and over and with the same receive buffer.                              *)
(*                                                                         *)
(* The radio between them is not in the repository.  It is modelled by     *)
(* what the decoders are written for: a packet arrives with a size, whole  *)
(* or cut off, and behind it the buffer holds what it held.                *)
(***************************************************************************)
EXTENDS Payload

CONSTANTS
    Contents,      \* what may be sent: a message with a structured payload
    Losses,        \* how many bytes may be missing at the end of a packet
    MaxPackets     \* bound of the model: how many packets are encoded

ASSUME LossAssumption == Losses \subseteq Nat /\ MaxPackets \in Nat

VARIABLES
    pc,            \* "idle", "encoded", "arrived" or "undefined"
    packets,       \* how many were encoded
    sent,          \* the content last given to the encoders
    packet,        \* out_data and out_size of meshcore_serialize
    rx_buffer, rx_size,
    received       \* what the decoders made of it

vars == <<pc, packets, sent, packet, rx_buffer, rx_size, received>>

REQ     == 0
ACK     == 3
ADVERT  == 4
GRP_TXT == 5

(***************************************************************************)
(* The payload structures, whatever their fields: an array is cleared      *)
(* behind its length (a decoded one is), a name is the text up to its      *)
(* terminator, an optional field is <<>> when it is not there.             *)
(***************************************************************************)
ClearedFrom(array, n) == \A i \in DOMAIN array : i >= n => array[i] = 0

Requests == [destination_hash  : Byte,
             source_hash       : Byte,
             ciphher_mac       : [1 .. CIPHER_MAC_SIZE -> Byte],
             ciphertext_length : Byte,
             ciphertext        : [0 .. CiphertextSize - 1 -> Byte]]

Optional(length) == {<<>>} \union [1 .. length -> Byte]

Adverts == [identity   : [1 .. IdentitySize -> Byte],
            role       : 0 .. 15,
            position   : Optional(8),
            extra1     : Optional(2),
            extra2     : Optional(2),
            name_valid : BOOLEAN,
            name       : Seq(Byte \ {0})]

GrpTxts == [channel_hash : Byte,
            mac          : [1 .. CIPHER_MAC_SIZE -> Byte],
            data_length  : 0 .. GrpTxtDataSize,
            data         : [0 .. GrpTxtDataSize - 1 -> Byte]]

BodyFits(type, body) ==
    CASE type = REQ ->
            body \in Requests /\ ClearedFrom(body.ciphertext, body.ciphertext_length)
      [] type = ACK -> body \in [crc : [1 .. 4 -> Byte]]
      [] type = ADVERT ->
            /\ body \in Adverts /\ Len(body.name) <= MAX_NAME_SIZE
            /\ ~body.name_valid => body.name = <<>>
      [] type = GRP_TXT ->
            body \in GrpTxts /\ ClearedFrom(body.data, body.data_length)
      [] OTHER -> body \in Seq(Byte) /\ Len(body) <= MAX_PAYLOAD_SIZE

(***************************************************************************)
(* What a user of the encoders may hand over.  A transport code other than *)
(* zero is not transmitted.                                                *)
(***************************************************************************)
Sendable(content) ==
    /\ content \in [type : 0 .. 15, route : 0 .. 3, version : 0 .. 3,
                    transport_codes : {[i \in 0 .. 3 |-> 0]},
                    path : Seq(Byte), body : {content.body}]
    /\ Len(content.path) <= MAX_PATH_SIZE
    /\ BodyFits(content.type, content.body)

(***************************************************************************)
(* The longest advert fits a payload, where its serializer never checks.   *)
(***************************************************************************)
ASSUME ContentAssumption ==
    /\ \A content \in Contents : Sendable(content)
    /\ IdentitySize + 13 + MAX_NAME_SIZE <= MAX_PAYLOAD_SIZE

Encoded(bytes) == [result |-> 0, bytes |-> bytes]

(***************************************************************************)
(* The payload codecs, chosen by type; other payloads are bytes.           *)
(***************************************************************************)
SerializePayload(type, body) ==
    CASE type = REQ     -> RequestSerialize(body)
      [] type = ACK     -> Encoded(AckBytes(body))
      [] type = ADVERT  -> Encoded(AdvertBytes(body))
      [] type = GRP_TXT -> Encoded(GrpTxtBytes(body))
      [] OTHER          -> Encoded(body)

DeserializePayload(message) ==
    LET data == message.payload
        size == message.payload_length
        accepted(body) == [result |-> 0, body |-> body]
    IN  CASE message.type = REQ ->
               LET d == RequestDeserialize(data, size)
               IN  IF d.result < 0 THEN Rejected ELSE accepted(d.request)
          [] message.type = ACK -> accepted(AckDeserialize(data, size))
          [] message.type = ADVERT ->
               LET d == AdvertDeserialize(data, size)
               IN  IF d.result < 0 THEN Rejected ELSE accepted(d.advert)
          [] message.type = GRP_TXT -> accepted(GrpTxtDeserialize(data, size))
          [] OTHER -> accepted(Slice(data, 0, size))

MessageOf(content, bytes) ==
    [type            |-> content.type,
     route           |-> content.route,
     version         |-> content.version,
     transport_codes |-> content.transport_codes,
     path_length     |-> Len(content.path),
     path            |-> [i \in 0 .. MAX_PATH_SIZE - 1 |->
                            IF i < Len(content.path) THEN content.path[i + 1] ELSE 0],
     payload_length  |-> Len(bytes) % ByteSize,
     payload         |-> PayloadWith(bytes)]

None == [result |-> 1]

Init ==
    /\ pc = "idle" /\ packets = 0
    /\ sent = None /\ packet = None /\ received = None
    /\ rx_buffer = [i \in 0 .. MAX_TRANS_UNIT - 1 |-> 0]
    /\ rx_size = 0

Encode(content) ==
    LET payload == SerializePayload(content.type, content.body) IN
    /\ pc = "idle" /\ packets < MaxPackets
    /\ payload.result >= 0
    /\ packet' = Serialize(MessageOf(content, payload.bytes))
    /\ sent' = content
    /\ pc' = "encoded" /\ packets' = packets + 1
    /\ UNCHANGED <<rx_buffer, rx_size, received>>

EncodeFails(content) ==
    /\ pc = "idle" /\ packets < MaxPackets
    /\ SerializePayload(content.type, content.body).result < 0
    /\ sent' = content /\ packet' = Rejected /\ received' = None
    /\ packets' = packets + 1
    /\ UNCHANGED <<pc, rx_buffer, rx_size>>

Arrive(lost) ==
    /\ pc = "encoded" /\ lost <= packet.size
    /\ rx_size' = packet.size - lost
    /\ rx_buffer' = [i \in DOMAIN rx_buffer |->
                        IF i < rx_size' THEN packet.data[i] ELSE rx_buffer[i]]
    /\ pc' = "arrived"
    /\ UNCHANGED <<packets, sent, packet, received>>

DecodedPacket == Deserialize(rx_buffer, rx_size)

(***************************************************************************)
(* The copy of a ciphertext runs over its array.                           *)
(***************************************************************************)
Overruns ==
    /\ DecodedPacket.result >= 0
    /\ DecodedPacket.message.type = GRP_TXT
    /\ ~GrpTxtCopyFits(DecodedPacket.message.payload_length)

DecodeOverruns ==
    /\ pc = "arrived" /\ Overruns
    /\ pc' = "undefined"
    /\ UNCHANGED <<packets, sent, packet, rx_buffer, rx_size, received>>

ContentOf(message, body) ==
    [type            |-> message.type,
     route           |-> message.route,
     version         |-> message.version,
     transport_codes |-> message.transport_codes,
     path            |-> Slice(message.path, 0, message.path_length),
     body            |-> body]

Decode ==
    /\ pc = "arrived" /\ ~Overruns
    /\ received' =
          IF DecodedPacket.result < 0 THEN Rejected
          ELSE LET payload == DeserializePayload(DecodedPacket.message)
               IN  IF payload.result < 0 THEN Rejected
                   ELSE ContentOf(DecodedPacket.message, payload.body)
    /\ pc' = "idle"
    /\ UNCHANGED <<packets, sent, packet, rx_buffer, rx_size>>

Stopped ==
    /\ pc = "undefined" \/ (pc = "idle" /\ packets = MaxPackets)
    /\ UNCHANGED vars

Next ==
    \/ \E content \in Contents : Encode(content) \/ EncodeFails(content)
    \/ \E lost \in Losses : Arrive(lost)
    \/ Decode \/ DecodeOverruns \/ Stopped

Spec == Init /\ [][Next]_vars

-----------------------------------------------------------------------------

(***************************************************************************)
(* A packet has been decoded, or rejected.                                 *)
(***************************************************************************)
JustDecoded == pc = "idle" /\ received # None

Accepted == JustDecoded /\ received # Rejected

(***************************************************************************)
(* What is encoded decodes to itself, with every codec and whatever packet *)
(* the receive buffer held before.  (Transport codes are left zero: see    *)
(* TransportCodesEncoded of module Decoder.)                               *)
(***************************************************************************)
DecodedAsSent ==
    (JustDecoded /\ rx_size = packet.size) => received = sent

(***************************************************************************)
(* The copy of a ciphertext runs over its array only when a part of the    *)
(* packet is missing: no packet that arrives whole can cause it.           *)
(***************************************************************************)
WholePacketsFit == pc = "undefined" => rx_size < packet.size

IsPrefixOf(short, long) ==
    Len(short) <= Len(long) /\ short = SubSeq(long, 1, Len(short))

(***************************************************************************)
(* A sequence with its bytes from n + 1 on cleared.                        *)
(***************************************************************************)
ClearedBehind(bytes, n) == [i \in DOMAIN bytes |-> IF i <= n THEN bytes[i] ELSE 0]

(***************************************************************************)
(* What a payload may become by losing bytes at its end: a ciphertext, a   *)
(* name or bytes are cut off; a checksum or the identity of an advert is   *)
(* filled up with zeros, since no codec compares it with the size; an      *)
(* advert is left with all the fields its flags name or with none.         *)
(***************************************************************************)
CutBody(type, got, was, lost) ==
    CASE type = REQ ->
            /\ <<got.destination_hash, got.source_hash, got.ciphher_mac>>
                  = <<was.destination_hash, was.source_hash, was.ciphher_mac>>
            /\ got.ciphertext_length = was.ciphertext_length - lost
            /\ IsPrefixOf(Slice(got.ciphertext, 0, got.ciphertext_length),
                          Slice(was.ciphertext, 0, was.ciphertext_length))
      [] type = ACK ->
            got.crc = ClearedBehind(was.crc, 4 - lost)
      [] type = ADVERT ->
            \/ /\ [got EXCEPT !.name = <<>>] = [was EXCEPT !.name = <<>>]
               /\ Len(got.name) = Len(was.name) - lost
               /\ IsPrefixOf(got.name, was.name)
            \/ /\ \E n \in 0 .. IdentitySize : got.identity = ClearedBehind(was.identity, n)
               /\ <<got.role, got.position, got.extra1, got.extra2, got.name_valid>>
                     = <<0, <<>>, <<>>, <<>>, FALSE>>
      [] type = GRP_TXT ->
            /\ <<got.channel_hash, got.mac>> = <<was.channel_hash, was.mac>>
            /\ got.data_length = was.data_length - lost
            /\ IsPrefixOf(Slice(got.data, 0, got.data_length),
                          Slice(was.data, 0, was.data_length))
      [] OTHER -> IsPrefixOf(got, was)

(***************************************************************************)
(* A packet that was cut off is rejected, or decodes to what was sent with *)
(* only its payload cut: route and path are those sent, and no byte of an  *)
(* earlier packet, which the buffer still holds, is taken for part of it.  *)
(***************************************************************************)
CutOnlyShortens ==
    (Accepted /\ rx_size < packet.size) =>
        /\ [received EXCEPT !.body = 0] = [sent EXCEPT !.body = 0]
        /\ CutBody(sent.type, received.body, sent.body, packet.size - rx_size)
=============================================================================
