------------------------------ MODULE Decoder ------------------------------
(***************************************************************************)
(* The decoding program (meshcore-test/main.c): it decodes a packet and    *)
(* the payload of an advert or a group text, checks the MAC of a group     *)
(* text and decrypts it, encodes everything again and compares the result  *)
(* with its input.                                                         *)
(*                                                                         *)
(* The cipher and the MAC are parameters; the key is fixed.                *)
(***************************************************************************)
EXTENDS Payload

CONSTANTS
    Inputs,                \* packets: buffers with a size
    hmac_sha256(_),        \* ciphertext -> MAC cut to CIPHER_MAC_SIZE bytes
    AES_ECB_decrypt(_)     \* block of ciphertext -> block of plaintext

ASSUME InputAssumption == Inputs \subseteq [data : Buffers, size : 0 .. MAX_TRANS_UNIT]

VARIABLES
    pc,           \* what comes next in main
    input,        \* the packet given to the program
    message,      \* the local variable of main, and grp_txt and its `decrypted'
    grp_txt,
    decrypted,
    encoded,      \* encoded_packet and encoded_packet_len
    result        \* what main returns

vars == <<pc, input, message, grp_txt, decrypted, encoded, result>>

ADVERT  == 4      \* MESHCORE_PAYLOAD_TYPE_ADVERT
GRP_TXT == 5      \* MESHCORE_PAYLOAD_TYPE_GRP_TXT

Nothing == [nothing |-> TRUE]     \* a variable of main not yet assigned

CipherBlock == 16

Exit(status) == pc' = "exit" /\ result' = status

Init ==
    /\ pc = "decode"
    /\ input \in Inputs
    /\ message = Nothing /\ grp_txt = Nothing /\ decrypted = Nothing
    /\ encoded = Nothing
    /\ result = 0

Decoded == Deserialize(input.data, input.size)

DecodeFails ==
    /\ pc = "decode" /\ Decoded.result < 0
    /\ Exit(-1)
    /\ UNCHANGED <<input, message, grp_txt, decrypted, encoded>>

Decode ==
    /\ pc = "decode" /\ Decoded.result >= 0
    /\ message' = Decoded.message
    /\ pc' = CASE message'.type = ADVERT  -> "advert"
               [] message'.type = GRP_TXT -> "grp_txt"
               [] OTHER                   -> "encode"
    /\ UNCHANGED <<input, grp_txt, decrypted, encoded, result>>

(***************************************************************************)
(* A payload codec stored these bytes in message.payload.                  *)
(***************************************************************************)
StorePayload(bytes) ==
    message' = [message EXCEPT !.payload        = PayloadWith(bytes),
                               !.payload_length = Len(bytes) % ByteSize]

DecodedAdvert == AdvertDeserialize(message.payload, message.payload_length)

AdvertFails ==
    /\ pc = "advert" /\ DecodedAdvert.result < 0
    /\ Exit(-1)
    /\ UNCHANGED <<input, message, grp_txt, decrypted, encoded>>

Advert ==
    /\ pc = "advert" /\ DecodedAdvert.result >= 0
    /\ StorePayload(AdvertBytes(DecodedAdvert.advert))
    /\ pc' = "encode"
    /\ UNCHANGED <<input, grp_txt, decrypted, encoded, result>>

(***************************************************************************)
(* The length of the ciphertext wrapped around and the copy runs over the  *)
(* end of its array: what happens from here on is undefined.               *)
(***************************************************************************)
GrpTxtOverruns ==
    /\ pc = "grp_txt" /\ ~GrpTxtCopyFits(message.payload_length)
    /\ pc' = "undefined"
    /\ UNCHANGED <<input, message, grp_txt, decrypted, encoded, result>>

GrpTxt ==
    /\ pc = "grp_txt" /\ GrpTxtCopyFits(message.payload_length)
    /\ grp_txt' = GrpTxtDeserialize(message.payload, message.payload_length)
    /\ pc' = "authenticate"
    /\ UNCHANGED <<input, message, decrypted, encoded, result>>

Ciphertext == Slice(grp_txt.data, 0, grp_txt.data_length)

AuthenticFirstByte ==                     \* mutant: one byte of the MAC compared
    grp_txt.mac[1] = hmac_sha256(Ciphertext)[1]

Authentic == grp_txt.mac = hmac_sha256(Ciphertext)

(***************************************************************************)
(* Whole blocks are decrypted in place, bytes behind the last stay what    *)
(* they are; then the text is terminated: text[text_length] is byte        *)
(* data_length of the array, also when that is less than the five bytes in *)
(* front of the text (size_t arithmetic wraps around and back).  With the  *)
(* largest ciphertext it is the byte of padding behind the array.          *)
(***************************************************************************)
TextAt == 5       \* timestamp and text type lie in front of the text

ASSUME TextAssumption == TextAt <= GrpTxtDataSize

DecryptedByte(i) ==
    IF i < CipherBlock * (grp_txt.data_length \div CipherBlock)
    THEN AES_ECB_decrypt(Slice(grp_txt.data, CipherBlock * (i \div CipherBlock), CipherBlock))
            [(i % CipherBlock) + 1]
    ELSE IF i < grp_txt.data_length THEN grp_txt.data[i]
    ELSE 0

(***************************************************************************)
(* Mutants: the text is terminated at its own length, counted from the     *)
(* start of the array; the MAC is not looked at.                           *)
(***************************************************************************)
TerminatorAtLengthOfText == IF grp_txt.data_length < TextAt THEN 0
                            ELSE grp_txt.data_length - TextAt

TerminatorAt == grp_txt.data_length

DecryptUnauthenticated ==
    /\ pc = "authenticate"
    /\ decrypted' = [i \in 0 .. GrpTxtDataSize |->
                       IF i = TerminatorAt THEN 0 ELSE DecryptedByte(i)]
    /\ pc' = "grp_txt_encode"
    /\ UNCHANGED <<input, message, grp_txt, encoded, result>>

Decrypt ==
    /\ pc = "authenticate" /\ Authentic
    /\ decrypted' = [i \in 0 .. GrpTxtDataSize |->
                       IF i = TerminatorAt THEN 0 ELSE DecryptedByte(i)]
    /\ pc' = "grp_txt_encode"
    /\ UNCHANGED <<input, message, grp_txt, encoded, result>>

MacDiffers ==
    /\ pc = "authenticate" /\ ~Authentic
    /\ pc' = "grp_txt_encode"
    /\ UNCHANGED <<input, message, grp_txt, decrypted, encoded, result>>

GrpTxtEncode ==
    /\ pc = "grp_txt_encode"
    /\ StorePayload(GrpTxtBytes(grp_txt))
    /\ pc' = "encode"
    /\ UNCHANGED <<input, grp_txt, decrypted, encoded, result>>

(***************************************************************************)
(* encoded_packet against the input: as long, and byte by byte the same.   *)
(***************************************************************************)
SameAsInput(packet) ==
    /\ packet.size = input.size
    /\ \A i \in 0 .. input.size - 1 : packet.data[i] = input.data[i]

Encode ==
    /\ pc = "encode"
    /\ encoded' = Serialize(message)
    /\ Exit(IF encoded'.result >= 0 /\ SameAsInput(encoded') THEN 0 ELSE -1)
    /\ UNCHANGED <<input, message, grp_txt, decrypted>>

Stopped == pc \in {"exit", "undefined"} /\ UNCHANGED vars

Next == \/ DecodeFails \/ Decode \/ AdvertFails \/ Advert
        \/ GrpTxtOverruns \/ GrpTxt \/ Decrypt \/ MacDiffers \/ GrpTxtEncode
        \/ Encode \/ Stopped

Spec == Init /\ [][Next]_vars

-----------------------------------------------------------------------------

(***************************************************************************)
(* main's variables hold values of their types; the struct of a group text *)
(* carries a ciphertext that fits in its array.                            *)
(***************************************************************************)
GrpTxts == [channel_hash : Byte,
            mac          : [1 .. CIPHER_MAC_SIZE -> Byte],
            data_length  : 0 .. GrpTxtDataSize,
            data         : [0 .. GrpTxtDataSize - 1 -> Byte]]

DecoderTypeOK ==
    /\ pc \in {"decode", "advert", "grp_txt", "authenticate", "grp_txt_encode",
               "encode", "exit", "undefined"}
    /\ input \in [data : Buffers, size : 0 .. MAX_TRANS_UNIT]
    /\ message = Nothing \/ message \in Messages
    /\ grp_txt = Nothing \/ grp_txt \in GrpTxts
    /\ result \in {0, -1}

(***************************************************************************)
(* The packet format, with no arithmetic modulo anything: header,          *)
(* transport code if the route has one, length byte, path and payload fill *)
(* the packet exactly, and path and payload are no longer than they may be.*)
(***************************************************************************)
WellFormed(packet) ==
    LET route          == Route(packet.data[0])
        path_length    == packet.data[PathLengthAt(route)]
        payload_length == packet.size - PathAt(route) - path_length
    IN  /\ packet.size >= PathAt(route)
        /\ path_length <= MAX_PATH_SIZE
        /\ payload_length \in 0 .. MAX_PAYLOAD_SIZE

(***************************************************************************)
(* The payload of a well-formed packet: its last bytes.                    *)
(***************************************************************************)
PayloadOf(packet) ==
    LET route == Route(packet.data[0])
        start == PathAt(route) + packet.data[PathLengthAt(route)]
    IN  Slice(packet.data, start, packet.size - start)

(***************************************************************************)
(* The program goes on with a packet iff it is well-formed: one whose path *)
(* or payload is cut off or too long is dropped, although the decoder only *)
(* compares lengths that may have wrapped around.                          *)
(***************************************************************************)
AcceptsWellFormed ==
    /\ message # Nothing => WellFormed(input)
    /\ (pc = "exit" /\ message = Nothing) => ~WellFormed(input)

(***************************************************************************)
(* What was decoded is what was received: until it is encoded again, the   *)
(* payload of the message is the end of the packet and zeros; nothing that *)
(* lies behind the packet in its buffer gets into the message.             *)
(***************************************************************************)
PayloadReceived ==
    (message # Nothing /\ pc \in {"advert", "grp_txt", "authenticate", "grp_txt_encode"}) =>
        /\ message.payload_length = Len(PayloadOf(input))
        /\ message.payload = PayloadWith(PayloadOf(input))

(***************************************************************************)
(* A ciphertext is decrypted only if the MAC received in front of it is    *)
(* the MAC of the very bytes received.                                     *)
(***************************************************************************)
DecryptedIsAuthentic ==
    decrypted # Nothing =>
        LET payload == PayloadOf(input)
        IN  SubSeq(payload, 2, GrpTxtDataAt)
               = hmac_sha256(SubSeq(payload, GrpTxtDataAt + 1, Len(payload)))

(***************************************************************************)
(* The text printed is the plaintext of the ciphertext received, blocks    *)
(* decrypted one by one and a rest that is no block as it was received,    *)
(* and it ends behind that: the terminator, put by an index that wraps     *)
(* around for a text without its five leading bytes, cuts nothing off.     *)
(***************************************************************************)
TextIsPlaintext ==
    decrypted # Nothing =>
        LET ciphertext == SubSeq(PayloadOf(input), GrpTxtDataAt + 1, Len(PayloadOf(input)))
            blocks     == Len(ciphertext) \div CipherBlock
            block(k)   == SubSeq(ciphertext, CipherBlock * k + 1, CipherBlock * k + CipherBlock)
        IN  /\ \A i \in TextAt .. Len(ciphertext) - 1 :
                  decrypted[i] =
                     IF i \div CipherBlock < blocks
                     THEN AES_ECB_decrypt(block(i \div CipherBlock))[(i % CipherBlock) + 1]
                     ELSE ciphertext[i + 1]
            /\ decrypted[IF Len(ciphertext) < TextAt THEN TextAt ELSE Len(ciphertext)] = 0

(***************************************************************************)
(* The only payload a copy of the program runs over its array with is a    *)
(* group text shorter than its channel hash and MAC.                       *)
(***************************************************************************)
OverrunsOnlyTooShort ==
    pc = "undefined" =>
        /\ Type(input.data[0]) = GRP_TXT
        /\ Len(PayloadOf(input)) < GrpTxtDataAt

(***************************************************************************)
(* An advert that says everything once: identity, flags, the fields the    *)
(* flags name, and to the end a name without zeros, if the flags name one. *)
(***************************************************************************)
CanonicalAdvert(payload) ==
    /\ Len(payload) > IdentitySize
    /\ LET flags == payload[IdentitySize + 1] IN
       /\ NameAt(flags) <= Len(payload)
       /\ HasName(flags) => Len(payload) - NameAt(flags) <= MAX_NAME_SIZE
       /\ ~HasName(flags) => NameAt(flags) = Len(payload)
       /\ \A i \in NameAt(flags) + 1 .. Len(payload) : payload[i] # 0

Canonical(packet) ==
    /\ WellFormed(packet)
    /\ HasTransportCodes(Route(packet.data[0])) => packet.data[1] = 0 /\ packet.data[2] = 0
    /\ Type(packet.data[0]) = ADVERT  => CanonicalAdvert(PayloadOf(packet))
    /\ Type(packet.data[0]) = GRP_TXT => Len(PayloadOf(packet)) >= GrpTxtDataAt

(***************************************************************************)
(* "Serialized packet matches original input" is what the program says of  *)
(* exactly the packets in canonical form: decoding and encoding lose       *)
(* nothing else, whatever lies behind the packet.  (That a transport code  *)
(* must be zero is TransportCodesEncoded below.)                           *)
(***************************************************************************)
MatchesIffCanonical ==
    pc = "exit" => (result = 0 <=> Canonical(input))

(***************************************************************************)
(* "TRANSPORT_FLOOD: flood mode + transport codes": a packet encoded for   *)
(* such a route carries the message's transport code.                      *)
(***************************************************************************)
TransportCodesEncoded ==
    (encoded # Nothing /\ HasTransportCodes(message.route)) =>
        \A i \in 0 .. 1 : encoded.data[1 + i] = message.transport_codes[i]
=============================================================================
