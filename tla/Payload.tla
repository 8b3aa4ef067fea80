------------------------------ MODULE Payload ------------------------------
(***************************************************************************)
(* The payload codecs (meshcore/payload): adverts, requests, group texts   *)
(* and acknowledgements.                                                   *)
(*                                                                         *)
(* A serializer is given by the bytes it stores, in order: it clears the   *)
(* payload and copies them from its start, and their number is the size it *)
(* returns.  A deserializer is given the array of a payload and a size; it *)
(* may read behind the size, where the array keeps what it held.           *)
(***************************************************************************)
EXTENDS Packet

CONSTANTS
    PUB_KEY_SIZE,        \* MESHCORE_PUB_KEY_SIZE
    SIGNATURE_SIZE,      \* MESHCORE_SIGNATURE_SIZE
    MAX_NAME_SIZE,       \* MESHCORE_MAX_NAME_SIZE
    CIPHER_MAC_SIZE      \* MESHCORE_CIPHER_MAC_SIZE

(***************************************************************************)
(* The fixed part of an advert and of a request fit in a payload.          *)
(***************************************************************************)
ASSUME PayloadSizeAssumption ==
    /\ PUB_KEY_SIZE \in Nat /\ SIGNATURE_SIZE \in Nat /\ MAX_NAME_SIZE \in Nat
    /\ CIPHER_MAC_SIZE \in Nat
    /\ PUB_KEY_SIZE + 4 + SIGNATURE_SIZE < MAX_PAYLOAD_SIZE
    /\ 2 + CIPHER_MAC_SIZE <= MAX_PAYLOAD_SIZE

(***************************************************************************)
(* The n bytes from `at' on, as a sequence.                                *)
(***************************************************************************)
Slice(data, at, n) == [i \in 1 .. n |-> data[at + i - 1]]

(***************************************************************************)
(* A cleared payload with some bytes at its start.                         *)
(***************************************************************************)
PayloadWith(bytes) ==
    [i \in 0 .. MAX_PAYLOAD_SIZE - 1 |-> IF i < Len(bytes) THEN bytes[i + 1] ELSE 0]

-----------------------------------------------------------------------------

(***************************************************************************)
(* Adverts.  pub_key, timestamp and signature lie one behind another and   *)
(* are one sequence `identity'.  An optional field is <<>> when its _valid *)
(* flag is false, else its bytes; the two coordinates share a flag.  The   *)
(* name is what was copied into its array of zeros.                        *)
(***************************************************************************)
IdentitySize == PUB_KEY_SIZE + 4 + SIGNATURE_SIZE

HasPosition(flags) == (flags \div 16) % 2 = 1
HasExtra1(flags)   == (flags \div 32) % 2 = 1
HasExtra2(flags)   == (flags \div 64) % 2 = 1
HasName(flags)     == (flags \div 128) % 2 = 1

PositionAt      == IdentitySize + 1
Extra1At(flags) == PositionAt + (IF HasPosition(flags) THEN 8 ELSE 0)
Extra2At(flags) == Extra1At(flags) + (IF HasExtra1(flags) THEN 2 ELSE 0)
NameAt(flags)   == Extra2At(flags) + (IF HasExtra2(flags) THEN 2 ELSE 0)

(***************************************************************************)
(* strnlen: the bytes of a name before its first zero.                     *)
(***************************************************************************)
NameText(name) ==
    SubSeq(name, 1, CHOOSE n \in 0 .. Len(name) :
                       /\ \A i \in 1 .. n : name[i] # 0
                       /\ n = Len(name) \/ name[n + 1] = 0)

Flag(set, bit) == IF set THEN bit ELSE 0

(***************************************************************************)
(* Mutant: the two extra fields in the other order.                        *)
(***************************************************************************)
AdvertBytesExtraSwapped(advert) ==
    advert.identity
       \o <<advert.role + Flag(advert.position # <<>>, 16) + Flag(advert.extra1 # <<>>, 32)
              + Flag(advert.extra2 # <<>>, 64) + Flag(advert.name_valid, 128)>>
       \o advert.position \o advert.extra2 \o advert.extra1
       \o (IF advert.name_valid THEN NameText(advert.name) ELSE <<>>)

AdvertBytes(advert) ==
    advert.identity
       \o <<advert.role + Flag(advert.position # <<>>, 16) + Flag(advert.extra1 # <<>>, 32)
              + Flag(advert.extra2 # <<>>, 64) + Flag(advert.name_valid, 128)>>
       \o advert.position \o advert.extra1 \o advert.extra2
       \o (IF advert.name_valid THEN NameText(advert.name) ELSE <<>>)

(***************************************************************************)
(* size - position < n in size_t arithmetic: a negative difference is a    *)
(* very large number and not less.                                         *)
(***************************************************************************)
TooShort(size, at, n) == size >= at /\ size - at < n

(***************************************************************************)
(* app_data_len and name_len are uint8_t and wrap around for an advert     *)
(* shorter than its fixed part.                                            *)
(***************************************************************************)
NameLength(size, flags) == (size - NameAt(flags)) % ByteSize

AcceptsAdvert(size, flags) ==
    /\ HasPosition(flags) => ~TooShort(size, PositionAt, 8)
    /\ HasExtra1(flags)   => ~TooShort(size, Extra1At(flags), 2)
    /\ HasExtra2(flags)   => ~TooShort(size, Extra2At(flags), 2)
    /\ HasName(flags)     => NameLength(size, flags) <= MAX_NAME_SIZE

(***************************************************************************)
(* meshcore_advert_deserialize.  Without application data there is no byte *)
(* of flags, which leaves every field behind it as the memset made it.     *)
(***************************************************************************)
AdvertDeserialize(data, size) ==
    LET flags == IF (size - IdentitySize) % ByteSize > 0 THEN data[IdentitySize] ELSE 0
        field(present, at, n) == IF present THEN Slice(data, at, n) ELSE <<>>
    IN  IF ~AcceptsAdvert(size, flags) THEN Rejected
        ELSE [result |-> 0,
              advert |-> [identity   |-> Slice(data, 0, IdentitySize),
                          role       |-> flags % 16,
                          position   |-> field(HasPosition(flags), PositionAt, 8),
                          extra1     |-> field(HasExtra1(flags), Extra1At(flags), 2),
                          extra2     |-> field(HasExtra2(flags), Extra2At(flags), 2),
                          name_valid |-> HasName(flags),
                          name       |-> field(HasName(flags), NameAt(flags),
                                               NameLength(size, flags))]]

-----------------------------------------------------------------------------

(***************************************************************************)
(* Group texts: channel hash, MAC, ciphertext.  The copy of the ciphertext *)
(* stays in its array only if its length does; nothing checks that.        *)
(***************************************************************************)
GrpTxtDataAt == 1 + CIPHER_MAC_SIZE

GrpTxtDataSize == MAX_PAYLOAD_SIZE - GrpTxtDataAt

GrpTxtDataLengthWithMac(size) == (size - 1) % ByteSize     \* mutant

GrpTxtDataLength(size) == (size - GrpTxtDataAt) % ByteSize

GrpTxtCopyFits(size) == GrpTxtDataLength(size) <= GrpTxtDataSize

(***************************************************************************)
(* meshcore_grp_txt_deserialize, for a size whose copy fits.               *)
(***************************************************************************)
GrpTxtDeserialize(data, size) ==
    [channel_hash |-> data[0],
     mac          |-> Slice(data, 1, CIPHER_MAC_SIZE),
     data_length  |-> GrpTxtDataLength(size),
     data         |-> Copied(data, GrpTxtDataAt, GrpTxtDataLength(size), GrpTxtDataSize)]

GrpTxtBytes(grp_txt) ==
    <<grp_txt.channel_hash>> \o grp_txt.mac \o Slice(grp_txt.data, 0, grp_txt.data_length)

-----------------------------------------------------------------------------

(***************************************************************************)
(* Requests: two hashes, MAC, ciphertext.  Both directions compare the     *)
(* length of the ciphertext with the size of its array.                    *)
(***************************************************************************)
CiphertextAt == 2 + CIPHER_MAC_SIZE

CiphertextSize == MAX_PAYLOAD_SIZE - CiphertextAt

RequestSerialize(request) ==
    IF request.ciphertext_length > CiphertextSize THEN Rejected
    ELSE [result |-> 0,
          bytes  |-> <<request.destination_hash, request.source_hash>>
                        \o request.ciphher_mac
                        \o Slice(request.ciphertext, 0, request.ciphertext_length)]

RequestCiphertextLength(size) == (size - CiphertextAt) % ByteSize

RequestDeserialize(data, size) ==
    IF RequestCiphertextLength(size) > CiphertextSize THEN Rejected
    ELSE [result  |-> 0,
          request |-> [destination_hash  |-> data[0],
                       source_hash       |-> data[1],
                       ciphher_mac       |-> Slice(data, 2, CIPHER_MAC_SIZE),
                       ciphertext_length |-> RequestCiphertextLength(size),
                       ciphertext        |-> Copied(data, CiphertextAt,
                                                    RequestCiphertextLength(size),
                                                    CiphertextSize)]]

-----------------------------------------------------------------------------

(***************************************************************************)
(* Acknowledgements: the four bytes of a checksum, whatever the size.      *)
(***************************************************************************)
AckBytes(ack) == ack.crc

AckDeserialize(data, size) == [crc |-> Slice(data, 0, 4)]
=============================================================================
