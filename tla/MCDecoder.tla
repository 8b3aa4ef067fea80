----------------------------- MODULE MCDecoder -----------------------------
(***************************************************************************)
(* Decoder with the sizes of the program, given packets of many sizes over *)
(* every route and the payload types the program tells apart.  The buffer  *)
(* behind a packet holds the same kind of bytes as the packet, as if a     *)
(* longer one had been there before.  In addition, the packets compiled    *)
(* into the program, with its own MAC and cipher.                          *)
(***************************************************************************)
EXTENDS CompiledPackets

(***************************************************************************)
(* Packets with a few payload sizes, one cut off in its path, and the      *)
(* smallest and the largest there are.                                     *)
(***************************************************************************)
SizesFor(route, path_length, payloads) ==
    ({0, 1, 2, 3, 4, 5, 60, 255}
        \cup {PathAt(route) + path_length + n : n \in {-2, -1} \cup payloads})
    \cap 0 .. 255

PathLengths == {0, 1, 63, 64, 65, 200, 255}

(***************************************************************************)
(* Flags of an advert: none; a name; position; everything; the two extra   *)
(* fields; a role and nothing else; an extra field and a name.             *)
(***************************************************************************)
FlagBytes == {0, 128 + 1, 16 + 2, 255, 96, 3, 32 + 128}

(***************************************************************************)
(* A buffer with a header, the same two bytes for the transport code, a    *)
(* length byte and the flags of an advert, and everything else filled with *)
(* the same byte, or (0) with bytes that count up.                         *)
(***************************************************************************)
BufferOf(route, type, version, code, path_length, flags, fill) ==
    [i \in 0 .. MAX_TRANS_UNIT - 1 |->
        IF i = 0 THEN route + 4 * type + 64 * version
        ELSE IF i = PathLengthAt(route) THEN path_length
        ELSE IF i < PathLengthAt(route) THEN code
        ELSE IF type = ADVERT /\ i = PathAt(route) + path_length + IdentitySize THEN flags
        ELSE IF fill = 0 THEN i + 1
        ELSE fill - 1]

PlainPackets ==
    UNION {{[data |-> BufferOf(route, 3, v[1], v[2], path_length, 0, 0), size |-> size] :
               size \in SizesFor(route, path_length, {0, 1, 4, 183, 184, 185, 186})} :
           route \in 0 .. 3, v \in {<<0, 0>>, <<3, 9>>}, path_length \in PathLengths}

(***************************************************************************)
(* The MAC below takes ciphertexts for authentic where bytes count up.     *)
(* The ciphertexts are 0 to 7, 15 to 18, 31 to 34 and up to 182 bytes long.*)
(***************************************************************************)
GrpTxtPackets ==
    UNION {{[data |-> BufferOf(route, GRP_TXT, 0, 0, path_length, 0, fill),
             size |-> size] :
               size \in SizesFor(route, path_length,
                                 (0 .. 10) \cup (18 .. 21) \cup (34 .. 37) \cup (182 .. 185))} :
           route \in {0, 1}, path_length \in {0, 1, 64, 65}, fill \in {0, 9}}

(***************************************************************************)
(* Adverts of every size from just below the fixed part to behind the last *)
(* field in front of the name, and around the longest name; with zeros for *)
(* a name, and without.                                                    *)
(***************************************************************************)
AdvertPackets ==
    UNION {{[data |-> BufferOf(route, ADVERT, 0, 0, path_length, flags, fill),
             size |-> size] :
               size \in SizesFor(route, path_length,
                                 {50} \cup (99 .. 115) \cup (131 .. 147) \cup {184})} :
           route \in {1, 3}, path_length \in {0, 64}, flags \in FlagBytes, fill \in {0, 1}}

Packets == PlainPackets \cup GrpTxtPackets \cup AdvertPackets \cup CompiledInputs

(***************************************************************************)
(* MAC and cipher are functions of no meaning where bytes count up or are  *)
(* all the same, as in the packets above, and those of the program         *)
(* otherwise.                                                              *)
(***************************************************************************)
Regular(bytes) == \A i \in 2 .. Len(bytes) : bytes[i] - bytes[i - 1] \in {0, 1}

Mac(ciphertext) ==
    IF ciphertext = <<>> THEN <<0, 0>>
    ELSE IF Regular(ciphertext) THEN <<ciphertext[1] - 2, ciphertext[1] - 1>>
    ELSE ChannelMac(ciphertext)

Plain(block) ==
    IF Regular(block) THEN [i \in 1 .. CipherBlock |-> 255 - block[i]]
    ELSE ChannelDecrypt(block)

(***************************************************************************)
(* "The implementation is verified against the test vectors": the blocks   *)
(* at the head of aes.c are encrypted to the ciphertexts there.            *)
(***************************************************************************)
VectorKey ==
    <<\h2b, \h7e, \h15, \h16, \h28, \hae, \hd2, \ha6, \hab, \hf7, \h15, \h88, \h09, \hcf, \h4f, \h3c>>

Vectors == {
    [plain  |-> <<\h6b, \hc1, \hbe, \he2, \h2e, \h40, \h9f, \h96, \he9, \h3d, \h7e, \h11, \h73, \h93, \h17, \h2a>>,
     cipher |-> <<\h3a, \hd7, \h7b, \hb4, \h0d, \h7a, \h36, \h60, \ha8, \h9e, \hca, \hf3, \h24, \h66, \hef, \h97>>],
    [plain  |-> <<\hae, \h2d, \h8a, \h57, \h1e, \h03, \hac, \h9c, \h9e, \hb7, \h6f, \hac, \h45, \haf, \h8e, \h51>>,
     cipher |-> <<\hf5, \hd3, \hd5, \h85, \h03, \hb9, \h69, \h9d, \he7, \h85, \h89, \h5a, \h96, \hfd, \hba, \haf>>],
    [plain  |-> <<\h30, \hc8, \h1c, \h46, \ha3, \h5c, \he4, \h11, \he5, \hfb, \hc1, \h19, \h1a, \h0a, \h52, \hef>>,
     cipher |-> <<\h43, \hb1, \hcd, \h7f, \h59, \h8e, \hce, \h23, \h88, \h1b, \h00, \he3, \hed, \h03, \h06, \h88>>],
    [plain  |-> <<\hf6, \h9f, \h24, \h45, \hdf, \h4f, \h9b, \h17, \had, \h2b, \h41, \h7b, \he6, \h6c, \h37, \h10>>,
     cipher |-> <<\h7b, \h0c, \h78, \h5e, \h27, \he8, \had, \h3f, \h82, \h23, \h20, \h71, \h04, \h72, \h5d, \hd4>>]}

ASSUME VectorsEncrypted ==
    \A vector \in Vectors : Cipher(vector.plain, KeyExpansion(VectorKey)) = vector.cipher
=============================================================================
